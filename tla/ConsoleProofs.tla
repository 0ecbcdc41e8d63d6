--------------------------- MODULE ConsoleProofs ----------------------------
(***************************************************************************)
(* The console, for any screen, buffer, keys and texts: the position stays *)
(* on the screen, no character is lost behind the end of the line, and the *)
(* hardware's cursor is where the user types, and the shell's arguments    *)
(* are the words of its line; and with a user who waits for the prompt, no *)
(* interrupt stays unacknowledged, the shell gets the line that was        *)
(* edited, and the screen shows it.                                        *)
(***************************************************************************)
EXTENDS CommandLine, FiniteSetTheorems, SequenceTheorems, WellFoundedInduction, TLAPS

\* The hardware's cursor is at the position.
Follows(f) == f.cursor = <<f.row, f.col>>

\* What the console keeps true, whoever types when.
ConsoleInv ==
  /\ TypeOK
  /\ index + Len(queue) <= keys
  /\ NoHoles
  /\ ~input_on => index = 0
  /\ mode = "copied" => ~input_on
  /\ mode # "command" => Follows(fb)

\* And with a user who types only while a read waits for a line: keys wait only
\* then, Enter behind the others, so that the line starts empty and no key
\* meets a handler that does not listen.
OrderlyInv ==
  /\ ~inService
  /\ mode # "wait" \/ ~input_on => queue = <<>>
  /\ \A i \in 1 .. Len(queue) : queue[i] = ENTER => i = Len(queue)
  /\ mode \in {"boot", "command", "prompt"} => index = 0 /\ buffer = NulBuffer
  /\ mode \in {"boot", "prompt", "wait"} => args_val = NulBuffer
  /\ mode = "wait" /\ input_on => \A i \in Indices : i >= index => buffer[i] \in {BLANK, NUL}

-----------------------------------------------------------------------------
(***************************************************************************)
(* Folds over a text: by the well-foundedness of strict inclusion on the   *)
(* sets of its positions.                                                  *)
(***************************************************************************)
Minimal(s, Bad) == s \in Bad /\ \A t \in Bad : t \subseteq s => t = s

\* Of the sets of positions with a property one has no part with it.
LEMMA LeastSet ==
  ASSUME NEW n \in Nat, NEW Bad \in SUBSET SUBSET (1 .. n), Bad # {}
  PROVE  \E s : Minimal(s, Bad)
<1>1. IsWellFoundedOn(StrictSubsetOrdering(1 .. n), FiniteSubsetsOf(1 .. n))
  BY FS_StrictSubsetOrderingWellFounded
<1>2. Bad \subseteq FiniteSubsetsOf(1 .. n)
  <2>1. IsFiniteSet(1 .. n)
    BY FS_Interval
  <2>2. ASSUME NEW s \in Bad PROVE s \in SUBSET (1 .. n) /\ IsFiniteSet(s)
    BY <2>1, FS_Subset
  <2> QED
    BY <2>2 DEF FiniteSubsetsOf
<1>3. PICK s \in Bad : \A t \in Bad : <<t, s>> \notin StrictSubsetOrdering(1 .. n)
  BY <1>1, <1>2, WFMin
<1>4. ASSUME NEW t \in Bad, t \subseteq s, t # s PROVE FALSE
  BY <1>3, <1>4 DEF StrictSubsetOrdering
<1> QED
  BY <1>3, <1>4 DEF Minimal

\* A set of positions has a last one.
LEMMA LastOf ==
  ASSUME NEW n \in Nat, NEW s, s \subseteq 1 .. n, s # {}
  PROVE  Max(s) \in s /\ \A i \in s : i <= Max(s)
<1> DEFINE HasLast(t) == \E m \in t : \A i \in t : m >= i
           Bad == {t \in SUBSET (1 .. n) : t # {} /\ ~HasLast(t)}
<1>1. Bad = {}
  <2>1. SUFFICES ASSUME Bad # {} PROVE FALSE
    OBVIOUS
  <2>2. PICK t \in Bad : \A u \in Bad : u \subseteq t => u = t
    <3>1. Bad \in SUBSET SUBSET (1 .. n)
      OBVIOUS
    <3> HIDE DEF Bad
    <3>2. \E t : Minimal(t, Bad)
      BY <2>1, <3>1, LeastSet
    <3> QED
      BY <3>2 DEF Minimal
  <2>3. PICK x \in t : TRUE
    BY <2>2
  <2>4. CASE t = {x}
    BY <2>2, <2>4
  <2>5. CASE t # {x}
    <3>1. HasLast(t \ {x})
      <4>1. t \ {x} \notin Bad /\ t \ {x} # {} /\ t \ {x} \in SUBSET (1 .. n)
        BY <2>2, <2>3, <2>5
      <4> QED
        BY <4>1
    <3>2. PICK y \in t \ {x} : \A i \in t \ {x} : y >= i
      BY <3>1
    <3>3. x \in Nat /\ y \in Nat /\ \A i \in t : i \in Nat
      BY <2>2
    <3> QED
      BY <2>2, <3>2, <3>3
  <2> QED
    BY <2>4, <2>5
<1>2. HasLast(s)
  BY <1>1
<1>3. \A i \in s : i \in Nat
  OBVIOUS
<1> QED
  BY <1>2, <1>3 DEF Max

Folded(g, b, seq, n) ==
  /\ FoldLeft(putchar, b, seq) = g[1 .. n] /\ g[{}] = b
  /\ \A s \in SUBSET (1 .. n) : s # {} => g[s] = putchar(g[s \ {Max(s)}], seq[Max(s)])

\* FoldLeft of putchar is a function of the positions it has done.
LEMMA FoldIs ==
  ASSUME NEW b, NEW seq, NEW n \in Nat, DOMAIN seq = 1 .. n
  PROVE  \E g : Folded(g, b, seq, n)
<1> DEFINE Is(g, S) == g = [s \in SUBSET S |-> IF s = {} THEN b
                                              ELSE putchar(g[s \ {Max(s)}], seq[Max(s)])]
           Bad == {S \in SUBSET (1 .. n) : ~\E g : Is(g, S)}
<1>1. Bad = {}
  <2>1. SUFFICES ASSUME Bad # {} PROVE FALSE
    OBVIOUS
  <2>2. PICK S \in Bad : \A u \in Bad : u \subseteq S => u = S
    <3>1. Bad \in SUBSET SUBSET (1 .. n)
      OBVIOUS
    <3> HIDE DEF Bad
    <3>2. \E t : Minimal(t, Bad)
      BY <2>1, <3>1, LeastSet
    <3> QED
      BY <3>2 DEF Minimal
  <2>3. S # {}
    <3>1. Is([s \in SUBSET {} |-> b], {})
      OBVIOUS
    <3> QED
      BY <2>2, <3>1
  <2> DEFINE m == Max(S)
             R == S \ {m}
  <2>4. m \in S /\ \A i \in S : i <= m /\ i \in Nat
    <3>1. S \subseteq 1 .. n
      BY <2>2
    <3>2. Max(S) \in S /\ \A i \in S : i <= Max(S)
      BY <2>3, <3>1, LastOf
    <3> QED
      BY <3>1, <3>2
  <2>5. PICK g : Is(g, R)
    <3>1. R \notin Bad /\ R \in SUBSET (1 .. n)
      BY <2>2, <2>4
    <3> QED
      BY <3>1
  <2> HIDE DEF m
  <2> DEFINE h == [s \in SUBSET S |-> IF m \in s THEN putchar(g[s \ {m}], seq[m]) ELSE g[s]]
  <2>6. \A s \in SUBSET S : m \in s => Max(s) = m
    <3>1. SUFFICES ASSUME NEW s \in SUBSET S, m \in s PROVE Max(s) = m
      OBVIOUS
    <3>2. s \subseteq 1 .. n /\ s # {}
      BY <2>2, <3>1
    <3>3. Max(s) \in s /\ \A i \in s : i <= Max(s)
      BY <3>2, LastOf
    <3>4. m <= Max(s) /\ Max(s) <= m /\ m \in Nat /\ Max(s) \in Nat
      BY <2>4, <3>1, <3>3
    <3> QED
      BY <3>4
  <2>7. ASSUME NEW s \in SUBSET S
        PROVE  h[s] = IF s = {} THEN b ELSE putchar(h[s \ {Max(s)}], seq[Max(s)])
    <3>1. CASE m \in s
      <4>1. h[s] = putchar(g[s \ {m}], seq[m]) /\ s \ {m} \in SUBSET S /\ m \notin s \ {m}
        BY <3>1
      <4>2. h[s \ {m}] = g[s \ {m}]
        BY <4>1
      <4> QED
        BY <2>6, <3>1, <4>1, <4>2
    <3>2. CASE m \notin s
      <4>1. s \in SUBSET R /\ h[s] = g[s]
        BY <3>2
      <4>2. g[s] = IF s = {} THEN b ELSE putchar(g[s \ {Max(s)}], seq[Max(s)])
        BY <2>5, <4>1
      <4>3. h[s \ {Max(s)}] = g[s \ {Max(s)}]
        BY <3>2
      <4> QED
        BY <4>1, <4>2, <4>3
    <3> QED
      BY <3>1, <3>2
  <2>8. Is(h, S)
    <3>1. h = [s \in SUBSET S |-> h[s]]
      OBVIOUS
    <3> HIDE DEF h
    <3> QED
      BY <2>7, <3>1
  <2> QED
    BY <2>2, <2>8
<1>2. \E g : Is(g, 1 .. n)
  BY <1>1
<1>3. PICK g : Is(g, 1 .. n) /\ FoldLeft(putchar, b, seq) = g[1 .. n]
  BY <1>2 DEF FoldLeft, MapThenFoldSet
<1> QED
  BY <1>3 DEF Folded

\* What holds of the screen before a text and after each of its characters
\* holds, at the end, of what printing the text leads to.
LEMMA FoldPath ==
  ASSUME NEW S, NEW b, NEW seq, NEW n \in Nat, DOMAIN seq = 1 .. n, b \in S[0],
         \A i \in 1 .. n : \A f \in S[i - 1] : putchar(f, seq[i]) \in S[i]
  PROVE  FoldLeft(putchar, b, seq) \in S[n]
<1>1. PICK g : /\ FoldLeft(putchar, b, seq) = g[1 .. n] /\ g[{}] = b
               /\ \A s \in SUBSET (1 .. n) :
                    s # {} => g[s] = putchar(g[s \ {Max(s)}], seq[Max(s)])
  <2>1. \E g : Folded(g, b, seq, n)
    BY FoldIs
  <2> QED
    BY <2>1 DEF Folded
<1> DEFINE Bad == {s \in SUBSET (1 .. n) : \E i \in 0 .. n : s = 1 .. i /\ g[s] \notin S[i]}
<1>2. Bad = {}
  <2>1. SUFFICES ASSUME Bad # {} PROVE FALSE
    OBVIOUS
  <2>2. PICK s \in Bad : \A u \in Bad : u \subseteq s => u = s
    <3>1. Bad \in SUBSET SUBSET (1 .. n)
      OBVIOUS
    <3> HIDE DEF Bad
    <3>2. \E t : Minimal(t, Bad)
      BY <2>1, <3>1, LeastSet
    <3> QED
      BY <3>2 DEF Minimal
  <2>3. PICK i \in 0 .. n : s = 1 .. i /\ g[s] \notin S[i]
    BY <2>2
  <2>4. CASE i = 0
    <3>1. s = {}
      BY <2>3, <2>4
    <3> QED
      BY <1>1, <2>3, <2>4, <3>1
  <2>5. CASE i # 0
    <3>1. i \in s /\ i \in 1 .. n /\ s \subseteq 1 .. n /\ i - 1 \in 0 .. n
      BY <2>3, <2>5
    <3>2. Max(s) = i
      <4>1. Max(s) \in s /\ \A j \in s : j <= Max(s)
        BY <3>1, LastOf
      <4>2. Max(s) <= i /\ i <= Max(s) /\ Max(s) \in Nat
        BY <2>3, <3>1, <4>1
      <4> QED
        BY <3>1, <4>2
    <3>3. s \ {i} = 1 .. (i - 1)
      BY <2>3, <3>1
    <3>4. s \ {i} \notin Bad
      <4>1. s \ {i} \subseteq s /\ s \ {i} # s
        BY <3>1
      <4> QED
        BY <2>2, <4>1
    <3>5. g[s \ {i}] \in S[i - 1]
      BY <3>1, <3>3, <3>4
    <3>6. g[s] = putchar(g[s \ {i}], seq[i])
      BY <1>1, <3>1, <3>2
    <3> QED
      BY <2>3, <3>1, <3>5, <3>6
  <2> QED
    BY <2>4, <2>5
<1>3. 1 .. n \in SUBSET (1 .. n) /\ n \in 0 .. n
  OBVIOUS
<1> QED
  BY <1>1, <1>2, <1>3

\* A set of screens that no character leads out of has what printing a text
\* leads to, once the first character has led into it.
LEMMA FoldKeeps ==
  ASSUME NEW S, NEW C, NEW b, NEW seq \in Seq(C), seq # <<>>, putchar(b, seq[1]) \in S,
         \A f \in S, c \in C : putchar(f, c) \in S
  PROVE  FoldLeft(putchar, b, seq) \in S
<1> DEFINE n == Len(seq)
           Path == [i \in 0 .. n |-> IF i = 0 THEN {b} ELSE S]
<1>1. n \in Nat /\ n > 0 /\ DOMAIN seq = 1 .. n /\ \A i \in 1 .. n : seq[i] \in C
  OBVIOUS
<1> HIDE DEF n
<1>2. b \in Path[0] /\ Path[n] = S
  BY <1>1
<1>3. ASSUME NEW i \in 1 .. n, NEW f \in Path[i - 1] PROVE putchar(f, seq[i]) \in Path[i]
  <2>1. i - 1 \in 0 .. n /\ i \in 0 .. n /\ Path[i] = S
    BY <1>1
  <2>2. Path[i - 1] = IF i = 1 THEN {b} ELSE S
    BY <1>1, <2>1
  <2> QED
    BY <1>1, <1>3, <2>1, <2>2
<1> HIDE DEF Path
<1> QED
  BY <1>1, <1>2, <1>3, FoldPath

-----------------------------------------------------------------------------
(***************************************************************************)
(* The screen.                                                             *)
(***************************************************************************)
\* A screen whose position may be one line below the last.
Overfull == [row : 0 .. ROW, col : Columns, cells : [Rows -> [Columns -> Glyphs]],
             cursor : Rows \X Columns]

\* A screen has room for the position, a line to scroll and a blank.
LEMMA ScreenFacts ==
  /\ Screen \subseteq Overfull
  /\ 0 \in Rows /\ 0 \in Columns /\ 1 \in Columns /\ BLANK \in Glyphs /\ BLANK # NUL
  /\ ROW \in Nat /\ COLUMN \in Nat /\ 2 < ROW /\ 1 < COLUMN
BY ScreenAssumption, GlyphsAssumption DEF Screen, Overfull, Rows, Columns

\* Setting the cursor puts it at the position (framebuffer_set_cursor).
LEMMA SetCursor ==
  ASSUME NEW f \in Screen
  PROVE  framebuffer_set_cursor(f) \in Screen /\ Follows(framebuffer_set_cursor(f))
BY DEF framebuffer_set_cursor, Screen, Follows

\* Writing a cell leaves the position (framebuffer_write).
LEMMA Write ==
  ASSUME NEW f \in Screen, NEW c \in Glyphs
  PROVE  /\ framebuffer_write(f, c) \in Screen
         /\ framebuffer_write(f, c).row = f.row /\ framebuffer_write(f, c).col = f.col
<1>1. f.row \in Rows /\ f.col \in Columns /\ f.cells \in [Rows -> [Columns -> Glyphs]]
  BY DEF Screen
<1>2. [f.cells EXCEPT ![f.row][f.col] = c] \in [Rows -> [Columns -> Glyphs]]
  BY <1>1
<1>3. framebuffer_write(f, c) = [f EXCEPT !.cells = [f.cells EXCEPT ![f.row][f.col] = c]]
  BY DEF framebuffer_write, Screen
<1> QED
  BY <1>2, <1>3 DEF Screen

\* The next line may be below the screen.
LEMMA LineBelow ==
  ASSUME NEW f \in Screen
  PROVE  NextLine(f) \in Overfull /\ NextLine(f).row = f.row + 1 /\ NextLine(f).col = 0
<1>1. f.row + 1 \in 0 .. ROW /\ 0 \in Columns
  BY ScreenFacts DEF Screen, Rows
<1> QED
  BY <1>1 DEF NextLine, Screen, Overfull

\* A scroll brings it back.
LEMMA ScrollDown ==
  ASSUME NEW f \in Overfull, f.row > 0
  PROVE  scrollDown(f) \in Screen /\ Follows(scrollDown(f))
<1> DEFINE lines == [r \in Rows |-> IF r = f.row - 1 THEN BlankLine
                                    ELSE IF r < ROW - 1 THEN f.cells[r + 1] ELSE f.cells[r]]
           g == [f EXCEPT !.row = @ - 1, !.col = 0, !.cells = lines]
<1>1. BlankLine \in [Columns -> Glyphs]
  BY ScreenFacts DEF BlankLine
<1>2. ASSUME NEW r \in Rows, r < ROW - 1 PROVE r + 1 \in Rows
  BY <1>2, ScreenFacts DEF Rows
<1>3. f.cells \in [Rows -> [Columns -> Glyphs]]
  BY DEF Overfull
<1>4. lines \in [Rows -> [Columns -> Glyphs]]
  BY <1>1, <1>2, <1>3
<1>5. f.row - 1 \in Rows
  BY ScreenFacts DEF Overfull, Rows
<1>6. scrollDown(f) = framebuffer_set_cursor(g)
  BY DEF scrollDown
<1> HIDE DEF lines
<1>7. g \in Screen
  BY <1>4, <1>5, ScreenFacts DEF Overfull, Screen
<1> HIDE DEF g
<1> QED
  BY <1>6, <1>7, SetCursor

\* A character leaves the cursor at the position, and a NUL all as it is.
LEMMA PutCharacter ==
  ASSUME NEW f \in Screen, NEW c \in Printable
  PROVE  /\ putchar(f, c) \in Screen
         /\ c # NUL \/ Follows(f) => Follows(putchar(f, c))
<1> DEFINE shown == IF c = NEWLINE THEN f ELSE framebuffer_write(f, c)
           below == NextLine(shown)
           room  == IF below.row = ROW THEN scrollDown(below) ELSE below
<1>1. CASE c = NUL
  BY <1>1 DEF putchar
<1>2. CASE c # NUL
  <2>1. shown \in Screen /\ shown.col = f.col
    BY <1>2, Write DEF Printable
  <2>2. CASE c = NEWLINE \/ f.col = COLUMN - 1
    <3>1. putchar(f, c) = framebuffer_set_cursor(framebuffer_write(room, BLANK))
      BY <1>2, <2>2 DEF putchar
    <3>2. below \in Overfull /\ below.row = shown.row + 1 /\ shown.row \in Rows
      BY <2>1, LineBelow DEF Screen
    <3> HIDE DEF below
    <3>3. below.row > 0 /\ (below.row # ROW => below \in Screen)
      BY <3>2, ScreenFacts DEF Overfull, Screen, Rows
    <3>4. room \in Screen
      BY <3>2, <3>3, ScrollDown
    <3> HIDE DEF room
    <3>5. framebuffer_write(room, BLANK) \in Screen
      BY <3>4, Write, ScreenFacts
    <3> QED
      BY <3>1, <3>5, SetCursor
  <2>3. CASE ~(c = NEWLINE \/ f.col = COLUMN - 1)
    <3>1. putchar(f, c) = framebuffer_set_cursor([shown EXCEPT !.col = @ + 1])
      BY <1>2, <2>3 DEF putchar
    <3> HIDE DEF shown
    <3>2. f.col + 1 \in Columns
      BY <2>3, ScreenFacts DEF Screen, Columns
    <3>3. [shown EXCEPT !.col = @ + 1] \in Screen
      BY <2>1, <3>2 DEF Screen
    <3> QED
      BY <3>1, <3>3, SetCursor
  <2> QED
    BY <2>2, <2>3
<1> QED
  BY <1>1, <1>2

\* A text stays on the screen; and the cursor follows it, or had done before.
LEMMA Puts ==
  ASSUME NEW f \in Screen, NEW string \in Seq(Printable)
  PROVE  /\ puts(f, string) \in Screen
         /\ Follows(f) \/ (string # <<>> /\ string[1] # NUL) => Follows(puts(f, string))
<1> DEFINE b == IF f.row >= ROW - 1 THEN scrollDown(f) ELSE f
           On == {g \in Screen : Follows(g)}
<1>1. b \in Screen /\ (Follows(f) => Follows(b))
  <2>1. f \in Overfull /\ (f.row >= ROW - 1 => f.row > 0)
    BY ScreenFacts DEF Screen, Rows
  <2> QED
    BY <2>1, ScrollDown
<1>2. puts(f, string) = FoldLeft(putchar, b, string)
  BY DEF puts
<1> HIDE DEF b
<1>3. CASE string = <<>>
  <2>1. DOMAIN string = 1 .. 0
    BY <1>3
  <2>2. \E g : Folded(g, b, string, 0)
    BY <2>1, FoldIs
  <2>3. FoldLeft(putchar, b, string) = b
    BY <2>2 DEF Folded
  <2> QED
    BY <1>1, <1>2, <1>3, <2>3
<1>4. CASE string # <<>>
  <2>1. string[1] \in Printable
    BY <1>4
  <2>2. putchar(b, string[1]) \in Screen
    BY <1>1, <2>1, PutCharacter
  <2>3. FoldLeft(putchar, b, string) \in Screen
    BY <1>4, <2>2, PutCharacter, FoldKeeps
  <2>4. ASSUME Follows(f) \/ string[1] # NUL PROVE FoldLeft(putchar, b, string) \in On
    <3>1. putchar(b, string[1]) \in On
      BY <1>1, <2>1, <2>4, PutCharacter
    <3>2. \A g \in On, c \in Printable : putchar(g, c) \in On
      BY PutCharacter
    <3> HIDE DEF On
    <3> QED
      BY <1>4, <3>1, <3>2, FoldKeeps
  <2> QED
    BY <1>2, <2>3, <2>4
<1> QED
  BY <1>3, <1>4

-----------------------------------------------------------------------------
(***************************************************************************)
(* The handler.                                                            *)
(***************************************************************************)
\* What every case of the handler leaves alone, and the queue it shortens.
Handled ==
  /\ Len(queue) > 0 /\ Len(queue') = Len(queue) - 1 /\ queue' \in Seq(Keys)
  /\ UNCHANGED <<mode, piece, args_val, prints, keys>>

\* An interrupt takes the first key of the queue and nothing else.
LEMMA InterruptTakes ==
  ASSUME ConsoleInv, NEW k, Interrupt(k)
  PROVE  Handled
<1>1. queue # <<>> /\ queue' = Tail(queue) /\ queue \in Seq(Keys)
  BY DEF Interrupt, ConsoleInv, TypeOK
<1>2. UNCHANGED <<mode, piece, args_val, prints, keys>>
  BY DEF Interrupt, shell
<1> QED
  BY <1>1, <1>2 DEF Handled

\* A case that changes neither the line nor whether it is listened to.
LEMMA SameLine ==
  ASSUME ConsoleInv, Handled, UNCHANGED <<input_on, buffer, index, start_col>>,
         held' \subseteq Modifiers \cup {"capslock"}, inService' \in BOOLEAN,
         fb' \in Screen, fb' = fb \/ Follows(fb')
  PROVE  ConsoleInv'
<1>1. TypeOK'
  BY DEF ConsoleInv, TypeOK, Handled
<1>2. index' + Len(queue') <= keys'
  BY ShortLines DEF ConsoleInv, TypeOK, Handled
<1>3. NoHoles'
  BY DEF ConsoleInv, NoHoles
<1>4. Follows(fb') \/ fb' = fb
  OBVIOUS
<1> QED
  BY <1>1, <1>2, <1>3, <1>4 DEF ConsoleInv, Handled, Follows

\* The handler while input is off resets an index that is 0 already.
LEMMA IgnoredKeeps == ConsoleInv /\ Ignored => ConsoleInv'
<1>1. SUFFICES ASSUME ConsoleInv, Ignored PROVE ConsoleInv'
  OBVIOUS
<1>2. Handled /\ ~input_on
  BY <1>1, InterruptTakes DEF Ignored
<1>3. index = 0 /\ index' = index
  BY <1>1, <1>2 DEF Ignored, ConsoleInv
<1> QED
  BY <1>1, <1>2, <1>3, SameLine DEF Ignored, ConsoleInv, TypeOK

\* The modifiers leave the line and the screen.
LEMMA NoCharacterKeeps == ConsoleInv /\ NoCharacter => ConsoleInv'
<1>1. SUFFICES ASSUME ConsoleInv, NoCharacter PROVE ConsoleInv'
  OBVIOUS
<1>2. Handled
  BY <1>1, InterruptTakes DEF NoCharacter
<1>3. held' \subseteq Modifiers \cup {"capslock"}
  BY <1>1 DEF NoCharacter, ConsoleInv, TypeOK
<1>4. UNCHANGED <<fb, input_on, buffer, index, start_col>> /\ inService' = FALSE
  BY <1>1 DEF NoCharacter, pic_ack
<1> QED
  BY <1>1, <1>2, <1>3, <1>4, SameLine DEF ConsoleInv, TypeOK

\* A backspace where the line begins does nothing.
LEMMA AtStartKeeps == ConsoleInv /\ BackspaceAtStart => ConsoleInv'
<1>1. SUFFICES ASSUME ConsoleInv, BackspaceAtStart PROVE ConsoleInv'
  OBVIOUS
<1>2. Handled
  BY <1>1, InterruptTakes DEF BackspaceAtStart
<1>3. UNCHANGED <<fb, input_on, buffer, index, start_col, held>> /\ inService' = FALSE
  BY <1>1 DEF BackspaceAtStart, pic_ack, driver
<1> QED
  BY <1>1, <1>2, <1>3, SameLine DEF ConsoleInv, TypeOK

\* A backspace on an empty line goes to column 0, the cursor too.
LEMMA OnEmptyKeeps == ConsoleInv /\ BackspaceOnEmpty => ConsoleInv'
<1>1. SUFFICES ASSUME ConsoleInv, BackspaceOnEmpty PROVE ConsoleInv'
  OBVIOUS
<1>2. Handled
  BY <1>1, InterruptTakes DEF BackspaceOnEmpty
<1>3. /\ UNCHANGED <<input_on, buffer, index, start_col, held>> /\ inService' = FALSE
      /\ fb' = framebuffer_set_cursor([fb EXCEPT !.col = 0])
  BY <1>1 DEF BackspaceOnEmpty, pic_ack, driver
<1>4. [fb EXCEPT !.col = 0] \in Screen
  BY <1>1, ScreenFacts DEF ConsoleInv, TypeOK, Screen
<1>5. fb' \in Screen /\ Follows(fb')
  BY <1>3, <1>4, SetCursor
<1> QED
  BY <1>1, <1>2, <1>3, <1>5, SameLine DEF ConsoleInv, TypeOK

\* An erased character leaves a blank, which is no hole.
LEMMA BackspaceKeeps == ConsoleInv /\ Backspace => ConsoleInv'
<1>1. SUFFICES ASSUME ConsoleInv, Backspace PROVE ConsoleInv'
  OBVIOUS
<1>2. Handled
  BY <1>1, InterruptTakes DEF Backspace
<1>3. /\ input_on /\ fb.col > start_col /\ index > 0 /\ index' = index - 1
      /\ buffer' = [buffer EXCEPT ![index - 1] = BLANK]
      /\ fb' = framebuffer_set_cursor(framebuffer_write([fb EXCEPT !.col = @ - 1], BLANK))
      /\ UNCHANGED <<input_on, start_col, held>> /\ inService' = FALSE
  BY <1>1 DEF Backspace, pic_ack
<1>4. /\ index \in 0 .. KEYBOARD_BUFFER_SIZE /\ KEYBOARD_BUFFER_SIZE \in Nat
      /\ buffer \in [Indices -> KeyChars \cup {BLANK, NUL}] /\ fb \in Screen
      /\ start_col \in Nat
  BY <1>1, ShortLines, ConsoleAssumption DEF ConsoleInv, TypeOK
<1>5. [fb EXCEPT !.col = @ - 1] \in Screen
  <2>1. fb.col - 1 \in Columns
    BY <1>3, <1>4, ScreenFacts DEF Screen, Columns
  <2> QED
    BY <1>4, <2>1 DEF Screen
<1>6. fb' \in Screen /\ Follows(fb')
  <2> DEFINE f == [fb EXCEPT !.col = @ - 1]
  <2>1. f \in Screen /\ fb' = framebuffer_set_cursor(framebuffer_write(f, BLANK))
    BY <1>3, <1>5
  <2> HIDE DEF f
  <2> QED
    BY <2>1, SetCursor, Write, ScreenFacts
<1>7. /\ index - 1 \in Indices /\ index - 1 \in 0 .. KEYBOARD_BUFFER_SIZE
      /\ buffer'[index - 1] = BLANK
      /\ buffer' \in [Indices -> KeyChars \cup {BLANK, NUL}]
      /\ \A i \in Indices : i # index - 1 => buffer'[i] = buffer[i]
  BY <1>3, <1>4 DEF Indices
<1>8. NoHoles'
  <2>1. ASSUME NEW i \in Indices, NEW j \in Indices, i < j, buffer'[i] = NUL PROVE buffer'[j] = NUL
    <3>1. i # index - 1 /\ buffer[i] = NUL
      BY <1>7, <2>1, ScreenFacts
    <3>2. buffer[j] = NUL
      BY <1>1, <2>1, <3>1 DEF ConsoleInv, NoHoles
    <3>3. j # index - 1
      <4>1. \A l \in Indices : l < index => buffer[l] # NUL
        BY <1>1 DEF ConsoleInv, NoHoles
      <4> QED
        BY <1>4, <1>7, <3>2, <4>1
    <3> QED
      BY <1>7, <3>2, <3>3
  <2>2. ASSUME NEW i \in Indices, i < index' PROVE buffer'[i] # NUL
    <3>1. i < index - 1 /\ i < index /\ i \in Int
      BY <1>3, <1>4, <2>2 DEF Indices
    <3>2. buffer[i] # NUL /\ i # index - 1
      BY <1>1, <1>4, <3>1 DEF ConsoleInv, NoHoles
    <3> QED
      BY <1>7, <3>2
  <2> QED
    BY <2>1, <2>2 DEF NoHoles
<1>9. index' + Len(queue') <= keys'
  BY <1>1, <1>2, <1>3, <1>4 DEF ConsoleInv, TypeOK, Handled
<1>10. TypeOK'
  BY <1>1, <1>2, <1>3, <1>6, <1>7 DEF ConsoleInv, TypeOK, Handled
<1> QED
  BY <1>1, <1>2, <1>3, <1>6, <1>8, <1>9, <1>10 DEF ConsoleInv, Handled

\* The end of a line, and a typed character, scroll before they leave the
\* screen.
LEMMA ScrolledOn ==
  ASSUME NEW f \in Overfull
  PROVE  Scrolled(f) \in Screen
<1>1. CASE f.row >= ROW - 1
  BY <1>1, ScrollDown, ScreenFacts DEF Scrolled, Overfull
<1>2. CASE ~(f.row >= ROW - 1)
  <2>1. f.row \in Rows
    BY <1>2, ScreenFacts DEF Overfull, Rows
  <2> QED
    BY <1>2, <2>1 DEF Scrolled, Overfull, Screen
<1> QED
  BY <1>1, <1>2

\* Enter ends the line: input off and the index back at 0.
LEMMA NewlineKeeps == ConsoleInv /\ Newline => ConsoleInv'
<1>1. SUFFICES ASSUME ConsoleInv, Newline PROVE ConsoleInv'
  OBVIOUS
<1>2. Handled
  BY <1>1, InterruptTakes DEF Newline
<1>3. /\ input_on' = FALSE /\ index' = 0 /\ inService' = FALSE
      /\ fb' = framebuffer_set_cursor(framebuffer_write(Scrolled(NextLine(fb)), BLANK))
      /\ UNCHANGED <<buffer, start_col, held>>
  BY <1>1 DEF Newline, EndLine, pic_ack
<1>4. Scrolled(NextLine(fb)) \in Screen
  BY <1>1, LineBelow, ScrolledOn DEF ConsoleInv, TypeOK
<1>5. fb' \in Screen /\ Follows(fb')
  BY <1>3, <1>4, SetCursor, Write, ScreenFacts
<1>6. index' + Len(queue') <= keys' /\ index' \in 0 .. KEYBOARD_BUFFER_SIZE
  BY <1>1, <1>2, <1>3, ShortLines DEF ConsoleInv, TypeOK, Handled
<1>7. TypeOK'
  BY <1>1, <1>2, <1>3, <1>5, <1>6 DEF ConsoleInv, TypeOK, Handled
<1>8. NoHoles'
  BY <1>1, <1>3 DEF ConsoleInv, NoHoles, Indices
<1> QED
  BY <1>1, <1>2, <1>3, <1>5, <1>6, <1>7, <1>8 DEF ConsoleInv

\* A character has a place in the buffer: the keys are not more than it holds.
LEMMA CharacterKeeps == ConsoleInv /\ Character => ConsoleInv'
<1>1. SUFFICES ASSUME ConsoleInv, Character PROVE ConsoleInv'
  OBVIOUS
<1>2. PICK k \in Letters \cup Symbols :
        /\ input_on /\ Interrupt(Down(k))
        /\ buffer' = [buffer EXCEPT ![index] = Converted(k)]
        /\ index' = index + 1
        /\ fb' = framebuffer_set_cursor(Scrolled(Advanced(framebuffer_write(fb, Converted(k)))))
        /\ pic_ack
        /\ UNCHANGED <<input_on, start_col, held>>
  BY <1>1 DEF Character
<1>3. Handled
  BY <1>1, <1>2, InterruptTakes
<1> DEFINE c == Converted(k)
<1>4. c \in KeyChars \cup {BLANK} /\ c \in Glyphs /\ c # NUL
  <2>1. c \in KeyChars
    BY DEF Converted, KeyChars
  <2> QED
    BY <2>1, ConsoleAssumption, GlyphsAssumption
<1> HIDE DEF c
<1>5. /\ index \in Nat /\ index + 1 <= KEYBOARD_BUFFER_SIZE /\ KEYBOARD_BUFFER_SIZE \in Nat
      /\ index' + Len(queue') <= keys'
  <2>1. /\ index + Len(queue) <= keys /\ keys \in 0 .. MaxKeys /\ Len(queue) > 0
        /\ Len(queue) \in Nat /\ index \in Nat /\ index' = index + 1
        /\ Len(queue') = Len(queue) - 1 /\ keys' = keys
    BY <1>1, <1>2, <1>3, ShortLines DEF ConsoleInv, TypeOK, Handled
  <2> QED
    BY <2>1, ShortLines, ConsoleAssumption
<1>6. /\ index \in Indices /\ buffer \in [Indices -> KeyChars \cup {BLANK, NUL}]
      /\ fb \in Screen /\ buffer' = [buffer EXCEPT ![index] = c]
  BY <1>1, <1>2, <1>5 DEF ConsoleInv, TypeOK, Indices, c
<1>7. /\ buffer'[index] = c /\ \A i \in Indices : i # index => buffer'[i] = buffer[i]
      /\ buffer' \in [Indices -> KeyChars \cup {BLANK, NUL}]
  BY <1>4, <1>6
<1>8. fb' \in Screen /\ Follows(fb')
  <2> DEFINE f == framebuffer_write(fb, c)
  <2>1. f \in Screen /\ fb' = framebuffer_set_cursor(Scrolled(Advanced(f)))
    BY <1>2, <1>4, <1>6, Write DEF c
  <2> HIDE DEF f
  <2>2. Advanced(f) \in Overfull
    <3>1. CASE f.col + 1 >= COLUMN
      BY <2>1, <3>1, LineBelow DEF Advanced
    <3>2. CASE ~(f.col + 1 >= COLUMN)
      <4>1. f.col + 1 \in Columns /\ f.row \in 0 .. ROW
        BY <2>1, <3>2, ScreenFacts DEF Screen, Columns, Rows
      <4> QED
        BY <2>1, <3>2, <4>1 DEF Advanced, Screen, Overfull
    <3> QED
      BY <3>1, <3>2
  <2> QED
    BY <2>1, <2>2, ScrolledOn, SetCursor
<1>9. NoHoles'
  <2>1. /\ \A i, j \in Indices : i < j /\ buffer[i] = NUL => buffer[j] = NUL
        /\ \A i \in Indices : i < index => buffer[i] # NUL
    BY <1>1 DEF ConsoleInv, NoHoles
  <2>2. \A i \in Indices : i \in Int
    BY DEF Indices
  <2>3. ASSUME NEW i \in Indices, NEW j \in Indices, i < j, buffer'[i] = NUL PROVE buffer'[j] = NUL
    BY <1>4, <1>5, <1>6, <1>7, <2>1, <2>2, <2>3
  <2>4. ASSUME NEW i \in Indices, i < index' PROVE buffer'[i] # NUL
    BY <1>2, <1>4, <1>5, <1>7, <2>1, <2>2, <2>4
  <2> QED
    BY <2>3, <2>4 DEF NoHoles
<1>10. TypeOK'
  <2>1. index' \in 0 .. KEYBOARD_BUFFER_SIZE /\ inService' = FALSE
    BY <1>2, <1>5 DEF pic_ack
  <2> QED
    BY <1>1, <1>2, <1>3, <1>7, <1>8, <2>1 DEF ConsoleInv, TypeOK, Handled
<1> QED
  BY <1>1, <1>2, <1>3, <1>5, <1>8, <1>9, <1>10 DEF ConsoleInv, Handled

-----------------------------------------------------------------------------
(***************************************************************************)
(* The user and the shell.                                                 *)
(***************************************************************************)
LEMMA PressKeeps == ASSUME ConsoleInv, NEW k, Press(k) PROVE ConsoleInv'
<1>1. /\ k \in Keys /\ keys < MaxKeys /\ queue' = Append(queue, k) /\ keys' = keys + 1
      /\ UNCHANGED <<fb, input_on, buffer, index, start_col, held, inService, mode, piece,
                     args_val, prints>>
  BY ConsoleAssumption DEF Press, driver, shell
<1>2. /\ queue' \in Seq(Keys) /\ Len(queue') = Len(queue) + 1 /\ keys' \in 0 .. MaxKeys
      /\ index' + Len(queue') <= keys'
  BY <1>1, ConsoleAssumption DEF ConsoleInv, TypeOK
<1>3. TypeOK' /\ NoHoles'
  BY <1>1, <1>2 DEF ConsoleInv, TypeOK, NoHoles
<1> QED
  BY <1>1, <1>2, <1>3 DEF ConsoleInv, Follows

\* The shell prints, or changes where it is in its loop.
LEMMA PrintKeeps ==
  ASSUME ConsoleInv, UNCHANGED <<input_on, buffer, index, start_col, held, queue, inService, keys>>,
         fb' \in Screen, mode' # "command" => Follows(fb'), mode' # "copied",
         mode' \in {"boot", "command", "prompt", "wait", "copied"},
         args_val' \in [Indices -> KeyChars \cup {BLANK, NUL}],
         piece' \in 0 .. 3, prints' \in 0 .. MaxPrints
  PROVE  ConsoleInv'
BY DEF ConsoleInv, TypeOK, NoHoles

\* Syscall 6: the cursor follows a text, except where clear had left it behind.
LEMMA PutStringKeeps == ASSUME ConsoleInv, NEW s \in Texts, PutString(s) PROVE ConsoleInv'
<1>1. /\ mode \in {"boot", "command"} /\ prints < MaxPrints /\ fb' = puts(fb, s)
      /\ prints' = prints + 1
      /\ UNCHANGED <<input_on, buffer, index, start_col, held, queue, inService, mode, piece,
                     args_val, keys>>
  BY DEF PutString, driver
<1>2. fb \in Screen /\ s \in Seq(Printable)
  BY ConsoleAssumption DEF ConsoleInv, TypeOK
<1>3. fb' \in Screen /\ (Follows(fb) => Follows(fb'))
  BY <1>1, <1>2, Puts
<1>4. mode' # "command" => Follows(fb')
  BY <1>1, <1>3 DEF ConsoleInv
<1>5. prints' \in 0 .. MaxPrints
  BY <1>1, ConsoleAssumption DEF ConsoleInv, TypeOK
<1> QED
  BY <1>1, <1>3, <1>4, <1>5, PrintKeeps DEF ConsoleInv, TypeOK

\* Syscall 5.
LEMMA PutCharKeeps == ConsoleInv /\ PutChar(BLANK) => ConsoleInv'
<1>1. SUFFICES ASSUME ConsoleInv, PutChar(BLANK) PROVE ConsoleInv'
  OBVIOUS
<1>2. /\ mode = "command" /\ prints < MaxPrints /\ fb' = putchar(fb, BLANK)
      /\ prints' = prints + 1
      /\ UNCHANGED <<input_on, buffer, index, start_col, held, queue, inService, mode, piece,
                     args_val, keys>>
  BY <1>1 DEF PutChar, driver
<1>3. fb' \in Screen
  BY <1>1, <1>2, PutCharacter, ScreenFacts DEF ConsoleInv, TypeOK, Printable
<1>4. prints' \in 0 .. MaxPrints
  BY <1>1, <1>2, ConsoleAssumption DEF ConsoleInv, TypeOK
<1> QED
  BY <1>1, <1>2, <1>3, <1>4, PrintKeeps DEF ConsoleInv, TypeOK

\* Syscall 9: the cursor stays behind, while a command runs.
LEMMA ClearKeeps == ConsoleInv /\ Clear => ConsoleInv'
<1>1. SUFFICES ASSUME ConsoleInv, Clear PROVE ConsoleInv'
  OBVIOUS
<1>2. /\ mode = "command" /\ prints < MaxPrints /\ fb' = framebuffer_clear(fb)
      /\ prints' = prints + 1
      /\ UNCHANGED <<input_on, buffer, index, start_col, held, queue, inService, mode, piece,
                     args_val, keys>>
  BY <1>1 DEF Clear, driver
<1>3. fb' \in Screen
  <2>1. BlankScreen.cells \in [Rows -> [Columns -> Glyphs]]
    BY ScreenFacts DEF BlankScreen, BlankLine
  <2> QED
    BY <1>1, <1>2, <2>1, ScreenFacts DEF framebuffer_clear, ConsoleInv, TypeOK, Screen
<1>4. prints' \in 0 .. MaxPrints
  BY <1>1, <1>2, ConsoleAssumption DEF ConsoleInv, TypeOK
<1> QED
  BY <1>1, <1>2, <1>3, <1>4, PrintKeeps DEF ConsoleInv, TypeOK

\* A cleared buffer is a buffer.
LEMMA NulBufferType == NulBuffer \in [Indices -> KeyChars \cup {BLANK, NUL}]
BY DEF NulBuffer

\* The cells of the first n strings of the prompt.
Printed(n) ==
  CASE n = 0 -> 0
    [] n = 1 -> Len(Prompt[1])
    [] n = 2 -> Len(Prompt[1]) + Len(Prompt[2])
    [] n = 3 -> StartCol

\* The strings of the prompt are consecutive parts of its cells, but for the
\* NUL at the end of the third.
LEMMA PromptPieces ==
  ASSUME NEW n \in 0 .. 2
  PROVE  /\ Prompt[n + 1] \in Seq(Printable)
         /\ Printed(n) \in Nat /\ Printed(n + 1) \in Printed(n) .. StartCol
         /\ Printed(n + 1) <= Printed(n) + Len(Prompt[n + 1])
         /\ \A i \in 1 .. Len(Prompt[n + 1]) :
              \/ /\ Printed(n) + i <= Printed(n + 1)
                 /\ Prompt[n + 1][i] = PromptCells[Printed(n) + i]
                 /\ PromptCells[Printed(n) + i] \in Glyphs
              \/ Printed(n) + i = Printed(n + 1) + 1 /\ Prompt[n + 1][i] = NUL
<1> DEFINE Strings == Seq(Printable)
           p1 == Prompt[1]
           p2 == Prompt[2]
           p3 == Prompt[3]
           f3 == Front(p3)
<1>1. p1 \in Seq(Printable) /\ p2 \in Seq(Printable) /\ p3 \in Seq(Printable)
  <2>1. Prompt \in Seq(Strings) /\ Len(Prompt) = 3
    BY ConsoleAssumption
  <2> HIDE DEF Strings
  <2>2. \A i \in 1 .. 3 : Prompt[i] \in Strings
    BY <2>1
  <2> QED
    BY <2>2 DEF Strings
<1>2. p3 # <<>> /\ p3[Len(p3)] = NUL /\ PromptCells = (p1 \o p2) \o f3
      /\ PromptCells \in Seq(Glyphs) /\ StartCol = Len(PromptCells)
  BY PromptAssumption DEF PromptCells, Last
<1> HIDE DEF p1, p2, p3
<1>3. /\ f3 \in Seq(Printable) /\ Len(f3) = Len(p3) - 1 /\ Len(p3) \in Nat /\ Len(p3) > 0
      /\ \A i \in 1 .. Len(p3) - 1 : f3[i] = p3[i]
  <2>1. Len(p3) \in Nat /\ Len(p3) > 0 /\ \A i \in 1 .. Len(p3) - 1 : p3[i] \in Printable
    BY <1>1, <1>2
  <2>2. f3 = SubSeq(p3, 1, Len(p3) - 1)
    BY DEF Front
  <2> HIDE DEF f3
  <2>3. Len(p3) - 1 \in Int /\ 1 \in Int
    BY <2>1
  <2>4. /\ f3 \in Seq(Printable)
        /\ Len(f3) = IF 1 <= Len(p3) - 1 THEN Len(p3) - 1 - 1 + 1 ELSE 0
        /\ \A i \in 1 .. Len(p3) - 1 - 1 + 1 : f3[i] = p3[1 + i - 1]
    BY <2>1, <2>2, <2>3, SubSeqProperties
  <2>5. Len(p3) = 1 \/ 1 <= Len(p3) - 1
    <3>1. \A l \in Nat : l > 0 => l = 1 \/ 1 <= l - 1
      OBVIOUS
    <3> QED
      BY <2>1, <3>1
  <2>6. Len(f3) = Len(p3) - 1
    BY <2>1, <2>4, <2>5
  <2>7. ASSUME NEW i \in 1 .. Len(p3) - 1 PROVE f3[i] = p3[i]
    <3>1. i \in 1 .. Len(p3) - 1 - 1 + 1 /\ 1 + i - 1 = i
      BY <2>1
    <3> QED
      BY <2>4, <3>1
  <2> QED
    BY <2>1, <2>4, <2>6, <2>7
<1> HIDE DEF f3
<1>4. /\ Len(p1) \in Nat /\ Len(p2) \in Nat /\ StartCol = Len(p1) + Len(p2) + (Len(p3) - 1)
      /\ \A i \in 1 .. Len(p1) : PromptCells[i] = p1[i]
      /\ \A i \in 1 .. Len(p2) : PromptCells[Len(p1) + i] = p2[i]
      /\ \A i \in 1 .. Len(p3) - 1 : PromptCells[Len(p1) + Len(p2) + i] = p3[i]
  <2>1. /\ p1 \o p2 \in Seq(Printable) /\ Len(p1 \o p2) = Len(p1) + Len(p2)
        /\ Len(p1) \in Nat /\ Len(p2) \in Nat
        /\ \A i \in 1 .. Len(p1) + Len(p2) :
             (p1 \o p2)[i] = IF i <= Len(p1) THEN p1[i] ELSE p2[i - Len(p1)]
    BY <1>1, ConcatProperties
  <2> DEFINE p == p1 \o p2
  <2> HIDE DEF p
  <2>2. /\ p \in Seq(Printable) /\ Len(p) = Len(p1) + Len(p2) /\ PromptCells = p \o f3
        /\ \A i \in 1 .. Len(p1) + Len(p2) : p[i] = IF i <= Len(p1) THEN p1[i] ELSE p2[i - Len(p1)]
    BY <1>2, <2>1 DEF p
  <2>3. /\ StartCol = Len(p) + Len(f3)
        /\ \A i \in 1 .. Len(p) + Len(f3) : PromptCells[i] = IF i <= Len(p) THEN p[i] ELSE f3[i - Len(p)]
    BY <1>2, <1>3, <2>2, ConcatProperties
  <2>4. \A i \in 1 .. Len(p1) : PromptCells[i] = p1[i]
    BY <1>3, <2>1, <2>2, <2>3
  <2>5. ASSUME NEW i \in 1 .. Len(p2) PROVE PromptCells[Len(p1) + i] = p2[i]
    <3>1. Len(p1) + i \in 1 .. Len(p) /\ ~(Len(p1) + i <= Len(p1)) /\ (Len(p1) + i) - Len(p1) = i
      BY <2>1, <2>2
    <3> QED
      BY <1>3, <2>2, <2>3, <3>1
  <2>6. ASSUME NEW i \in 1 .. Len(p3) - 1 PROVE PromptCells[Len(p1) + Len(p2) + i] = p3[i]
    <3>1. /\ Len(p) + i \in 1 .. Len(p) + Len(f3) /\ ~(Len(p) + i <= Len(p))
          /\ (Len(p) + i) - Len(p) = i
      BY <1>3, <2>1, <2>2
    <3> QED
      BY <1>3, <2>2, <2>3, <3>1
  <2> QED
    BY <1>3, <2>1, <2>2, <2>3, <2>4, <2>5, <2>6
<1>5. \A i \in 1 .. StartCol : PromptCells[i] \in Glyphs
  BY <1>2
<1>6. Printed(0) = 0 /\ Printed(1) = Len(p1) /\ Printed(2) = Len(p1) + Len(p2) /\ Printed(3) = StartCol
  BY DEF Printed, p1, p2
<1>7. CASE n = 0
  <2>1. Prompt[n + 1] = p1 /\ Printed(n) = 0 /\ Printed(n + 1) = Len(p1)
    BY <1>6, <1>7 DEF p1
  <2>2. ASSUME NEW i \in 1 .. Len(p1)
        PROVE  i <= Len(p1) /\ p1[i] = PromptCells[i] /\ PromptCells[i] \in Glyphs
    <3>1. i \in 1 .. StartCol /\ i <= Len(p1)
      BY <1>3, <1>4
    <3> QED
      BY <1>4, <1>5, <3>1
  <2> QED
    BY <1>1, <1>3, <1>4, <2>1, <2>2
<1>8. CASE n = 1
  <2>1. Prompt[n + 1] = p2 /\ Printed(n) = Len(p1) /\ Printed(n + 1) = Len(p1) + Len(p2)
    BY <1>6, <1>8 DEF p2
  <2>2. ASSUME NEW i \in 1 .. Len(p2)
        PROVE  /\ Len(p1) + i <= Len(p1) + Len(p2) /\ p2[i] = PromptCells[Len(p1) + i]
               /\ PromptCells[Len(p1) + i] \in Glyphs
    <3>1. Len(p1) + i \in 1 .. StartCol /\ Len(p1) + i <= Len(p1) + Len(p2)
      BY <1>3, <1>4
    <3>2. p2[i] = PromptCells[Len(p1) + i]
      BY <1>3, <1>4, <1>5
    <3> QED
      BY <1>5, <3>1, <3>2
  <2> QED
    BY <1>1, <1>3, <1>4, <2>1, <2>2
<1>9. CASE n = 2
  <2>1. Prompt[n + 1] = p3 /\ Printed(n) = Len(p1) + Len(p2) /\ Printed(n + 1) = StartCol
    BY <1>6, <1>9 DEF p3
  <2>2. ASSUME NEW i \in 1 .. Len(p3) - 1
        PROVE  /\ Len(p1) + Len(p2) + i <= StartCol /\ p3[i] = PromptCells[Len(p1) + Len(p2) + i]
               /\ PromptCells[Len(p1) + Len(p2) + i] \in Glyphs
    BY <1>3, <1>4, <1>5
  <2>3. \A i \in 1 .. Len(p3) :
          \/ i \in 1 .. Len(p3) - 1
          \/ Len(p1) + Len(p2) + i = StartCol + 1 /\ p3[i] = NUL
    BY <1>2, <1>3, <1>4
  <2> QED
    BY <1>1, <1>3, <1>4, <2>1, <2>2, <2>3
<1> QED
  BY <1>7, <1>8, <1>9

\* The prompt begins with a character that shows: the cursor follows from then
\* on, also after clear.
LEMMA PromptKeeps == ConsoleInv /\ (BeginPrompt \/ PrintPrompt) => ConsoleInv'
<1>1. SUFFICES ASSUME ConsoleInv, BeginPrompt \/ PrintPrompt PROVE ConsoleInv'
  OBVIOUS
<1>2. fb \in Screen /\ \A i \in 1 .. 3 : Prompt[i] \in Seq(Printable)
  <2> DEFINE Strings == Seq(Printable)
  <2>1. Prompt \in Seq(Strings) /\ Len(Prompt) = 3
    BY ConsoleAssumption
  <2> HIDE DEF Strings
  <2>2. \A i \in 1 .. 3 : Prompt[i] \in Strings
    BY <2>1
  <2> QED
    BY <1>1, <2>2 DEF ConsoleInv, TypeOK, Strings
<1>3. CASE BeginPrompt
  <2>1. /\ fb' = puts(fb, Prompt[1]) /\ args_val' = NulBuffer /\ piece' = 1 /\ mode' = "prompt"
        /\ UNCHANGED <<input_on, buffer, index, start_col, held, queue, inService, prints, keys>>
    BY <1>3 DEF BeginPrompt, driver
  <2>2. Prompt[1] # <<>> /\ Prompt[1][1] # NUL
    <3>1. Prompt[1] # <<>> /\ Prompt[1] \in Seq(Printable)
      BY <1>2, PromptAssumption
    <3>2. 1 \in 1 .. Len(Prompt[1])
      BY <3>1
    <3>3. Printed(0) = 0 /\ Printed(1) = Len(Prompt[1])
      BY DEF Printed
    <3>4. \A i \in 1 .. Len(Prompt[0 + 1]) :
            \/ Prompt[0 + 1][i] = PromptCells[Printed(0) + i] /\ PromptCells[Printed(0) + i] \in Glyphs
            \/ Printed(0) + i = Printed(0 + 1) + 1
      BY PromptPieces
    <3>5. Prompt[1][1] \in Glyphs
      BY <3>2, <3>3, <3>4
    <3> QED
      BY <3>1, <3>5, GlyphsAssumption
  <2>3. fb' \in Screen /\ Follows(fb')
    BY <1>2, <2>1, <2>2, Puts
  <2> QED
    BY <1>1, <2>1, <2>3, PrintKeeps, NulBufferType DEF ConsoleInv, TypeOK
<1>4. CASE PrintPrompt
  <2>1. /\ mode = "prompt" /\ piece < 3 /\ fb' = puts(fb, Prompt[piece + 1])
        /\ piece' = piece + 1
        /\ UNCHANGED <<input_on, buffer, index, start_col, held, queue, inService, mode, args_val,
                       prints, keys>>
    BY <1>4 DEF PrintPrompt, driver
  <2>2. piece + 1 \in 1 .. 3 /\ Follows(fb)
    BY <1>1, <2>1 DEF ConsoleInv, TypeOK
  <2>3. fb' \in Screen /\ Follows(fb')
    BY <1>2, <2>1, <2>2, Puts
  <2> QED
    BY <1>1, <2>1, <2>2, <2>3, PrintKeeps DEF ConsoleInv, TypeOK
<1> QED
  BY <1>1, <1>3, <1>4

\* The steps of a read around the user's: input goes on only when the index is
\* where the buffer begins or where it was.
LEMMA ReadSteps ==
  ConsoleInv /\ (keyboard_state_activate \/ BeginRead \/ CopyLine \/ EndRead) => ConsoleInv'
<1>1. ASSUME ConsoleInv, keyboard_state_activate PROVE ConsoleInv'
  BY <1>1 DEF ConsoleInv, TypeOK, NoHoles, keyboard_state_activate
<1>2. ASSUME ConsoleInv, BeginRead PROVE ConsoleInv'
  BY <1>2 DEF ConsoleInv, TypeOK, NoHoles, BeginRead, Follows
<1>3. ASSUME ConsoleInv, CopyLine PROVE ConsoleInv'
  BY <1>3 DEF ConsoleInv, TypeOK, NoHoles, CopyLine, Follows, driver
<1>4. ASSUME ConsoleInv, EndRead PROVE ConsoleInv'
  <2>1. /\ mode = "copied" /\ input_on' = FALSE /\ buffer' = NulBuffer /\ mode' = "command"
        /\ UNCHANGED <<fb, index, start_col, held, queue, inService, piece, args_val, prints, keys>>
    BY <1>4 DEF EndRead
  <2>2. index = 0
    BY <1>4, <2>1 DEF ConsoleInv
  <2>3. NoHoles'
    BY <2>1, <2>2 DEF NoHoles, NulBuffer, Indices
  <2> QED
    BY <1>4, <2>1, <2>2, <2>3, NulBufferType DEF ConsoleInv, TypeOK
<1> QED
  BY <1>1, <1>2, <1>3, <1>4

-----------------------------------------------------------------------------
(***************************************************************************)
(* The theorems for every user.                                            *)
(***************************************************************************)
LEMMA ConsoleStarts == Init => ConsoleInv
<1>1. SUFFICES ASSUME Init PROVE ConsoleInv
  OBVIOUS
<1>2. fb \in Screen /\ Follows(fb)
  BY <1>1, ScreenFacts DEF Init, BlankScreen, BlankLine, Screen, Follows
<1>3. NoHoles
  BY <1>1 DEF Init, NoHoles, NulBuffer, Indices
<1>4. TypeOK
  <2>1. 0 \in 0 .. MaxKeys /\ 0 \in 0 .. MaxPrints /\ 0 \in 0 .. KEYBOARD_BUFFER_SIZE
    BY ConsoleAssumption, ShortLines
  <2>2. queue \in Seq(Keys)
    BY <1>1 DEF Init
  <2>3. /\ input_on = TRUE /\ buffer = NulBuffer /\ index = 0 /\ start_col = 0 /\ held = {}
        /\ inService = FALSE /\ mode = "boot" /\ piece = 0 /\ args_val = NulBuffer
        /\ keys = 0 /\ prints = 0
    BY <1>1 DEF Init
  <2>4. /\ input_on \in BOOLEAN /\ inService \in BOOLEAN
        /\ mode \in {"boot", "command", "prompt", "wait", "copied"}
    BY <2>3
  <2>5. /\ buffer \in [Indices -> KeyChars \cup {BLANK, NUL}]
        /\ args_val \in [Indices -> KeyChars \cup {BLANK, NUL}]
    BY <2>3, NulBufferType
  <2>6. start_col \in {0, StartCol} /\ held \subseteq Modifiers \cup {"capslock"} /\ piece \in 0 .. 3
    BY <2>3
  <2> QED
    BY <1>2, <2>1, <2>2, <2>3, <2>4, <2>5, <2>6 DEF TypeOK
<1>5. index = 0 /\ queue = <<>> /\ keys = 0 /\ mode = "boot"
  BY <1>1 DEF Init
<1> QED
  BY <1>2, <1>3, <1>4, <1>5 DEF ConsoleInv

\* Every step keeps the invariant.
LEMMA ConsoleSteps == ConsoleInv /\ [Next]_vars => ConsoleInv'
<1>1. SUFFICES ASSUME ConsoleInv, [Next]_vars PROVE ConsoleInv'
  OBVIOUS
<1>2. CASE UNCHANGED vars
  BY <1>1, <1>2 DEF ConsoleInv, TypeOK, NoHoles, Follows, vars
<1>3. CASE keyboard_isr
  BY <1>1, <1>3, IgnoredKeeps, NoCharacterKeeps, AtStartKeeps, BackspaceKeeps, OnEmptyKeeps,
     NewlineKeeps, CharacterKeeps DEF keyboard_isr
<1>4. CASE ReadLine \/ keyboard_state_activate
  BY <1>1, <1>4, PromptKeeps, ReadSteps DEF ReadLine
<1> QED
  BY <1>1, <1>2, <1>3, <1>4, PressKeeps, PutStringKeeps, PutCharKeeps, ClearKeeps DEF Next

\* The inductive invariant of the console: keys that came and keys that wait
\* are not more than the buffer holds, and a line is listened to from its
\* beginning.
THEOREM ConsoleInductive == Spec => []ConsoleInv
BY ConsoleStarts, ConsoleSteps, PTL DEF Spec

\* The position and the cursor stay on the screen, and the index in the
\* buffer, whatever is typed and printed when.
THEOREM ConsoleTyped == Spec => []TypeOK
<1>1. ConsoleInv => TypeOK
  BY DEF ConsoleInv
<1> QED
  BY <1>1, ConsoleInductive, PTL

\* No character is ever stored behind the NUL that ends the line.
THEOREM LinesHaveNoHoles == Spec => []NoHoles
<1>1. ConsoleInv => NoHoles
  BY DEF ConsoleInv
<1> QED
  BY <1>1, ConsoleInductive, PTL

\* While a line is read the hardware's cursor is where the next character
\* goes, whatever was printed before and also after clear, which leaves it.
THEOREM CursorAlwaysFollows == Spec => []CursorFollows
<1>1. ConsoleInv => CursorFollows
  BY DEF ConsoleInv, CursorFollows, Follows
<1> QED
  BY <1>1, ConsoleInductive, PTL

-----------------------------------------------------------------------------
(***************************************************************************)
(* A user who waits for the prompt.                                        *)
(***************************************************************************)
\* The handler takes a key only while a line is read, and Enter is the last.
LEMMA OrderlyKey ==
  ASSUME ConsoleInv, OrderlyInv, NEW k, Interrupt(k)
  PROVE  /\ mode = "wait" /\ input_on /\ args_val = NulBuffer
         /\ UNCHANGED <<mode, args_val>>
         /\ \A i \in 1 .. Len(queue') : queue'[i] = ENTER => i = Len(queue')
         /\ k = ENTER => queue' = <<>>
<1>1. queue # <<>> /\ Head(queue) = k /\ queue' = Tail(queue) /\ queue \in Seq(Keys)
      /\ UNCHANGED <<mode, args_val>>
  BY DEF Interrupt, shell, ConsoleInv, TypeOK
<1>2. mode = "wait" /\ input_on /\ args_val = NulBuffer
  BY <1>1 DEF OrderlyInv
<1>3. Len(queue) \in Nat /\ Len(queue) > 0 /\ Len(queue') = Len(queue) - 1 /\ queue[1] = k
  BY <1>1
<1>4. \A i \in 1 .. Len(queue') : queue'[i] = queue[i + 1] /\ i + 1 \in 1 .. Len(queue)
  BY <1>1, <1>3
<1>5. \A i \in 1 .. Len(queue') : queue'[i] = ENTER => i = Len(queue')
  <2>1. \A i \in 1 .. Len(queue) : queue[i] = ENTER => i = Len(queue)
    BY DEF OrderlyInv
  <2>2. SUFFICES ASSUME NEW i \in 1 .. Len(queue'), queue'[i] = ENTER PROVE i = Len(queue')
    OBVIOUS
  <2>3. i + 1 = Len(queue)
    BY <1>4, <2>1, <2>2
  <2> QED
    BY <1>3, <2>3
<1>6. k = ENTER => queue' = <<>>
  <2>1. k = ENTER => Len(queue) = 1
    BY <1>3 DEF OrderlyInv
  <2> QED
    BY <1>1, <1>3, <2>1
<1> QED
  BY <1>1, <1>2, <1>5, <1>6

\* The handler's cases.
LEMMA OrderlyHandler == ConsoleInv /\ OrderlyInv /\ keyboard_isr => OrderlyInv'
<1>1. SUFFICES ASSUME ConsoleInv, OrderlyInv, keyboard_isr PROVE OrderlyInv'
  OBVIOUS
<1> DEFINE Key(k) == /\ mode = "wait" /\ input_on /\ args_val = NulBuffer
                     /\ UNCHANGED <<mode, args_val>>
                     /\ \A i \in 1 .. Len(queue') : queue'[i] = ENTER => i = Len(queue')
                     /\ k = ENTER => queue' = <<>>
<1>2. \A k : Interrupt(k) => Key(k)
  BY <1>1, OrderlyKey
<1>3. ~Ignored
  BY <1>2 DEF Ignored
<1>4. CASE NoCharacter \/ BackspaceAtStart \/ BackspaceOnEmpty
  <2>1. \E k : Key(k)
    BY <1>2, <1>4 DEF NoCharacter, BackspaceAtStart, BackspaceOnEmpty
  <2>2. inService' = FALSE /\ UNCHANGED <<input_on, buffer, index>>
    BY <1>4 DEF NoCharacter, BackspaceAtStart, BackspaceOnEmpty, pic_ack, driver
  <2> QED
    BY <1>1, <2>1, <2>2 DEF OrderlyInv
<1>5. CASE Backspace
  <2>1. /\ Key(BACKSPACE) /\ inService' = FALSE /\ input_on' = input_on /\ index' = index - 1
        /\ index > 0 /\ buffer' = [buffer EXCEPT ![index - 1] = BLANK]
    BY <1>2, <1>5 DEF Backspace, pic_ack
  <2>2. ASSUME NEW i \in Indices, i >= index - 1 PROVE buffer'[i] \in {BLANK, NUL}
    <3>1. i \in Int /\ index \in Int /\ buffer \in [Indices -> KeyChars \cup {BLANK, NUL}]
      BY <1>1 DEF ConsoleInv, TypeOK, Indices
    <3>2. CASE i = index - 1
      BY <2>1, <3>1, <3>2
    <3>3. CASE i # index - 1
      <4>1. i >= index /\ buffer'[i] = buffer[i]
        BY <2>1, <2>2, <3>1, <3>3
      <4> QED
        BY <1>1, <2>1, <4>1 DEF OrderlyInv
    <3> QED
      BY <3>2, <3>3
  <2> QED
    BY <2>1, <2>2 DEF OrderlyInv
<1>6. CASE Newline
  <2>1. Key(ENTER) /\ inService' = FALSE /\ input_on' = FALSE
    BY <1>2, <1>6 DEF Newline, EndLine, pic_ack
  <2> QED
    BY <2>1 DEF OrderlyInv
<1>7. CASE Character
  <2>1. PICK k, c : /\ Key(k) /\ inService' = FALSE /\ input_on' = input_on /\ index' = index + 1
                    /\ buffer' = [buffer EXCEPT ![index] = c]
    BY <1>2, <1>7 DEF Character, pic_ack
  <2>2. ASSUME NEW i \in Indices, i >= index + 1 PROVE buffer'[i] \in {BLANK, NUL}
    <3>1. i \in Int /\ index \in Int /\ buffer \in [Indices -> KeyChars \cup {BLANK, NUL}]
      BY <1>1 DEF ConsoleInv, TypeOK, Indices
    <3>2. i >= index /\ i # index /\ buffer'[i] = buffer[i]
      BY <2>1, <2>2, <3>1
    <3> QED
      BY <1>1, <2>1, <3>2 DEF OrderlyInv
  <2> QED
    BY <2>1, <2>2 DEF OrderlyInv
<1> QED
  BY <1>1, <1>3, <1>4, <1>5, <1>6, <1>7 DEF keyboard_isr

\* The user's key, and the shell.
LEMMA OrderlyPress ==
  ASSUME Orderly, ConsoleInv, OrderlyInv, NEW k, Press(k)
  PROVE  OrderlyInv'
<1>1. /\ mode = "wait" /\ input_on /\ \A i \in DOMAIN queue : queue[i] # ENTER
      /\ queue' = Append(queue, k) /\ queue \in Seq(Keys)
      /\ UNCHANGED <<input_on, buffer, index, inService, mode, args_val>>
  BY DEF Press, driver, shell, ConsoleInv, TypeOK
<1>2. ASSUME NEW i \in 1 .. Len(queue'), queue'[i] = ENTER PROVE i = Len(queue')
  <2>1. Len(queue') = Len(queue) + 1 /\ Len(queue) \in Nat /\ DOMAIN queue = 1 .. Len(queue)
    BY <1>1
  <2>2. i \in 1 .. Len(queue) => queue'[i] = queue[i]
    BY <1>1
  <2> QED
    BY <1>1, <1>2, <2>1, <2>2
<1> QED
  BY <1>1, <1>2 DEF OrderlyInv

\* Every step keeps what the waiting user makes true.
LEMMA OrderlySteps ==
  ASSUME Orderly, ConsoleInv, OrderlyInv, [Next]_vars
  PROVE  OrderlyInv'
<1>1. CASE \/ UNCHANGED vars \/ PutChar(BLANK) \/ Clear \/ \E s \in Texts : PutString(s)
           \/ PrintPrompt
  <2>1. UNCHANGED <<input_on, buffer, index, inService, mode, args_val, queue>>
    BY <1>1 DEF vars, PutChar, Clear, PutString, PrintPrompt, driver
  <2> QED
    BY <2>1 DEF OrderlyInv
<1>2. CASE keyboard_state_activate
  BY <1>2 DEF OrderlyInv, keyboard_state_activate
<1>3. CASE BeginPrompt
  BY <1>3 DEF OrderlyInv, BeginPrompt, driver
<1>4. CASE BeginRead
  <2>1. NulBuffer = buffer => \A i \in Indices : buffer[i] \in {BLANK, NUL}
    BY DEF NulBuffer
  <2> QED
    BY <1>4, <2>1 DEF OrderlyInv, BeginRead
<1>5. CASE CopyLine
  BY <1>5 DEF OrderlyInv, CopyLine, driver
<1>6. CASE EndRead
  BY <1>6 DEF OrderlyInv, EndRead, ConsoleInv
<1> QED
  BY <1>1, <1>2, <1>3, <1>4, <1>5, <1>6, OrderlyHandler, OrderlyPress DEF Next, ReadLine

\* At the start no key waits and the buffer is clear.
LEMMA OrderlyStarts == Init => OrderlyInv
BY DEF Init, OrderlyInv

\* With a user who waits for the prompt no interrupt stays unacknowledged: the
\* keyboard is never deaf.
THEOREM OrderlyKeysHeard ==
  ASSUME Orderly
  PROVE  Spec => []KeysHeard
<1>1. ASSUME ConsoleInv, OrderlyInv, [Next]_vars PROVE OrderlyInv'
  BY <1>1, OrderlySteps, Orderly
<1>2. OrderlyInv => KeysHeard
  BY DEF OrderlyInv, KeysHeard
<1>3. Spec => []OrderlyInv
  BY <1>1, OrderlyStarts, ConsoleInductive, PTL DEF Spec
<1> QED
  BY <1>2, <1>3, PTL

-----------------------------------------------------------------------------
(***************************************************************************)
(* The editor.                                                             *)
(***************************************************************************)
\* A buffer with at least k characters before its first NUL, and none behind it.
Whole(b, k) ==
  /\ k \in 0 .. KEYBOARD_BUFFER_SIZE
  /\ \A i, j \in Indices : i < j /\ b[i] = NUL => b[j] = NUL
  /\ \A i \in Indices : i < k => b[i] # NUL

\* And with a line of k characters: behind them only blanks, then NULs.
Line(b, k) == Whole(b, k) /\ \A i \in Indices : i >= k => b[i] \in {BLANK, NUL}

\* The shell reads the characters before the first NUL, the first k and maybe more.
LEMMA StringIs ==
  ASSUME NEW b, NEW k, Whole(b, k)
  PROVE  \E n \in k .. KEYBOARD_BUFFER_SIZE :
           /\ String(b) = [i \in 1 .. n |-> b[i - 1]] /\ \A i \in 1 .. n : b[i - 1] # NUL
           /\ n \in Indices => b[n] = NUL
<1> DEFINE SIZE == KEYBOARD_BUFFER_SIZE
           nuls == {i \in Indices : b[i] = NUL}
           End(i) == i \in nuls \cup {SIZE} /\ \A j \in nuls : i <= j
           D == {i \in 1 .. SIZE : b[i - 1] # NUL}
<1>1. SIZE \in Nat
  BY ShortLines
<1>2. \E i \in 0 .. SIZE : End(i)
  <2>1. CASE D = {}
    <3>1. CASE SIZE = 0
      BY <1>1, <3>1 DEF Indices
    <3>2. CASE SIZE # 0
      <4>1. 0 \in nuls
        <5>1. 0 \in Indices /\ 1 \in 1 .. SIZE /\ 1 - 1 = 0
          BY <1>1, <3>2 DEF Indices
        <5> QED
          BY <2>1, <5>1
      <4> QED
        BY <1>1, <4>1 DEF Indices
    <3> QED
      BY <3>1, <3>2
  <2>2. CASE D # {}
    <3> DEFINE m == Max(D)
    <3>1. m \in D /\ \A i \in D : i <= m
      BY <1>1, <2>2, LastOf
    <3> HIDE DEF m
    <3>2. m \in 1 .. SIZE /\ b[m - 1] # NUL /\ m - 1 \in Indices
      BY <1>1, <3>1 DEF Indices
    <3>3. m = SIZE \/ m \in nuls
      <4>1. SUFFICES ASSUME m # SIZE, b[m] # NUL PROVE FALSE
        BY <1>1, <3>2 DEF Indices
      <4>2. m + 1 \in 1 .. SIZE /\ (m + 1) - 1 = m
        BY <1>1, <3>2, <4>1
      <4>3. m + 1 \in D
        BY <4>1, <4>2
      <4> QED
        BY <3>1, <3>2, <4>3
    <3>4. ASSUME NEW j \in nuls PROVE m <= j
      <4>1. j \in Indices /\ b[j] = NUL /\ j # m - 1 /\ (j < m - 1 => b[m - 1] = NUL)
        BY <3>2 DEF Whole
      <4> QED
        BY <1>1, <3>2, <4>1 DEF Indices
    <3> QED
      BY <1>1, <3>2, <3>3, <3>4
  <2> QED
    BY <2>1, <2>2
<1> DEFINE n == CHOOSE i \in 0 .. SIZE : End(i)
<1>3. n \in 0 .. SIZE /\ End(n)
  BY <1>2
<1>4. String(b) = [i \in 1 .. n |-> b[i - 1]]
  BY DEF String
<1>6. ASSUME NEW i \in 1 .. n PROVE b[i - 1] # NUL
  BY <1>1, <1>3 DEF Indices
<1>7. n \in Indices => b[n] = NUL
  BY <1>1, <1>3 DEF Indices
<1> HIDE DEF n
<1>5. n >= k
  <2>1. n \in nuls => n >= k
    BY <1>1 DEF Whole, Indices
  <2> QED
    BY <1>1, <1>3, <2>1 DEF Whole
<1> QED
  BY <1>1, <1>3, <1>4, <1>5, <1>6, <1>7 DEF Whole

\* What is behind the line does not count.
LEMMA TrimmedLine ==
  ASSUME NEW b, NEW k, Line(b, k)
  PROVE  Trimmed(String(b)) = Trimmed([i \in 1 .. k |-> b[i - 1]])
<1>1. PICK n \in k .. KEYBOARD_BUFFER_SIZE :
        String(b) = [i \in 1 .. n |-> b[i - 1]] /\ \A i \in 1 .. n : b[i - 1] # NUL
  BY StringIs DEF Line
<1>2. k \in Nat /\ n \in Nat /\ k <= n /\ KEYBOARD_BUFFER_SIZE \in Nat /\ n <= KEYBOARD_BUFFER_SIZE
  BY ShortLines DEF Line, Whole
<1> DEFINE long == [i \in 1 .. n |-> b[i - 1]]
           short == [i \in 1 .. k |-> b[i - 1]]
           I == {i \in 1 .. Len(long) : long[i] # BLANK}
           J == {i \in 1 .. Len(short) : short[i] # BLANK}
<1>3. I = J
  <2>1. Len(long) = n /\ Len(short) = k
    BY <1>2
  <2>2. ASSUME NEW i \in 1 .. n, i > k PROVE b[i - 1] = BLANK
    <3>1. i - 1 \in Indices /\ i - 1 >= k
      BY <1>2, <2>2 DEF Indices
    <3> QED
      BY <1>1, <3>1 DEF Line
  <2>3. \A i \in 1 .. n : long[i] = b[i - 1]
    OBVIOUS
  <2>4. \A i \in 1 .. k : short[i] = b[i - 1] /\ i \in 1 .. n
    BY <1>2
  <2> HIDE DEF long, short
  <2> QED
    BY SMTT(20), <1>2, <2>1, <2>2, <2>3, <2>4
<1> DEFINE m == IF I # {} THEN Max(I) ELSE 0
<1>4. Trimmed(long) = SubSeq(long, 1, m) /\ Trimmed(short) = SubSeq(short, 1, m)
  BY <1>3 DEF Trimmed, SelectLastInSeq
<1>5. m \in 0 .. k
  <2>1. Len(short) = k
    BY <1>2
  <2>2. J \subseteq 1 .. k
    BY <2>1
  <2> HIDE DEF J, I
  <2>3. J # {} => Max(J) \in J
    BY <1>2, <2>2, LastOf
  <2>4. CASE I = {}
    BY <1>2, <2>4
  <2>5. CASE I # {}
    <3>1. m = Max(J) /\ m \in J
      BY <1>3, <2>3, <2>5
    <3> HIDE DEF m
    <3> QED
      BY <2>2, <3>1
  <2> QED
    BY <2>4, <2>5
<1> HIDE DEF m
<1>6. SubSeq(long, 1, m) = SubSeq(short, 1, m)
  <2> DEFINE C == {b[i] : i \in Indices}
  <2>1. \A i \in 1 .. n : i - 1 \in Indices
    BY <1>2 DEF Indices
  <2>2. long \in [1 .. n -> C] /\ short \in [1 .. k -> C]
    BY <1>2, <2>1
  <2>3. /\ \A i \in 1 .. m : long[i] = short[i]
        /\ m <= n /\ m <= k /\ m \in Nat
    BY <1>2, <1>5
  <2> HIDE DEF long, short, C
  <2>4. long \in Seq(C) /\ short \in Seq(C) /\ Len(long) = n /\ Len(short) = k
    BY <1>2, <2>2
  <2>5. /\ SubSeq(long, 1, m) \in Seq(C) /\ Len(SubSeq(long, 1, m)) = m
        /\ \A i \in 1 .. m : SubSeq(long, 1, m)[i] = long[i]
    BY <2>3, <2>4, SubSeqProperties
  <2>6. /\ SubSeq(short, 1, m) \in Seq(C) /\ Len(SubSeq(short, 1, m)) = m
        /\ \A i \in 1 .. m : SubSeq(short, 1, m)[i] = short[i]
    BY <2>3, <2>4, SubSeqProperties
  <2> QED
    BY <2>3, <2>5, <2>6, SeqEqual
<1> QED
  BY <1>1, <1>4, <1>6

\* Of a buffer of NULs nothing is left.
LEMMA EmptyLine == Trimmed(String(NulBuffer)) = <<>>
<1>1. Line(NulBuffer, 0)
  <2>1. 0 \in 0 .. KEYBOARD_BUFFER_SIZE /\ \A i \in Indices : i \in Nat /\ NulBuffer[i] = NUL
    BY ShortLines DEF Indices, NulBuffer
  <2> QED
    BY <2>1 DEF Line, Whole
<1> DEFINE e == [i \in 1 .. 0 |-> NulBuffer[i - 1]]
<1>2. e = <<>>
  OBVIOUS
<1>3. Trimmed(<<>>) = <<>>
  <2>1. {i \in 1 .. Len(<<>>) : <<>>[i] # BLANK} = {}
    OBVIOUS
  <2>2. Trimmed(<<>>) = SubSeq(<<>>, 1, 0)
    BY <2>1 DEF Trimmed, SelectLastInSeq
  <2> QED
    BY <2>2
<1>4. Trimmed(String(NulBuffer)) = Trimmed(e)
  BY <1>1, TrimmedLine
<1> HIDE DEF e
<1> QED
  BY <1>2, <1>3, <1>4

\* What is typed is a text of the editor.
LEMMA TypedText ==
  ASSUME NEW b \in [Indices -> KeyChars \cup {BLANK, NUL}], NEW k \in 0 .. KEYBOARD_BUFFER_SIZE,
         \A i \in Indices : i < k => b[i] # NUL
  PROVE  [i \in 1 .. k |-> b[i - 1]] \in Seq(KeyChars \cup {BLANK})
<1>1. ASSUME NEW i \in 1 .. k PROVE b[i - 1] \in KeyChars \cup {BLANK}
  <2>1. i - 1 \in Indices /\ i - 1 < k
    BY ShortLines DEF Indices
  <2> QED
    BY <2>1
<1>2. k \in Nat
  BY ShortLines
<1>3. [i \in 1 .. k |-> b[i - 1]] \in [1 .. k -> KeyChars \cup {BLANK}]
  BY <1>1
<1> QED
  BY <1>2, <1>3

\* The abstract state is a function of these.
LEMMA AbstractKept ==
  UNCHANGED <<mode, input_on, buffer, index, args_val>> => UNCHANGED <<Phase, Text, Given>>
<1>1. SUFFICES ASSUME UNCHANGED <<mode, input_on, buffer, index, args_val>>
               PROVE  UNCHANGED <<Phase, Text, Given>>
  OBVIOUS
<1>2. UNCHANGED <<Phase, Typed>>
  BY <1>1 DEF Phase, Typed
<1>3. UNCHANGED Text
  BY <1>2 DEF Text
<1>4. UNCHANGED Given
  BY <1>1 DEF Given
<1> QED
  BY <1>2, <1>3, <1>4

\* A backspace erases the last character, and a character is appended.
LEMMA EraseStep == ConsoleInv /\ OrderlyInv /\ Backspace => Editor!Erase
<1>1. SUFFICES ASSUME ConsoleInv, OrderlyInv, Backspace PROVE Editor!Erase
  OBVIOUS
<1>2. /\ mode = "wait" /\ input_on /\ UNCHANGED <<mode, input_on, args_val>>
      /\ index > 0 /\ index' = index - 1 /\ buffer' = [buffer EXCEPT ![index - 1] = BLANK]
  BY <1>1, OrderlyKey DEF Backspace
<1>3. Phase = "editing" /\ UNCHANGED <<Phase, Given>> /\ Text = Typed /\ Text' = Typed'
  BY <1>2 DEF Phase, Given, Text
<1>4. buffer \in [Indices -> KeyChars \cup {BLANK, NUL}] /\ index \in 0 .. KEYBOARD_BUFFER_SIZE
      /\ index \in Nat
  BY <1>1, ShortLines DEF ConsoleInv, TypeOK
<1>5. Typed \in Seq(KeyChars \cup {BLANK}) /\ Len(Typed) = index
      /\ \A i \in 1 .. index : Typed[i] = buffer[i - 1]
  <2>1. \A i \in Indices : i < index => buffer[i] # NUL
    BY <1>1 DEF ConsoleInv, NoHoles
  <2> QED
    BY <1>4, <2>1, TypedText DEF Typed
<1>6. Typed' \in Seq(KeyChars \cup {BLANK}) /\ Len(Typed') = index - 1
      /\ \A i \in 1 .. index - 1 : Typed'[i] = Typed[i]
  <2>1. \A i \in 1 .. index - 1 : buffer'[i - 1] = buffer[i - 1]
    BY <1>2, <1>4 DEF Indices
  <2>2. Typed' = [i \in 1 .. index - 1 |-> buffer[i - 1]]
    BY <1>2, <2>1 DEF Typed
  <2>3. index - 1 \in Nat /\ index - 1 \in 0 .. KEYBOARD_BUFFER_SIZE
    BY <1>2, <1>4, ShortLines
  <2>4. \A i \in Indices : i < index - 1 => buffer[i] # NUL
    BY <1>1, <1>4 DEF ConsoleInv, NoHoles, Indices
  <2>5. [i \in 1 .. index - 1 |-> buffer[i - 1]] \in Seq(KeyChars \cup {BLANK})
    BY <1>4, <2>3, <2>4, TypedText
  <2> QED
    BY <1>4, <1>5, <2>2, <2>3, <2>5
<1>7. Typed # <<>> /\ Typed' = Front(Typed)
  <2>1. Typed # <<>> /\ Len(Typed) - 1 = index - 1
    BY <1>2, <1>5
  <2>2. \A i \in 1 .. index - 1 : Typed[i] \in KeyChars \cup {BLANK}
    BY <1>4, <1>5
  <2>3. /\ SubSeq(Typed, 1, index - 1) \in Seq(KeyChars \cup {BLANK})
        /\ Len(SubSeq(Typed, 1, index - 1)) = index - 1
        /\ \A i \in 1 .. index - 1 : SubSeq(Typed, 1, index - 1)[i] = Typed[i]
    <3>1. index - 1 \in Int /\ (index - 1) - 1 + 1 = index - 1 /\ 1 \in Int
      BY <1>4
    <3> QED
      BY <1>2, <1>4, <2>2, <3>1, SubSeqProperties
  <2> QED
    BY <1>6, <2>1, <2>3, SeqEqual DEF Front
<1> QED
  BY <1>3, <1>7 DEF Editor!Erase, Front, Editor!Front

\* A character the handler stores at the index is appended to the line.
LEMMA TypeStep == ConsoleInv /\ OrderlyInv /\ ConsoleInv' /\ Character => Editor!Type
<1>1. SUFFICES ASSUME ConsoleInv, OrderlyInv, ConsoleInv', Character PROVE Editor!Type
  OBVIOUS
<1>2. PICK k \in Letters \cup Symbols :
        /\ mode = "wait" /\ input_on /\ UNCHANGED <<mode, input_on, args_val>>
        /\ index' = index + 1 /\ buffer' = [buffer EXCEPT ![index] = Converted(k)]
  BY <1>1, OrderlyKey DEF Character
<1>3. Phase = "editing" /\ UNCHANGED <<Phase, Given>> /\ Text = Typed /\ Text' = Typed'
  BY <1>2 DEF Phase, Given, Text
<1>4. /\ buffer \in [Indices -> KeyChars \cup {BLANK, NUL}] /\ index \in 0 .. KEYBOARD_BUFFER_SIZE
      /\ index \in Nat /\ index + 1 \in 0 .. KEYBOARD_BUFFER_SIZE
      /\ Converted(k) \in KeyChars \cup {BLANK}
  BY <1>1, <1>2, ShortLines DEF ConsoleInv, TypeOK, Converted, KeyChars
<1>5. Typed \in Seq(KeyChars \cup {BLANK}) /\ Len(Typed) = index
      /\ \A i \in 1 .. index : Typed[i] = buffer[i - 1]
  <2>1. \A i \in Indices : i < index => buffer[i] # NUL
    BY <1>1 DEF ConsoleInv, NoHoles
  <2> QED
    BY <1>4, <2>1, TypedText DEF Typed
<1>6. /\ Typed' \in Seq(KeyChars \cup {BLANK}) /\ Len(Typed') = index + 1
      /\ \A i \in 1 .. index : Typed'[i] = Typed[i]
      /\ Typed'[index + 1] = Converted(k)
  <2>1. buffer'[index] = Converted(k) /\ \A i \in 1 .. index : buffer'[i - 1] = buffer[i - 1]
    <3>1. index \in Indices /\ \A i \in 1 .. index : i - 1 \in Indices /\ i - 1 # index
      BY <1>4, ShortLines DEF Indices
    <3> QED
      BY <1>2, <1>4, <3>1
  <2>2. Typed' = [i \in 1 .. index + 1 |-> buffer'[i - 1]]
    BY <1>2 DEF Typed
  <2>3. buffer' \in [Indices -> KeyChars \cup {BLANK, NUL}]
    BY <1>1 DEF ConsoleInv, TypeOK
  <2>4. \A i \in Indices : i < index + 1 => buffer'[i] # NUL
    BY <1>1, <1>2 DEF ConsoleInv, NoHoles
  <2>5. Typed' \in Seq(KeyChars \cup {BLANK})
    BY <1>4, <2>2, <2>3, <2>4, TypedText
  <2>6. (index + 1) - 1 = index /\ index + 1 \in Nat
    BY <1>4
  <2> QED
    BY <1>4, <1>5, <2>1, <2>2, <2>5, <2>6
<1>7. Typed' = Append(Typed, Converted(k))
  BY <1>4, <1>5, <1>6, AppendProperties, SeqEqual
<1> QED
  BY <1>3, <1>4, <1>7 DEF Editor!Type

\* Enter gives the line in the buffer.
LEMMA EnterStep == ConsoleInv /\ OrderlyInv /\ Newline => Editor!Enter
<1>1. SUFFICES ASSUME ConsoleInv, OrderlyInv, Newline PROVE Editor!Enter
  OBVIOUS
<1>2. mode = "wait" /\ input_on /\ UNCHANGED <<mode, args_val, buffer>> /\ input_on' = FALSE
  BY <1>1, OrderlyKey DEF Newline, EndLine
<1>3. /\ Phase = "editing" /\ Phase' = "entered" /\ Text = Typed /\ Text' = <<>>
      /\ Given' = Trimmed(String(buffer))
  BY <1>2 DEF Phase, Given, Text
<1>4. Line(buffer, index)
  <2>1. index \in 0 .. KEYBOARD_BUFFER_SIZE
    BY <1>1 DEF ConsoleInv, TypeOK
  <2> QED
    BY <1>1, <1>2, <2>1 DEF ConsoleInv, OrderlyInv, NoHoles, Line, Whole
<1>5. Given' = Trimmed(Typed)
  BY <1>3, <1>4, TrimmedLine DEF Typed
<1>6. Trimmed(Typed) = Editor!TrimRight(Typed)
  BY DEF Trimmed, Editor!TrimRight, SelectLastInSeq, Editor!SelectLastInSeq, Max, Editor!Max
<1> QED
  BY <1>3, <1>5, <1>6 DEF Editor!Enter

\* The shell's side of a read.
LEMMA ShellReads ==
  ConsoleInv /\ OrderlyInv /\ (BeginPrompt \/ BeginRead \/ CopyLine \/ EndRead)
    => [Editor!EditorNext]_<<Phase, Text, Given>>
<1>1. ASSUME ConsoleInv, OrderlyInv, BeginPrompt PROVE Editor!Forget
  <2>1. mode = "command" /\ mode' = "prompt" /\ args_val' = NulBuffer
    BY <1>1 DEF BeginPrompt
  <2>2. Phase = "idle" /\ Phase' = "idle" /\ UNCHANGED Text /\ Given' = Trimmed(String(NulBuffer))
    BY <2>1 DEF Phase, Text, Given
  <2> QED
    BY <2>2, EmptyLine DEF Editor!Forget
<1>2. ASSUME ConsoleInv, OrderlyInv, BeginRead PROVE Editor!Ask
  <2>1. mode = "prompt" /\ mode' = "wait" /\ input_on' = TRUE /\ UNCHANGED <<args_val, index>>
    BY <1>2 DEF BeginRead
  <2>2. index = 0 /\ args_val = NulBuffer
    BY <1>2, <2>1 DEF OrderlyInv
  <2>3. Phase = "idle" /\ Phase' = "editing" /\ Text = <<>> /\ Text' = Typed'
    BY <2>1 DEF Phase, Text
  <2>4. Given = Trimmed(String(NulBuffer)) /\ UNCHANGED Given
    BY <2>1, <2>2 DEF Given
  <2>5. Typed' = <<>>
    BY <2>1, <2>2 DEF Typed
  <2> QED
    BY <2>3, <2>4, <2>5, EmptyLine DEF Editor!Ask
<1>3. ASSUME ConsoleInv, OrderlyInv, CopyLine PROVE UNCHANGED <<Phase, Text, Given>>
  BY <1>3 DEF CopyLine, Phase, Text, Given, driver
<1>4. ASSUME ConsoleInv, OrderlyInv, EndRead PROVE Editor!Give
  BY <1>4 DEF EndRead, Phase, Text, Given, Editor!Give
<1> QED
  BY <1>1, <1>2, <1>3, <1>4 DEF Editor!EditorNext

\* Every step of the console is a step of the editor, or none.
LEMMA EditorSteps ==
  ASSUME Orderly, ConsoleInv, OrderlyInv, ConsoleInv', [Next]_vars
  PROVE  [Editor!EditorNext]_<<Phase, Text, Given>>
<1>1. CASE keyboard_isr
  <2>1. ~Ignored
    BY OrderlyKey DEF Ignored
  <2>2. CASE NoCharacter \/ BackspaceAtStart \/ BackspaceOnEmpty
    <3>1. UNCHANGED <<mode, args_val>>
      BY <2>2, OrderlyKey DEF NoCharacter, BackspaceAtStart, BackspaceOnEmpty
    <3>2. UNCHANGED <<input_on, buffer, index>>
      BY <2>2 DEF NoCharacter, BackspaceAtStart, BackspaceOnEmpty, driver
    <3> QED
      BY <3>1, <3>2, AbstractKept
  <2> QED
    BY <1>1, <2>1, <2>2, EraseStep, TypeStep, EnterStep DEF keyboard_isr, Editor!EditorNext
<1>2. CASE \/ UNCHANGED vars \/ PutChar(BLANK) \/ Clear \/ \E s \in Texts : PutString(s)
           \/ PrintPrompt \/ \E k \in Keys : Press(k)
  <2>1. UNCHANGED <<mode, input_on, buffer, index, args_val>>
    BY <1>2 DEF vars, PutChar, Clear, PutString, PrintPrompt, Press, driver, shell
  <2> QED
    BY <2>1, AbstractKept
<1>3. CASE keyboard_state_activate
  BY <1>3 DEF keyboard_state_activate, Phase, Text, Given
<1> QED
  BY <1>1, <1>2, <1>3, ShellReads DEF Next, ReadLine

\* At the start no line is asked for.
LEMMA EditorStarts == Init => Editor!EditorInit
<1>1. Init => Phase = "idle" /\ Text = <<>> /\ Given = Trimmed(String(NulBuffer))
  BY DEF Init, Phase, Text, Given
<1> QED
  BY <1>1, EmptyLine DEF Editor!EditorInit

\* With a user who waits for the prompt, the shell gets the line that was
\* edited: the keys, the buffer and its NULs, the copy after the wait and the
\* clearing implement the abstract editor.
THEOREM ConsoleEditsLine ==
  ASSUME Orderly
  PROVE  Spec => EditsLine
<1>1. ASSUME ConsoleInv, OrderlyInv, [Next]_vars PROVE OrderlyInv'
  BY <1>1, OrderlySteps, Orderly
<1>2. ASSUME ConsoleInv, OrderlyInv, ConsoleInv', [Next]_vars
      PROVE  [Editor!EditorNext]_<<Phase, Text, Given>>
  BY <1>2, EditorSteps, Orderly
<1>3. Spec => []OrderlyInv
  BY <1>1, OrderlyStarts, ConsoleInductive, PTL DEF Spec
<1> QED
  BY <1>2, <1>3, ConsoleInductive, EditorStarts, PTL DEF Spec, EditsLine, Editor!EditorSpec

-----------------------------------------------------------------------------
(***************************************************************************)
(* The echo.                                                               *)
(***************************************************************************)
\* The m cells before place k show the first m characters of q.
ShowsAt(cells, k, q, m) ==
  \A n \in 1 .. m : k - n >= 0 => cells[(k - n) \div COLUMN][(k - n) % COLUMN] = q[m - n + 1]

\* Those before the position do.
Shows(f, q, m) == ShowsAt(f.cells, f.row * COLUMN + f.col, q, m)

\* The prompt and k characters of a buffer.
Shown(b, k) == PromptCells \o [i \in 1 .. k |-> b[i - 1]]

\* A prompt and the line behind it are not in the last row, the prompt in one
\* row of its own, and the line is what follows, however many rows it takes.
EchoInv ==
  /\ mode = "prompt" =>
       /\ piece \in 1 .. 3 /\ fb.row < ROW - 1
       /\ fb.col = Printed(piece) /\ Shows(fb, PromptCells, fb.col)
  /\ mode = "wait" /\ input_on =>
       /\ fb.row < ROW - 1 /\ start_col = StartCol
       /\ \E rows \in Nat : rows * COLUMN + fb.col = StartCol + index
       /\ Shows(fb, Shown(buffer, index), StartCol + index)

\* A place is in one row and one column.
LEMMA PlaceIs ==
  ASSUME NEW r \in Nat, NEW c \in Columns
  PROVE  /\ r * COLUMN + c \in Nat
         /\ (r * COLUMN + c) \div COLUMN = r /\ (r * COLUMN + c) % COLUMN = c
<1>1. COLUMN \in Nat /\ COLUMN > 1 /\ c \in 0 .. COLUMN - 1
  BY ScreenAssumption DEF Columns
<1>2. r * COLUMN \in Nat
  BY <1>1
<1> QED
  BY <1>1, <1>2

\* And every place has them.
LEMMA PlaceOf ==
  ASSUME NEW k \in Nat
  PROVE  k \div COLUMN \in Nat /\ k % COLUMN \in Columns /\ k = (k \div COLUMN) * COLUMN + (k % COLUMN)
BY ScreenAssumption DEF Columns

\* Writing a cell at place k leaves the ones before it.
LEMMA WriteBehind ==
  ASSUME NEW cells \in [Rows -> [Columns -> Glyphs]], NEW r \in Rows, NEW c \in Columns, NEW x,
         NEW q, NEW m \in Nat, ShowsAt(cells, r * COLUMN + c, q, m)
  PROVE  ShowsAt([cells EXCEPT ![r][c] = x], r * COLUMN + c, q, m)
<1> DEFINE k == r * COLUMN + c
           new == [cells EXCEPT ![r][c] = x]
<1>1. r \in Nat /\ ROW \in Nat /\ COLUMN \in Nat /\ COLUMN > 1
  BY ScreenAssumption DEF Rows
<1>2. k \in Nat /\ k \div COLUMN = r /\ k % COLUMN = c
  BY <1>1, PlaceIs
<1>3. SUFFICES ASSUME NEW n \in 1 .. m, k - n >= 0
               PROVE  new[(k - n) \div COLUMN][(k - n) % COLUMN] = q[m - n + 1]
  BY DEF ShowsAt
<1>4. cells[(k - n) \div COLUMN][(k - n) % COLUMN] = q[m - n + 1]
  BY <1>3 DEF ShowsAt
<1> HIDE DEF k
<1>5. k - n \in Nat /\ k - n # k
  BY <1>2, <1>3
<1> DEFINE r2 == (k - n) \div COLUMN
           c2 == (k - n) % COLUMN
<1>6. r2 \in Nat /\ c2 \in Columns /\ k - n = r2 * COLUMN + c2
  BY <1>5, PlaceOf
<1> HIDE DEF r2, c2
<1>7. r2 # r \/ c2 # c
  BY <1>5, <1>6 DEF k
<1>8. new[r2][c2] = cells[r2][c2]
  BY <1>6, <1>7
<1> QED
  BY <1>4, <1>8 DEF r2, c2

\* A character at the position, which moves behind it, is one more shown.
LEMMA ShowsMore ==
  ASSUME NEW cells \in [Rows -> [Columns -> Glyphs]], NEW r \in Rows, NEW c \in Columns, NEW x,
         NEW q, NEW m \in Nat, ShowsAt(cells, r * COLUMN + c, q, m), q[m + 1] = x
  PROVE  ShowsAt([cells EXCEPT ![r][c] = x], r * COLUMN + c + 1, q, m + 1)
<1> DEFINE k == r * COLUMN + c
           new == [cells EXCEPT ![r][c] = x]
<1>1. k \in Nat /\ k \div COLUMN = r /\ k % COLUMN = c
  <2>1. r \in Nat
    BY ScreenAssumption DEF Rows
  <2> QED
    BY <2>1, PlaceIs
<1>2. ShowsAt(new, k, q, m)
  <2> HIDE DEF ShowsAt
  <2> QED
    BY WriteBehind
<1>3. new[r][c] = x
  OBVIOUS
<1> HIDE DEF k, new
<1>4. SUFFICES ASSUME NEW n \in 1 .. m + 1, (k + 1) - n >= 0
               PROVE  new[((k + 1) - n) \div COLUMN][((k + 1) - n) % COLUMN] = q[(m + 1) - n + 1]
  BY DEF ShowsAt, k, new
<1>5. CASE n = 1
  <2>1. (k + 1) - n = k /\ (m + 1) - n + 1 = m + 1
    BY <1>1, <1>5
  <2> QED
    BY <1>1, <1>3, <2>1
<1>6. CASE n # 1
  <2>1. n - 1 \in 1 .. m /\ (k + 1) - n = k - (n - 1) /\ (m + 1) - n + 1 = m - (n - 1) + 1
    BY <1>1, <1>4, <1>6
  <2> HIDE DEF ShowsAt
  <2>2. new[(k - (n - 1)) \div COLUMN][(k - (n - 1)) % COLUMN] = q[m - (n - 1) + 1]
    BY <1>2, <1>4, <2>1 DEF ShowsAt
  <2> QED
    BY <2>1, <2>2
<1> QED
  BY <1>5, <1>6

\* One step back shows one less.
LEMMA ShowsLess ==
  ASSUME NEW cells, NEW k \in Nat, NEW q, NEW m \in Nat, ShowsAt(cells, k + 1, q, m + 1)
  PROVE  ShowsAt(cells, k, q, m)
<1>1. SUFFICES ASSUME NEW n \in 1 .. m, k - n >= 0
               PROVE  cells[(k - n) \div COLUMN][(k - n) % COLUMN] = q[m - n + 1]
  BY DEF ShowsAt
<1>2. n + 1 \in 1 .. m + 1 /\ (k + 1) - (n + 1) = k - n /\ (m + 1) - (n + 1) + 1 = m - n + 1
  BY <1>1
<1>3. cells[((k + 1) - (n + 1)) \div COLUMN][((k + 1) - (n + 1)) % COLUMN] = q[(m + 1) - (n + 1) + 1]
  BY <1>1, <1>2 DEF ShowsAt
<1> QED
  BY <1>2, <1>3

\* Only what is shown matters.
LEMMA ShowsSame ==
  ASSUME NEW cells, NEW k, NEW q, NEW q2, NEW m \in Nat, ShowsAt(cells, k, q, m),
         \A i \in 1 .. m : q2[i] = q[i]
  PROVE  ShowsAt(cells, k, q2, m)
<1>1. \A n \in 1 .. m : m - n + 1 \in 1 .. m
  OBVIOUS
<1> QED
  BY <1>1 DEF ShowsAt

\* A scroll from the beginning of the last row takes what is before it along.
LEMMA ShowsScrolled ==
  ASSUME NEW f \in Screen, f.row = ROW - 1, f.col = 0, NEW q, NEW m \in Nat, Shows(f, q, m)
  PROVE  Shows(scrollDown(f), q, m)
<1> DEFINE g == scrollDown(f)
           k == (ROW - 2) * COLUMN
<1>1. ROW \in Nat /\ COLUMN \in Nat /\ 2 < ROW /\ 1 < COLUMN
  BY ScreenAssumption
<1>2. g.row = ROW - 2 /\ g.col = 0
      /\ g.cells = [r \in Rows |-> IF r = ROW - 2 THEN BlankLine
                                   ELSE IF r < ROW - 1 THEN f.cells[r + 1] ELSE f.cells[r]]
  BY <1>1 DEF scrollDown, framebuffer_set_cursor, Screen
<1>3. ShowsAt(f.cells, k + COLUMN, q, m)
  <2>1. f.row * COLUMN + f.col = k + COLUMN
    BY <1>1
  <2> QED
    BY <2>1 DEF Shows
<1>4. k \in Nat /\ g.row * COLUMN + g.col = k
  BY <1>1, <1>2
<1> HIDE DEF g
<1>5. SUFFICES ASSUME NEW n \in 1 .. m, k - n >= 0
               PROVE  g.cells[(k - n) \div COLUMN][(k - n) % COLUMN] = q[m - n + 1]
  BY <1>4 DEF Shows, ShowsAt, g
<1> DEFINE r == (k - n) \div COLUMN
           c == (k - n) % COLUMN
<1>6. r \in Nat /\ c \in Columns /\ k - n = r * COLUMN + c
  BY <1>4, <1>5, PlaceOf
<1> HIDE DEF r, c
<1>7. r < ROW - 2
  <2>1. r * COLUMN < (ROW - 2) * COLUMN
    BY <1>1, <1>4, <1>6 DEF Columns
  <2> QED
    BY <1>1, <1>6, <2>1
<1>8. g.cells[r][c] = f.cells[r + 1][c]
  BY <1>1, <1>2, <1>6, <1>7 DEF Rows
<1>9. ((k + COLUMN) - n) \div COLUMN = r + 1 /\ ((k + COLUMN) - n) % COLUMN = c
  <2>1. (k + COLUMN) - n = (r + 1) * COLUMN + c /\ r + 1 \in Nat
    BY <1>1, <1>4, <1>6 DEF Columns
  <2> QED
    BY <1>6, <2>1, PlaceIs
<1>10. (k + COLUMN) - n >= 0
  BY <1>1, <1>4, <1>5
<1>11. f.cells[r + 1][c] = q[m - n + 1]
  <2>1. ASSUME NEW j, ShowsAt(f.cells, j, q, m), j - n >= 0
        PROVE  f.cells[(j - n) \div COLUMN][(j - n) % COLUMN] = q[m - n + 1]
    BY <2>1 DEF ShowsAt
  <2> QED
    BY <1>3, <1>9, <1>10, <2>1
<1> QED
  BY <1>8, <1>11 DEF r, c

\* A character that does not wrap is one more shown.
LEMMA PutCell ==
  ASSUME NEW f \in Screen, NEW c \in Glyphs, f.col + 1 < COLUMN,
         NEW q, NEW m \in Nat, Shows(f, q, m), q[m + 1] = c
  PROVE  /\ putchar(f, c) \in Screen
         /\ putchar(f, c).row = f.row /\ putchar(f, c).col = f.col + 1
         /\ Shows(putchar(f, c), q, m + 1)
<1> DEFINE w == framebuffer_write(f, c)
<1>1. f.row \in Rows /\ f.col \in Columns /\ f.cells \in [Rows -> [Columns -> Glyphs]]
  BY DEF Screen
<1>2. c # NUL /\ c # NEWLINE /\ f.col # COLUMN - 1 /\ c \in Printable
  BY <1>1, GlyphsAssumption, ScreenAssumption DEF Printable, Columns
<1>3. putchar(f, c) = framebuffer_set_cursor([w EXCEPT !.col = @ + 1])
  BY <1>2 DEF putchar
<1>4. w = [f EXCEPT !.cells = [f.cells EXCEPT ![f.row][f.col] = c]]
  BY DEF framebuffer_write, Screen
<1>5. /\ putchar(f, c).row = f.row /\ putchar(f, c).col = f.col + 1
      /\ putchar(f, c).cells = [f.cells EXCEPT ![f.row][f.col] = c]
  BY <1>3, <1>4 DEF framebuffer_set_cursor, Screen
<1>6. ShowsAt([f.cells EXCEPT ![f.row][f.col] = c], f.row * COLUMN + f.col + 1, q, m + 1)
  BY <1>1, ShowsMore DEF Shows
<1>7. f.row * COLUMN + (f.col + 1) = f.row * COLUMN + f.col + 1
  <2>1. f.row \in Nat /\ f.col \in Nat /\ COLUMN \in Nat
    BY <1>1, ScreenAssumption DEF Rows, Columns
  <2> QED
    BY <2>1
<1> QED
  BY <1>2, <1>5, <1>6, <1>7, PutCharacter DEF Shows

\* A string of the prompt, printed where it belongs.
LEMMA PutPrompt ==
  ASSUME StartCol < COLUMN, NEW n \in 0 .. 2, NEW f \in Screen, f.row < ROW - 1,
         f.col = Printed(n), Shows(f, PromptCells, f.col)
  PROVE  LET g == FoldLeft(putchar, f, Prompt[n + 1])
         IN  g.row < ROW - 1 /\ g.col = Printed(n + 1) /\ Shows(g, PromptCells, g.col)
<1> DEFINE seq == Prompt[n + 1]
           Col(i) == IF Printed(n) + i <= Printed(n + 1) THEN Printed(n) + i ELSE Printed(n + 1)
           Path == [i \in 0 .. Len(seq) |->
                      {g \in Screen : g.row = f.row /\ g.col = Col(i) /\ Shows(g, PromptCells, g.col)}]
<1>1. /\ seq \in Seq(Printable) /\ Printed(n) \in Nat /\ Printed(n + 1) \in Printed(n) .. StartCol
      /\ Printed(n + 1) <= Printed(n) + Len(seq)
  BY PromptPieces
<1>2. Len(seq) \in Nat /\ DOMAIN seq = 1 .. Len(seq) /\ StartCol \in Nat /\ COLUMN \in Nat
  BY <1>1, ConsoleAssumption, ScreenAssumption
<1>3. f \in Path[0]
  BY <1>1, <1>2
<1>4. ASSUME NEW i \in 1 .. Len(seq), NEW g \in Path[i - 1] PROVE putchar(g, seq[i]) \in Path[i]
  <2>1. i - 1 \in 0 .. Len(seq) /\ i \in 0 .. Len(seq)
    BY <1>2
  <2>2. g \in Screen /\ g.row = f.row /\ g.col = Col(i - 1) /\ Shows(g, PromptCells, g.col)
    BY <1>4, <2>1
  <2> HIDE DEF seq
  <2>3. CASE /\ Printed(n) + i <= Printed(n + 1) /\ seq[i] = PromptCells[Printed(n) + i]
             /\ PromptCells[Printed(n) + i] \in Glyphs
    <3>1. g.col \in Nat /\ g.col + 1 = Printed(n) + i /\ Col(i) = Printed(n) + i /\ g.col + 1 < COLUMN
      BY <1>1, <1>2, <2>2, <2>3
    <3> HIDE DEF Col
    <3>2. /\ putchar(g, seq[i]) \in Screen
          /\ putchar(g, seq[i]).row = g.row /\ putchar(g, seq[i]).col = g.col + 1
          /\ Shows(putchar(g, seq[i]), PromptCells, g.col + 1)
      BY <2>2, <2>3, <3>1, PutCell
    <3> QED
      BY <2>1, <2>2, <3>1, <3>2
  <2>4. CASE Printed(n) + i = Printed(n + 1) + 1 /\ seq[i] = NUL
    <3>1. putchar(g, seq[i]) = g
      BY <2>4 DEF putchar
    <3>2. Col(i) = Col(i - 1)
      <4>1. /\ Printed(n) + (i - 1) = Printed(n + 1) /\ ~(Printed(n) + i <= Printed(n + 1))
            /\ Printed(n) + (i - 1) <= Printed(n + 1)
        <5>1. Printed(n) \in Int /\ Printed(n + 1) \in Int /\ i \in Int
          BY <1>1, <1>2
        <5>2. \A x, y, j \in Int : x + j = y + 1 => x + (j - 1) = y /\ ~(x + j <= y) /\ x + (j - 1) <= y
          OBVIOUS
        <5> QED
          BY <2>4, <5>1, <5>2
      <4> QED
        BY <4>1
    <3> HIDE DEF Col
    <3> QED
      BY <2>1, <2>2, <3>1, <3>2
  <2> QED
    BY <2>3, <2>4, PromptPieces DEF seq
<1>5. Path[Len(seq)] = {g \in Screen : /\ g.row = f.row /\ g.col = Printed(n + 1)
                                       /\ Shows(g, PromptCells, g.col)}
  <2>1. Col(Len(seq)) = Printed(n + 1)
    BY <1>1, <1>2
  <2> HIDE DEF Col
  <2> QED
    BY <1>2, <2>1
<1> HIDE DEF Path, seq
<1>6. FoldLeft(putchar, f, seq) \in Path[Len(seq)]
  BY <1>2, <1>3, <1>4, FoldPath
<1> QED
  BY <1>5, <1>6 DEF seq

\* The line is behind the prompt.
LEMMA LineShown ==
  ASSUME NEW b \in [Indices -> KeyChars \cup {BLANK, NUL}], NEW k \in 0 .. KEYBOARD_BUFFER_SIZE
  PROVE  /\ Len(Shown(b, k)) = StartCol + k
         /\ \A i \in 1 .. StartCol : Shown(b, k)[i] = PromptCells[i]
         /\ \A i \in 1 .. k : Shown(b, k)[StartCol + i] = b[i - 1]
<1> DEFINE t == [i \in 1 .. k |-> b[i - 1]]
           Chars == Glyphs \cup KeyChars \cup {BLANK, NUL}
<1>1. PromptCells \in Seq(Chars) /\ Len(PromptCells) = StartCol /\ StartCol \in Nat /\ k \in Nat
  BY PromptAssumption, ConsoleAssumption, ShortLines
<1>2. t \in Seq(Chars) /\ Len(t) = k /\ \A i \in 1 .. k : t[i] = b[i - 1]
  <2>1. \A i \in 1 .. k : i - 1 \in Indices
    BY ShortLines DEF Indices
  <2> QED
    BY <1>1, <2>1
<1>3. Shown(b, k) = PromptCells \o t
  BY DEF Shown
<1> HIDE DEF t, Chars
<1>4. /\ Len(Shown(b, k)) = StartCol + k
      /\ \A i \in 1 .. StartCol + k :
           Shown(b, k)[i] = IF i <= StartCol THEN PromptCells[i] ELSE t[i - StartCol]
  <2>1. /\ Len(PromptCells \o t) = Len(PromptCells) + Len(t)
        /\ \A i \in 1 .. Len(PromptCells) + Len(t) :
             (PromptCells \o t)[i] = IF i <= Len(PromptCells) THEN PromptCells[i]
                                     ELSE t[i - Len(PromptCells)]
    BY <1>1, <1>2, ConcatProperties
  <2>2. Len(PromptCells) = StartCol /\ Len(t) = k
    BY <1>1, <1>2
  <2> QED
    BY <1>3, <2>1, <2>2
<1>5. ASSUME NEW i \in 1 .. StartCol PROVE Shown(b, k)[i] = PromptCells[i]
  BY <1>1, <1>4
<1>6. ASSUME NEW i \in 1 .. k PROVE Shown(b, k)[StartCol + i] = b[i - 1]
  <2>1. StartCol + i \in 1 .. StartCol + k /\ ~(StartCol + i <= StartCol) /\ (StartCol + i) - StartCol = i
    BY <1>1
  <2> QED
    BY <1>2, <1>4, <2>1
<1> QED
  BY <1>4, <1>5, <1>6

\* Another buffer with the same m characters shows the same.
LEMMA LineSame ==
  ASSUME NEW b \in [Indices -> KeyChars \cup {BLANK, NUL}], NEW k \in 0 .. KEYBOARD_BUFFER_SIZE,
         NEW c \in [Indices -> KeyChars \cup {BLANK, NUL}], NEW l \in 0 .. KEYBOARD_BUFFER_SIZE,
         NEW m \in Nat, m <= k, m <= l, \A i \in Indices : i < m => c[i] = b[i],
         NEW f, Shows(f, Shown(b, k), StartCol + m)
  PROVE  Shows(f, Shown(c, l), StartCol + m)
<1>1. StartCol \in Nat /\ KEYBOARD_BUFFER_SIZE \in Nat
  BY ConsoleAssumption, ShortLines
<1>2. ASSUME NEW j \in 1 .. StartCol + m PROVE Shown(c, l)[j] = Shown(b, k)[j]
  <2>1. CASE j <= StartCol
    <3>1. j \in 1 .. StartCol
      BY <1>1, <2>1
    <3> QED
      BY <3>1, LineShown
  <2>2. CASE j > StartCol
    <3> DEFINE i == j - StartCol
    <3>1. i \in 1 .. k /\ i \in 1 .. l /\ j = StartCol + i /\ i - 1 \in Indices /\ i - 1 < m
      BY <1>1, <2>2 DEF Indices
    <3> HIDE DEF i
    <3>2. Shown(c, l)[StartCol + i] = c[i - 1] /\ Shown(b, k)[StartCol + i] = b[i - 1]
      BY <3>1, LineShown
    <3> QED
      BY <3>1, <3>2
  <2> QED
    BY <1>1, <2>1, <2>2
<1>3. StartCol + m \in Nat
  BY <1>1
<1> QED
  BY <1>2, <1>3, ShowsSame DEF Shows

\* An erasure takes back one cell and one character.
LEMMA EchoBackspace ==
  ASSUME ConsoleInv, OrderlyInv, EchoInv, Backspace
  PROVE  EchoInv'
<1>1. /\ mode = "wait" /\ input_on /\ mode' = mode
      /\ fb.col > start_col /\ index > 0 /\ index' = index - 1
      /\ buffer' = [buffer EXCEPT ![index - 1] = BLANK]
      /\ fb' = framebuffer_set_cursor(framebuffer_write([fb EXCEPT !.col = @ - 1], BLANK))
      /\ UNCHANGED <<input_on, start_col>>
  BY OrderlyKey DEF Backspace
<1>2. /\ fb.row < ROW - 1 /\ start_col = StartCol
      /\ Shows(fb, Shown(buffer, index), StartCol + index)
  BY <1>1 DEF EchoInv
<1>3. PICK rows \in Nat : rows * COLUMN + fb.col = StartCol + index
  BY <1>1 DEF EchoInv
<1>4. /\ fb \in Screen /\ fb.row \in Rows /\ fb.col \in Columns
      /\ fb.cells \in [Rows -> [Columns -> Glyphs]]
      /\ buffer \in [Indices -> KeyChars \cup {BLANK, NUL}] /\ index \in 0 .. KEYBOARD_BUFFER_SIZE
      /\ StartCol \in Nat /\ COLUMN \in Nat /\ ROW \in Nat /\ KEYBOARD_BUFFER_SIZE \in Nat
  BY ConsoleAssumption, ScreenAssumption, ShortLines DEF ConsoleInv, TypeOK, Screen
<1> DEFINE col == fb.col - 1
           k == fb.row * COLUMN + col
           m == StartCol + (index - 1)
<1>5. col \in Columns /\ k \in Nat /\ m \in Nat /\ m + 1 = StartCol + index
      /\ fb.row * COLUMN + fb.col = k + 1
  <2>1. fb.row \in Nat /\ fb.col \in 1 .. COLUMN - 1 /\ index \in Nat /\ index - 1 \in Nat
        /\ StartCol \in Nat /\ COLUMN \in Nat
    BY <1>1, <1>2, <1>4 DEF Rows, Columns
  <2>2. fb.row * COLUMN \in Nat
    BY <2>1
  <2>3. ASSUME NEW p \in Nat PROVE p + col \in Nat /\ p + fb.col = p + col + 1
    BY <2>1
  <2> QED
    BY <2>1, <2>2, <2>3 DEF Columns
<1>6. /\ fb'.row = fb.row /\ fb'.col = col
      /\ fb'.cells = [fb.cells EXCEPT ![fb.row][col] = BLANK]
  BY <1>1, <1>4 DEF framebuffer_set_cursor, framebuffer_write, Screen
<1> HIDE DEF m
<1>7. ShowsAt(fb.cells, k, Shown(buffer, index), m)
  <2>1. ShowsAt(fb.cells, k + 1, Shown(buffer, index), m + 1)
    BY <1>2, <1>5 DEF Shows
  <2> HIDE DEF k
  <2> QED
    BY <1>5, <2>1, ShowsLess
<1>8. Shows(fb', Shown(buffer, index), m)
  <2> HIDE DEF col
  <2>1. ShowsAt([fb.cells EXCEPT ![fb.row][col] = BLANK], k, Shown(buffer, index), m)
    BY <1>4, <1>5, <1>7, WriteBehind
  <2> QED
    BY <1>6, <2>1 DEF Shows
<1>9. Shows(fb', Shown(buffer', index'), StartCol + index')
  <2>1. /\ buffer' \in [Indices -> KeyChars \cup {BLANK, NUL}] /\ index - 1 \in Nat
        /\ index - 1 \in 0 .. KEYBOARD_BUFFER_SIZE
        /\ \A i \in Indices : i < index - 1 => buffer'[i] = buffer[i]
    BY <1>1, <1>4 DEF Indices
  <2>2. Shows(fb', Shown(buffer', index - 1), StartCol + (index - 1))
    BY <1>4, <1>8, <2>1, LineSame DEF m
  <2> QED
    BY <1>1, <2>2
<1>10. rows * COLUMN + fb'.col = StartCol + index'
  <2>1. rows * COLUMN \in Nat /\ fb.col \in Nat /\ index \in Nat /\ StartCol \in Nat
    BY <1>4 DEF Columns
  <2>2. index' = index - 1 /\ fb'.col = fb.col - 1
    BY <1>1, <1>6
  <2>3. ASSUME NEW p \in Nat, p + fb.col = StartCol + index PROVE p + (fb.col - 1) = StartCol + (index - 1)
    BY <2>1, <2>3
  <2> QED
    BY <1>3, <2>1, <2>2, <2>3
<1> QED
  BY <1>1, <1>2, <1>6, <1>9, <1>10 DEF EchoInv

\* A typed character is one more shown, also where the line wraps, and where it
\* scrolls.
LEMMA EchoCharacter ==
  ASSUME ConsoleInv, OrderlyInv, EchoInv, ConsoleInv', Character
  PROVE  EchoInv'
<1>1. PICK c \in KeyChars \cup {BLANK} :
        /\ mode = "wait" /\ input_on /\ mode' = mode
        /\ buffer' = [buffer EXCEPT ![index] = c] /\ index' = index + 1
        /\ fb' = framebuffer_set_cursor(Scrolled(Advanced(framebuffer_write(fb, c))))
        /\ UNCHANGED <<input_on, start_col>>
  <2>1. \A k \in Letters \cup Symbols : Converted(k) \in KeyChars
    BY DEF Converted, KeyChars
  <2> QED
    BY <2>1, OrderlyKey DEF Character
<1>2. /\ fb.row < ROW - 1 /\ start_col = StartCol
      /\ Shows(fb, Shown(buffer, index), StartCol + index)
  BY <1>1 DEF EchoInv
<1>3. PICK rows \in Nat : rows * COLUMN + fb.col = StartCol + index
  BY <1>1 DEF EchoInv
<1>4. /\ fb \in Screen /\ fb.row \in Rows /\ fb.col \in Columns /\ c \in Glyphs
      /\ fb.cells \in [Rows -> [Columns -> Glyphs]]
      /\ buffer \in [Indices -> KeyChars \cup {BLANK, NUL}] /\ index \in 0 .. KEYBOARD_BUFFER_SIZE
      /\ buffer' \in [Indices -> KeyChars \cup {BLANK, NUL}]
      /\ index + 1 \in 0 .. KEYBOARD_BUFFER_SIZE
      /\ StartCol \in Nat /\ COLUMN \in Nat /\ 1 < COLUMN /\ ROW \in Nat /\ 2 < ROW
      /\ KEYBOARD_BUFFER_SIZE \in Nat
  BY <1>1, ConsoleAssumption, ScreenAssumption, GlyphsAssumption, ShortLines
     DEF ConsoleInv, TypeOK, Screen
<1>5. /\ fb.row \in Nat /\ fb.col \in Nat /\ fb.col < COLUMN /\ index \in Nat
      /\ fb.row * COLUMN \in Nat /\ rows * COLUMN \in Nat
  <2>1. fb.row \in Nat /\ fb.col \in Nat /\ fb.col < COLUMN /\ index \in Nat
    BY <1>4 DEF Rows, Columns
  <2> QED
    BY <1>4, <2>1
<1> DEFINE q == Shown(buffer', index + 1)
           m == StartCol + index
           w == framebuffer_write(fb, c)
           a == Advanced(w)
<1>6. q[m + 1] = c /\ m \in Nat
  <2>0. index \in Nat /\ StartCol \in Nat /\ KEYBOARD_BUFFER_SIZE \in Nat /\ index + 1 <= KEYBOARD_BUFFER_SIZE
    BY <1>4, <1>5
  <2>1. q[StartCol + (index + 1)] = buffer'[(index + 1) - 1]
    <3>1. \A i \in 1 .. index + 1 : q[StartCol + i] = buffer'[i - 1]
      BY <1>4, LineShown
    <3>2. index + 1 \in 1 .. index + 1
      BY <2>0
    <3> HIDE DEF q
    <3> QED
      BY <3>1, <3>2
  <2>2. index \in Indices /\ (index + 1) - 1 = index /\ StartCol + (index + 1) = m + 1 /\ m \in Nat
    BY <2>0 DEF Indices
  <2>3. buffer'[index] = c
    BY <1>1, <1>4, <2>2
  <2> QED
    BY <2>1, <2>2, <2>3
<1>7. Shows(fb, q, m)
  <2>1. \A i \in Indices : i < index => buffer'[i] = buffer[i]
    BY <1>1, <1>4, <1>5 DEF Indices
  <2> QED
    BY <1>2, <1>4, <1>5, <2>1, LineSame
<1> HIDE DEF q, m
<1>8. /\ w \in Screen /\ w.row = fb.row /\ w.col = fb.col
      /\ ShowsAt(w.cells, fb.row * COLUMN + fb.col + 1, q, m + 1)
  <2>1. w = [fb EXCEPT !.cells = [fb.cells EXCEPT ![fb.row][fb.col] = c]]
    BY <1>4 DEF framebuffer_write, Screen
  <2>2. ShowsAt([fb.cells EXCEPT ![fb.row][fb.col] = c], fb.row * COLUMN + fb.col + 1, q, m + 1)
    BY <1>4, <1>6, <1>7, ShowsMore DEF Shows
  <2>3. w.cells = [fb.cells EXCEPT ![fb.row][fb.col] = c]
    BY <1>4, <2>1 DEF Screen
  <2> HIDE DEF w
  <2> QED
    BY <1>4, <2>2, <2>3, Write DEF w
<1> HIDE DEF w
<1>9. /\ a \in Screen /\ Shows(a, q, m + 1)
      /\ a.row < ROW - 1 \/ (a.row = ROW - 1 /\ a.col = 0)
      /\ \E n \in Nat : n * COLUMN + a.col = m + 1
  <2>1. CASE fb.col + 1 >= COLUMN
    <3>1. a = [w EXCEPT !.row = @ + 1, !.col = 0]
      BY <1>8, <2>1 DEF Advanced, NextLine
    <3>2. a.row = fb.row + 1 /\ a.col = 0 /\ a.cells = w.cells /\ a \in Screen
      <4>1. fb.row + 1 \in Rows /\ 0 \in Columns
        BY <1>2, <1>4, <1>5, ScreenFacts DEF Rows
      <4> QED
        BY <1>8, <3>1, <4>1 DEF Screen
    <3>3. COLUMN = fb.col + 1 /\ fb.row \in Nat /\ fb.col \in Nat /\ fb.row < ROW - 1 /\ ROW \in Nat
      <4>1. COLUMN \in Nat /\ fb.col \in Nat /\ fb.col < COLUMN
        BY <1>4, <1>5
      <4>2. COLUMN = fb.col + 1
        BY <2>1, <4>1
      <4>3. fb.row \in Nat /\ fb.row < ROW - 1 /\ ROW \in Nat
        BY <1>2, <1>4, <1>5
      <4> QED
        BY <4>1, <4>2, <4>3
    <3>4. \A r \in Nat : (r + 1) * COLUMN + 0 = r * COLUMN + fb.col + 1
      <4>1. \A r, j \in Nat : (r + 1) * (j + 1) + 0 = r * (j + 1) + j + 1
        OBVIOUS
      <4> QED
        BY <3>3, <4>1
    <3>5. (rows + 1) * COLUMN + 0 = m + 1 /\ rows + 1 \in Nat
      BY <1>3, <3>4 DEF m
    <3>6. a.row < ROW - 1 \/ a.row = ROW - 1
      BY <3>2, <3>3
    <3> HIDE DEF a
    <3>7. ShowsAt(a.cells, a.row * COLUMN + a.col, q, m + 1)
      BY <1>8, <3>2, <3>3, <3>4
    <3> QED
      BY <3>2, <3>5, <3>6, <3>7 DEF Shows
  <2>2. CASE ~(fb.col + 1 >= COLUMN)
    <3>1. a = [w EXCEPT !.col = @ + 1]
      BY <1>8, <2>2 DEF Advanced
    <3>2. a.row = fb.row /\ a.col = fb.col + 1 /\ a.cells = w.cells /\ a \in Screen
      <4>1. fb.col + 1 \in Columns
        BY <1>4, <1>5, <2>2 DEF Columns
      <4> QED
        BY <1>8, <3>1, <4>1 DEF Screen
    <3>3. /\ fb.row * COLUMN + (fb.col + 1) = fb.row * COLUMN + fb.col + 1
          /\ rows * COLUMN + (fb.col + 1) = m + 1
      BY <1>3, <1>4, <1>5 DEF m
    <3> HIDE DEF a
    <3> QED
      BY <1>2, <1>8, <3>2, <3>3 DEF Shows
  <2> QED
    BY <2>1, <2>2
<1> HIDE DEF a
<1> DEFINE s == Scrolled(a)
<1>10. /\ s.row < ROW - 1 /\ s.col = a.col /\ Shows(s, q, m + 1) /\ s \in Screen
  <2>1. CASE a.row < ROW - 1
    <3>1. s = a
      <4>1. ~(a.row >= ROW - 1)
        BY <1>4, <1>9, <2>1 DEF Screen, Rows
      <4> QED
        BY <4>1 DEF Scrolled
    <3> QED
      BY <1>9, <2>1, <3>1
  <2>2. CASE a.row = ROW - 1 /\ a.col = 0
    <3>1. s = scrollDown(a)
      BY <1>4, <2>2 DEF Scrolled
    <3>2. s.row = ROW - 2 /\ s.col = 0
      BY <1>4, <1>9, <2>2, <3>1 DEF scrollDown, framebuffer_set_cursor, Screen
    <3>3. m + 1 \in Nat
      BY <1>6
    <3>4. Shows(s, q, m + 1)
      BY <1>9, <2>2, <3>1, <3>3, ShowsScrolled
    <3>5. s \in Screen
      BY <1>9, ScrolledOn, ScreenFacts
    <3> QED
      BY <1>4, <2>2, <3>2, <3>4, <3>5
  <2> QED
    BY <1>9, <2>1, <2>2
<1> HIDE DEF s
<1>11. fb' = framebuffer_set_cursor(s)
  BY <1>1 DEF s, a, w
<1>12. fb'.row < ROW - 1 /\ fb'.col = a.col /\ Shows(fb', q, m + 1)
  BY <1>10, <1>11 DEF framebuffer_set_cursor, Screen, Shows
<1>13. m + 1 = StartCol + index'
  BY <1>1, <1>4, <1>5 DEF m
<1>14. q = Shown(buffer', index')
  BY <1>1 DEF q
<1> QED
  BY <1>1, <1>2, <1>9, <1>12, <1>13, <1>14 DEF EchoInv

\* The handler's cases: at the prompt's end no backspace moves the position.
LEMMA EchoHandler ==
  ASSUME StartCol < COLUMN, ConsoleInv, OrderlyInv, EchoInv, ConsoleInv', keyboard_isr
  PROVE  EchoInv'
<1>1. \A k : Interrupt(k) => mode = "wait" /\ input_on /\ mode' = mode
  BY OrderlyKey
<1>2. ~Ignored
  BY <1>1 DEF Ignored
<1>3. CASE NoCharacter \/ BackspaceAtStart
  <2>1. mode' = mode /\ UNCHANGED <<fb, input_on, start_col, index, buffer, piece>>
    BY <1>1, <1>3 DEF NoCharacter, BackspaceAtStart, driver, Interrupt, shell
  <2> QED
    BY <2>1 DEF EchoInv
<1>4. ~BackspaceOnEmpty
  <2>1. SUFFICES ASSUME BackspaceOnEmpty PROVE FALSE
    OBVIOUS
  <2>2. mode = "wait" /\ input_on /\ fb.col > start_col /\ index = 0
    BY <1>1, <2>1 DEF BackspaceOnEmpty
  <2>3. PICK rows \in Nat : rows * COLUMN + fb.col = StartCol + index /\ start_col = StartCol
    BY <2>2 DEF EchoInv
  <2>4. fb.col \in Nat /\ COLUMN \in Nat /\ StartCol \in Nat
    BY ScreenAssumption, ConsoleAssumption DEF ConsoleInv, TypeOK, Screen, Columns
  <2>5. rows * COLUMN >= 0
    BY <2>4
  <2> QED
    BY <2>2, <2>3, <2>4, <2>5
<1>5. CASE Newline
  <2>1. mode' = "wait" /\ input_on' = FALSE
    BY <1>1, <1>5 DEF Newline, EndLine
  <2> QED
    BY <2>1 DEF EchoInv
<1> QED
  BY <1>2, <1>3, <1>4, <1>5, EchoBackspace, EchoCharacter DEF keyboard_isr

\* The prompt: at the beginning of a line, and not of the last one.
LEMMA EchoPrompt ==
  ASSUME Orderly, StartCol < COLUMN, ConsoleInv, EchoInv, BeginPrompt \/ PrintPrompt
  PROVE  EchoInv'
<1>1. fb \in Screen /\ fb.row \in Rows /\ ROW \in Nat /\ 2 < ROW /\ piece \in 0 .. 3
  BY ScreenAssumption DEF ConsoleInv, TypeOK, Screen
<1>2. PICK n \in 0 .. 2, f \in Screen :
        /\ f.row < ROW - 1 /\ f.col = Printed(n) /\ Shows(f, PromptCells, f.col)
        /\ fb' = FoldLeft(putchar, f, Prompt[n + 1]) /\ piece' = n + 1 /\ mode' = "prompt"
  <2>1. CASE BeginPrompt
    <3> DEFINE f == IF fb.row >= ROW - 1 THEN scrollDown(fb) ELSE fb
    <3>1. /\ fb.col = 0 /\ fb' = FoldLeft(putchar, f, Prompt[0 + 1])
          /\ piece' = 0 + 1 /\ mode' = "prompt"
      BY <2>1, Orderly DEF BeginPrompt, puts
    <3>2. f \in Screen /\ f.row < ROW - 1 /\ f.col = 0
      <4>1. CASE fb.row >= ROW - 1
        <5>1. fb.row = ROW - 1 /\ fb \in Overfull /\ fb.row > 0
          BY <1>1, <4>1, ScreenFacts DEF Rows
        <5>2. scrollDown(fb) \in Screen
          BY <5>1, ScrollDown
        <5>3. scrollDown(fb).row = ROW - 2 /\ scrollDown(fb).col = 0
          BY <1>1, <5>1 DEF scrollDown, framebuffer_set_cursor, Screen
        <5> QED
          BY <1>1, <4>1, <5>2, <5>3
      <4>2. CASE ~(fb.row >= ROW - 1)
        BY <1>1, <3>1, <4>2 DEF Rows
      <4> QED
        BY <4>1, <4>2
    <3> HIDE DEF f
    <3>3. Printed(0) = 0 /\ Shows(f, PromptCells, 0)
      BY DEF Printed, Shows, ShowsAt
    <3> QED
      BY <3>1, <3>2, <3>3
  <2>2. CASE PrintPrompt
    <3>1. /\ mode = "prompt" /\ piece < 3 /\ piece' = piece + 1 /\ mode' = mode
          /\ fb' = puts(fb, Prompt[piece + 1])
      BY <2>2 DEF PrintPrompt
    <3>2. /\ piece \in 0 .. 2 /\ fb.row < ROW - 1 /\ fb.col = Printed(piece)
          /\ Shows(fb, PromptCells, fb.col)
      BY <1>1, <3>1 DEF EchoInv
    <3>3. ~(fb.row >= ROW - 1)
      BY <1>1, <3>2 DEF Rows
    <3>4. fb' = FoldLeft(putchar, fb, Prompt[piece + 1])
      BY <3>1, <3>3 DEF puts
    <3> QED
      BY <1>1, <3>1, <3>2, <3>4
  <2> QED
    BY <2>1, <2>2
<1>3. fb'.row < ROW - 1 /\ fb'.col = Printed(n + 1) /\ Shows(fb', PromptCells, fb'.col)
  BY <1>2, PutPrompt
<1>4. n + 1 \in 1 .. 3
  OBVIOUS
<1> QED
  BY <1>2, <1>3, <1>4 DEF EchoInv

\* The line begins empty behind the prompt.
LEMMA EchoBegins ==
  ASSUME ConsoleInv, OrderlyInv, EchoInv, BeginRead
  PROVE  EchoInv'
<1>1. /\ mode = "prompt" /\ piece = 3 /\ start_col' = StartCol /\ mode' = "wait"
      /\ UNCHANGED <<fb, buffer, index>> /\ index = 0
  BY DEF BeginRead, OrderlyInv
<1>2. fb.row < ROW - 1 /\ fb.col = StartCol /\ Shows(fb, PromptCells, StartCol)
  BY <1>1 DEF EchoInv, Printed
<1>3. buffer \in [Indices -> KeyChars \cup {BLANK, NUL}] /\ 0 \in 0 .. KEYBOARD_BUFFER_SIZE
      /\ StartCol \in Nat /\ COLUMN \in Nat
  BY ShortLines, ConsoleAssumption, ScreenAssumption DEF ConsoleInv, TypeOK
<1>4. Shows(fb, Shown(buffer, 0), StartCol)
  <2>1. \A i \in 1 .. StartCol : Shown(buffer, 0)[i] = PromptCells[i]
    BY <1>3, LineShown
  <2> QED
    BY <1>2, <1>3, <2>1, ShowsSame DEF Shows
<1>5. 0 * COLUMN + fb.col = StartCol + 0 /\ StartCol + 0 = StartCol /\ 0 \in Nat
  BY <1>2, <1>3
<1> QED
  BY <1>1, <1>2, <1>4, <1>5 DEF EchoInv

\* Every step keeps what the screen shows.
LEMMA EchoSteps ==
  ASSUME Orderly, StartCol < COLUMN, ConsoleInv, OrderlyInv, EchoInv, ConsoleInv', [Next]_vars
  PROVE  EchoInv'
<1>1. CASE \/ UNCHANGED vars \/ \E k \in Keys : Press(k)
  <2>1. UNCHANGED <<fb, input_on, start_col, index, buffer, piece, mode>>
    BY <1>1 DEF vars, Press, driver, shell
  <2> QED
    BY <2>1 DEF EchoInv
<1>2. CASE \/ PutChar(BLANK) \/ Clear \/ (\E s \in Texts : PutString(s))
           \/ keyboard_state_activate \/ EndRead
  <2>1. mode' \in {"boot", "command"}
    BY <1>2 DEF PutChar, Clear, PutString, keyboard_state_activate, EndRead
  <2> QED
    BY <2>1 DEF EchoInv
<1>3. CASE CopyLine
  <2>1. mode' = "copied"
    BY <1>3 DEF CopyLine
  <2> QED
    BY <2>1 DEF EchoInv
<1> QED
  BY <1>1, <1>2, <1>3, EchoHandler, EchoPrompt, EchoBegins DEF Next, ReadLine

\* While a line is read the screen before the cursor shows the prompt and the
\* line as the buffer holds it, with a user who waits for the prompt and a
\* prompt shorter than a row.
THEOREM EchoAlwaysMatches ==
  ASSUME Orderly, StartCol < COLUMN
  PROVE  Spec => []EchoMatches
<1>1. ASSUME ConsoleInv, OrderlyInv, [Next]_vars PROVE OrderlyInv'
  BY <1>1, OrderlySteps, Orderly
<1>2. ASSUME ConsoleInv, OrderlyInv, EchoInv, ConsoleInv', [Next]_vars PROVE EchoInv'
  BY <1>2, EchoSteps, Orderly
<1>3. Init => EchoInv
  BY DEF Init, EchoInv
<1>4. ConsoleInv /\ EchoInv => EchoMatches
  <2>1. SUFFICES ASSUME ConsoleInv, EchoInv, mode = "wait", input_on,
                        NEW n \in 1 .. Len(PromptCells \o Typed), Place(fb, n) >= 0
                 PROVE  CellBefore(fb, n)
                          = (PromptCells \o Typed)[Len(PromptCells \o Typed) - n + 1]
    BY DEF EchoMatches
  <2>2. PromptCells \o Typed = Shown(buffer, index)
    BY DEF Shown, Typed
  <2>3. Len(Shown(buffer, index)) = StartCol + index
    BY <2>1, LineShown DEF ConsoleInv, TypeOK
  <2>4. Shows(fb, Shown(buffer, index), StartCol + index)
    BY <2>1 DEF EchoInv
  <2>5. Place(fb, n) = (fb.row * COLUMN + fb.col) - n
    <3>1. fb.row \in Nat /\ fb.col \in Nat /\ COLUMN \in Nat
      BY <2>1, ScreenAssumption DEF ConsoleInv, TypeOK, Screen, Rows, Columns
    <3>2. fb.row * COLUMN \in Nat /\ n \in Int
      BY <3>1
    <3>3. \A x \in Nat : x + (fb.col - n) = (x + fb.col) - n
      BY <3>1, <3>2
    <3> QED
      BY <3>2, <3>3 DEF Place
  <2> QED
    BY <2>1, <2>2, <2>3, <2>4, <2>5 DEF Shows, ShowsAt, CellBefore
<1>5. Spec => [](ConsoleInv /\ OrderlyInv /\ EchoInv)
  BY <1>1, <1>2, <1>3, OrderlyStarts, ConsoleInductive, PTL DEF Spec
<1> QED
  BY <1>4, <1>5, PTL

-----------------------------------------------------------------------------
(***************************************************************************)
(* The parser.                                                             *)
(***************************************************************************)
\* Some numbers have a least one.
LEMMA LeastOf ==
  ASSUME NEW n \in Nat, NEW Q, Q \subseteq 0 .. n, Q # {}
  PROVE  \E e \in Q : \A j \in Q : e <= j
<1> DEFINE T == {(n + 1) - j : j \in Q}
<1>1. n + 1 \in Nat /\ T \subseteq 1 .. n + 1 /\ T # {}
  <2>1. \A j \in Q : (n + 1) - j \in 1 .. n + 1
    OBVIOUS
  <2>2. \E x \in Q : (n + 1) - x \in T
    OBVIOUS
  <2> QED
    BY <2>1, <2>2
<1>2. Max(T) \in T /\ \A t \in T : t <= Max(T)
  <2> HIDE DEF T
  <2> QED
    BY <1>1, LastOf
<1>3. PICK e \in Q : Max(T) = (n + 1) - e
  BY <1>2
<1>4. ASSUME NEW j \in Q PROVE e <= j
  <2>1. (n + 1) - j <= (n + 1) - e
    BY <1>2, <1>3
  <2> QED
    BY <2>1
<1> QED
  BY <1>4

\* Induction from n down to 0, for the numbers of a set.
LEMMA Downward ==
  ASSUME NEW n \in Nat, NEW P,
         \A k \in 0 .. n : (\A j \in k + 1 .. n : j \in P) => k \in P
  PROVE  0 .. n \subseteq P
<1> DEFINE T == {j + 1 : j \in (0 .. n) \ P}
<1>1. SUFFICES ASSUME T # {} PROVE FALSE
  OBVIOUS
<1>2. n + 1 \in Nat /\ T \subseteq 1 .. n + 1
  OBVIOUS
<1>3. Max(T) \in T /\ \A t \in T : t <= Max(T)
  <2> HIDE DEF T
  <2> QED
    BY <1>1, <1>2, LastOf
<1>4. PICK k \in (0 .. n) \ P : Max(T) = k + 1
  BY <1>3
<1>5. ASSUME NEW j \in k + 1 .. n, j \notin P PROVE FALSE
  <2>1. j \in 0 .. n /\ j > k /\ k \in Nat /\ j \in Nat
    OBVIOUS
  <2>2. j + 1 \in T
    BY <1>5, <2>1
  <2>3. j + 1 <= k + 1
    BY <1>3, <1>4, <2>2
  <2> QED
    BY <2>1, <2>3
<1> QED
  BY <1>4, <1>5

\* The line ends at n, and inputparse reads characters only before that.
Ends(line, n) ==
  /\ n \in 0 .. KEYBOARD_BUFFER_SIZE
  /\ \A i \in 0 .. KEYBOARD_BUFFER_SIZE + 1 : CharAt(line, i) = NUL <=> i >= n

\* A buffer whose first NUL is not followed by characters has an end.
LEMMA LineEnds ==
  ASSUME NEW line, Whole(line, 0)
  PROVE  \E n : Ends(line, n) /\ String(line) = [i \in 1 .. n |-> line[i - 1]]
<1>1. PICK n \in 0 .. KEYBOARD_BUFFER_SIZE :
        /\ String(line) = [i \in 1 .. n |-> line[i - 1]]
        /\ \A i \in 1 .. n : line[i - 1] # NUL
        /\ n \in Indices => line[n] = NUL
  BY StringIs
<1>2. KEYBOARD_BUFFER_SIZE \in Nat
  BY ShortLines
<1>3. ASSUME NEW i \in 0 .. KEYBOARD_BUFFER_SIZE + 1 PROVE CharAt(line, i) = NUL <=> i >= n
  <2>1. CASE i < n
    <3>1. i \in Indices /\ i + 1 \in 1 .. n /\ (i + 1) - 1 = i
      BY <1>2, <2>1 DEF Indices
    <3>2. line[i] # NUL
      BY <1>1, <3>1
    <3> QED
      BY <2>1, <3>1, <3>2 DEF CharAt
  <2>2. CASE i >= n /\ i \in Indices
    <3>1. n \in Indices /\ (n = i \/ n < i)
      BY <1>2, <2>2 DEF Indices
    <3>2. line[i] = NUL
      BY <1>1, <2>2, <3>1 DEF Whole
    <3> QED
      BY <2>2, <3>2 DEF CharAt
  <2>3. CASE i >= n /\ i \notin Indices
    BY <2>3 DEF CharAt
  <2> QED
    BY <1>2, <2>1, <2>2, <2>3
<1> QED
  BY <1>1, <1>3 DEF Ends

\* The first position that holds one of the characters, if there is one.
LEMMA FirstIs ==
  ASSUME NEW line, NEW i \in 0 .. KEYBOARD_BUFFER_SIZE, NEW chars,
         \E e \in i .. KEYBOARD_BUFFER_SIZE : CharAt(line, e) \in chars
  PROVE  /\ FirstFrom(line, i, chars) \in i .. KEYBOARD_BUFFER_SIZE
         /\ CharAt(line, FirstFrom(line, i, chars)) \in chars
         /\ \A j \in i .. FirstFrom(line, i, chars) - 1 : CharAt(line, j) \notin chars
<1> DEFINE Q == {e \in i .. KEYBOARD_BUFFER_SIZE : CharAt(line, e) \in chars}
<1>1. KEYBOARD_BUFFER_SIZE \in Nat /\ Q \subseteq 0 .. KEYBOARD_BUFFER_SIZE /\ Q # {}
  BY ShortLines
<1>2. PICK e \in Q : \A j \in Q : e <= j
  <2> HIDE DEF Q
  <2> QED
    BY <1>1, LeastOf
<1>3. ASSUME NEW j \in i .. e - 1 PROVE CharAt(line, j) \notin chars
  <2>1. j \in i .. KEYBOARD_BUFFER_SIZE /\ ~(e <= j)
    BY <1>1
  <2> QED
    BY <1>2, <2>1
<1>4. \E x \in i .. KEYBOARD_BUFFER_SIZE :
        CharAt(line, x) \in chars /\ \A j \in i .. x - 1 : CharAt(line, j) \notin chars
  BY <1>2, <1>3
<1> QED
  BY <1>4 DEF FirstFrom

\* A turn that begins at i stops at a blank or at the end.
Stop(line, i) == FirstFrom(line, i, {BLANK, NUL})

LEMMA Stops ==
  ASSUME NEW line, NEW n, Ends(line, n), NEW i \in 0 .. n
  PROVE  /\ Stop(line, i) \in i .. n
         /\ Stop(line, i) = n \/ CharAt(line, Stop(line, i)) = BLANK
         /\ \A j \in i .. Stop(line, i) - 1 : CharAt(line, j) # BLANK
<1> DEFINE e == Stop(line, i)
<1>1. /\ KEYBOARD_BUFFER_SIZE \in Nat /\ n \in 0 .. KEYBOARD_BUFFER_SIZE
      /\ i \in 0 .. KEYBOARD_BUFFER_SIZE /\ n \in i .. KEYBOARD_BUFFER_SIZE
  BY ShortLines DEF Ends
<1>2. \A j \in 0 .. KEYBOARD_BUFFER_SIZE : CharAt(line, j) = NUL <=> j >= n
  BY <1>1 DEF Ends
<1>3. /\ e \in i .. KEYBOARD_BUFFER_SIZE /\ CharAt(line, e) \in {BLANK, NUL}
      /\ \A j \in i .. e - 1 : CharAt(line, j) \notin {BLANK, NUL}
  <2>1. CharAt(line, n) \in {BLANK, NUL}
    BY <1>1, <1>2
  <2> QED
    BY <1>1, <2>1, FirstIs DEF Stop
<1> HIDE DEF e
<1>4. e <= n
  <2>1. SUFFICES ASSUME e > n PROVE FALSE
    BY <1>1, <1>3
  <2>2. n \in i .. e - 1 /\ CharAt(line, n) = NUL
    BY <1>1, <1>2, <1>3, <2>1
  <2> QED
    BY <1>3, <2>2
<1>5. e = n \/ CharAt(line, e) = BLANK
  BY <1>1, <1>2, <1>3, <1>4
<1>6. e \in i .. n /\ \A j \in i .. e - 1 : CharAt(line, j) # BLANK
  BY <1>1, <1>3, <1>4
<1> QED
  BY <1>5, <1>6 DEF e

\* Before the first word there are only blanks.
LEMMA FirstWord ==
  ASSUME NEW line \in [Indices -> KeyChars \cup {BLANK, NUL}], NEW n, Ends(line, n)
  PROVE  /\ FirstWordAt(line) \in 0 .. n
         /\ FirstWordAt(line) = n \/ CharAt(line, FirstWordAt(line)) # BLANK
         /\ \A j \in 0 .. FirstWordAt(line) - 1 : CharAt(line, j) = BLANK
<1> DEFINE chars == ({NUL} \cup KeyChars) \ {BLANK}
           F == FirstWordAt(line)
<1>1. /\ KEYBOARD_BUFFER_SIZE \in Nat /\ n \in 0 .. KEYBOARD_BUFFER_SIZE
      /\ 0 \in 0 .. KEYBOARD_BUFFER_SIZE
  BY ShortLines DEF Ends
<1>2. \A j \in 0 .. KEYBOARD_BUFFER_SIZE : CharAt(line, j) = NUL <=> j >= n
  BY <1>1 DEF Ends
<1>3. \A j : CharAt(line, j) \in chars <=> CharAt(line, j) # BLANK
  BY ScreenFacts DEF CharAt
<1>4. /\ F \in 0 .. KEYBOARD_BUFFER_SIZE /\ CharAt(line, F) # BLANK
      /\ \A j \in 0 .. F - 1 : CharAt(line, j) = BLANK
  <2>1. CharAt(line, n) \in chars
    BY <1>1, <1>2, ScreenFacts
  <2> HIDE DEF chars
  <2>2. /\ FirstFrom(line, 0, chars) \in 0 .. KEYBOARD_BUFFER_SIZE
        /\ CharAt(line, FirstFrom(line, 0, chars)) \in chars
        /\ \A j \in 0 .. FirstFrom(line, 0, chars) - 1 : CharAt(line, j) \notin chars
    BY <1>1, <2>1, FirstIs
  <2>3. F = FirstFrom(line, 0, chars)
    BY DEF FirstWordAt, chars
  <2> QED
    BY <1>3, <2>2, <2>3
<1> HIDE DEF F
<1>5. F <= n
  <2>1. SUFFICES ASSUME F > n PROVE FALSE
    BY <1>1, <1>4
  <2>2. n \in 0 .. F - 1 /\ CharAt(line, n) = NUL
    BY <1>1, <1>2, <1>4, <2>1
  <2> QED
    BY <1>4, <2>2, ScreenFacts
<1> QED
  BY <1>1, <1>4, <1>5 DEF F

\* inputparse's loop as a function of where a turn begins.
Turns(line, f) ==
  \A k \in 0 .. KEYBOARD_BUFFER_SIZE + 1 :
    f[k] = IF CharAt(line, k) = NUL THEN <<>>
           ELSE <<<<k, Stop(line, k)>>>> \o f[Stop(line, k) + 1]

\* There is such a function: a turn begins behind the one before.
LEMMA CutsAre ==
  ASSUME NEW line, NEW n, Ends(line, n)
  PROVE  \E f : Turns(line, f) /\ Cuts(line) = f[FirstWordAt(line)]
<1> DEFINE M == KEYBOARD_BUFFER_SIZE + 1
           From(g, k) == g = [i \in k .. M |->
                                IF CharAt(line, i) = NUL THEN <<>>
                                ELSE LET e == FirstFrom(line, i, {BLANK, NUL})
                                     IN  <<<<i, e>>>> \o g[e + 1]]
           P == {k \in 0 .. M : \E g : From(g, k)}
<1>1. /\ M \in Nat /\ n \in 0 .. M - 1
      /\ \A i \in 0 .. M : CharAt(line, i) = NUL <=> i >= n
  BY ShortLines DEF Ends
<1>2. ASSUME NEW i \in 0 .. M, CharAt(line, i) # NUL
      PROVE  FirstFrom(line, i, {BLANK, NUL}) + 1 \in i + 1 .. M
  <2>1. i \in 0 .. n
    BY <1>1, <1>2
  <2>2. Stop(line, i) \in i .. n
    BY <2>1, Stops
  <2> QED
    BY <1>1, <2>2 DEF Stop
<1>3. ASSUME NEW k \in 0 .. M, \A j \in k + 1 .. M : j \in P PROVE k \in P
  <2>1. CASE k = M
    <3> DEFINE h == [i \in M .. M |-> <<>>]
    <3>1. From(h, M)
      <4>1. \A i \in M .. M : CharAt(line, i) = NUL
        BY <1>1
      <4> QED
        BY <4>1
    <3> QED
      BY <2>1, <3>1
  <2>2. CASE k # M
    <3>1. k + 1 \in k + 1 .. M
      BY <1>1, <2>2
    <3>2. PICK g : From(g, k + 1)
      BY <1>3, <3>1
    <3> DEFINE h == [i \in k .. M |-> IF i = k THEN IF CharAt(line, i) = NUL THEN <<>>
                                                    ELSE <<<<i, FirstFrom(line, i, {BLANK, NUL})>>>>
                                                           \o g[FirstFrom(line, i, {BLANK, NUL}) + 1]
                                      ELSE g[i]]
    <3>3. \A i \in k + 1 .. M : i \in k .. M /\ i # k /\ h[i] = g[i]
      BY <1>1
    <3>4. ASSUME NEW i \in k .. M
          PROVE  h[i] = IF CharAt(line, i) = NUL THEN <<>>
                        ELSE <<<<i, FirstFrom(line, i, {BLANK, NUL})>>>>
                               \o h[FirstFrom(line, i, {BLANK, NUL}) + 1]
      <4>1. i \in 0 .. M /\ (i # k => i \in k + 1 .. M)
        BY <1>1
      <4>2. CharAt(line, i) # NUL => FirstFrom(line, i, {BLANK, NUL}) + 1 \in k + 1 .. M
        BY <1>1, <1>2, <4>1
      <4>3. h[i] = IF CharAt(line, i) = NUL THEN <<>>
                   ELSE <<<<i, FirstFrom(line, i, {BLANK, NUL})>>>>
                          \o g[FirstFrom(line, i, {BLANK, NUL}) + 1]
        BY <3>2, <4>1
      <4> HIDE DEF h
      <4> QED
        BY <3>3, <4>2, <4>3
    <3>5. From(h, k)
      <4>1. h = [i \in k .. M |-> h[i]]
        OBVIOUS
      <4> HIDE DEF h
      <4> QED
        BY <3>4, <4>1
    <3> QED
      BY <3>5
  <2> QED
    BY <2>1, <2>2
<1>4. 0 \in P
  <2>1. 0 \in 0 .. M
    BY <1>1
  <2> HIDE DEF P, M
  <2> QED
    BY <1>1, <1>3, <2>1, Downward
<1>5. PICK f : From(f, 0) /\ Cuts(line) = f[FirstWordAt(line)]
  BY <1>4 DEF Cuts
<1> QED
  BY <1>5 DEF Turns, Stop

\* What the turns from k on cut off: the cuts lie between k and the end, in
\* order; each begins at k or behind a blank, has no blank in it, and stops at a
\* blank or the end; and every character from k on is in one.
Apart(line, n, k, c) ==
  /\ c \in Seq(Nat \X Nat)
  /\ \A a \in 1 .. Len(c) : k <= c[a][1] /\ c[a][1] <= c[a][2] /\ c[a][2] <= n /\ c[a][1] < n
  /\ \A a, b \in 1 .. Len(c) : a < b => c[a][2] < c[b][1]
  /\ c # <<>> => c[1][1] = k

Whence(line, n, k, c) ==
  \A a \in 1 .. Len(c) :
    /\ \A p \in c[a][1] .. c[a][2] - 1 : CharAt(line, p) # BLANK
    /\ c[a][1] = k \/ CharAt(line, c[a][1] - 1) = BLANK
    /\ c[a][2] = n \/ CharAt(line, c[a][2]) = BLANK

Covered(line, n, k, c) ==
  /\ \A p \in k .. n - 1 :
       CharAt(line, p) # BLANK => \E a \in 1 .. Len(c) : c[a][1] <= p /\ p < c[a][2]
  /\ k < n => c # <<>>

Good(line, n, k, c) == Apart(line, n, k, c) /\ Whence(line, n, k, c) /\ Covered(line, n, k, c)

\* A turn before them keeps it so.
LEMMA TurnBefore ==
  ASSUME NEW line, NEW n, Ends(line, n), NEW k \in 0 .. n - 1, NEW r,
         Good(line, n, Stop(line, k) + 1, r)
  PROVE  Good(line, n, k, <<<<k, Stop(line, k)>>>> \o r)
<1> DEFINE e == Stop(line, k)
           c == <<<<k, e>>>> \o r
<1>1. /\ n \in Nat /\ k \in Nat /\ k < n /\ e \in Nat /\ k <= e /\ e <= n
      /\ e = n \/ CharAt(line, e) = BLANK
      /\ \A j \in k .. e - 1 : CharAt(line, j) # BLANK
  <2>1. n \in Nat /\ k \in 0 .. n
    BY ShortLines DEF Ends
  <2>2. /\ e \in k .. n /\ (e = n \/ CharAt(line, e) = BLANK)
        /\ \A j \in k .. e - 1 : CharAt(line, j) # BLANK
    BY <2>1, Stops
  <2> HIDE DEF e
  <2> QED
    BY <2>1, <2>2
<1> HIDE DEF e
<1>2. r \in Seq(Nat \X Nat) /\ Len(r) \in Nat
  BY DEF Good, Apart
<1>3. /\ c \in Seq(Nat \X Nat) /\ Len(c) = Len(r) + 1 /\ c[1] = <<k, e>>
      /\ \A a \in 2 .. Len(c) : c[a] = r[a - 1]
  <2>1. <<<<k, e>>>> \in Seq(Nat \X Nat) /\ Len(<<<<k, e>>>>) = 1 /\ <<<<k, e>>>>[1] = <<k, e>>
    BY <1>1
  <2> HIDE DEF c
  <2> QED
    BY <1>2, <2>1, ConcatProperties DEF c
<1> HIDE DEF c
<1>4. ASSUME NEW a \in 1 .. Len(c), a # 1
      PROVE  a - 1 \in 1 .. Len(r) /\ c[a] = r[a - 1]
  <2>1. Len(r) \in Nat /\ Len(c) = Len(r) + 1
    BY <1>2, <1>3
  <2>2. a - 1 \in 1 .. Len(r) /\ a \in 2 .. Len(c)
    BY <1>4, <2>1
  <2> QED
    BY <1>3, <2>2
<1>5. ASSUME NEW a \in 1 .. Len(r) PROVE a + 1 \in 1 .. Len(c) /\ c[a + 1] = r[a]
  <2>1. Len(r) \in Nat /\ Len(c) = Len(r) + 1
    BY <1>2, <1>3
  <2>2. a + 1 \in 2 .. Len(c) /\ a + 1 \in 1 .. Len(c) /\ (a + 1) - 1 = a
    BY <2>1
  <2>3. c[a + 1] = r[(a + 1) - 1]
    BY <1>3, <2>2
  <2> QED
    BY <2>2, <2>3
<1>6. \A a \in 1 .. Len(r) : /\ r[a][1] \in Nat /\ r[a][2] \in Nat
                             /\ e + 1 <= r[a][1] /\ r[a][1] <= r[a][2]
                             /\ r[a][2] <= n /\ r[a][1] < n
  <2>1. \A a \in 1 .. Len(r) : r[a] \in Nat \X Nat
    BY <1>2
  <2> QED
    BY <1>1, <2>1 DEF Good, Apart, e
<1>7. Apart(line, n, k, c)
  <2>1. ASSUME NEW a \in 1 .. Len(c)
        PROVE  k <= c[a][1] /\ c[a][1] <= c[a][2] /\ c[a][2] <= n /\ c[a][1] < n
    <3>1. CASE a = 1
      BY <1>1, <1>3, <3>1
    <3>2. CASE a # 1
      <4>1. a - 1 \in 1 .. Len(r) /\ c[a] = r[a - 1]
        BY <1>4, <3>2
      <4>2. /\ c[a][1] \in Nat /\ c[a][2] \in Nat /\ e + 1 <= c[a][1]
            /\ c[a][1] <= c[a][2] /\ c[a][2] <= n /\ c[a][1] < n
        BY <1>6, <4>1
      <4> QED
        BY <1>1, <4>2
    <3> QED
      BY <3>1, <3>2
  <2>2. ASSUME NEW a \in 1 .. Len(c), NEW b \in 1 .. Len(c), a < b PROVE c[a][2] < c[b][1]
    <3>1. b # 1 /\ b - 1 \in 1 .. Len(r) /\ c[b] = r[b - 1]
      BY <1>4, <2>2
    <3>2. CASE a = 1
      <4>1. c[a][2] = e
        BY <1>3, <3>2
      <4>2. c[b][1] \in Nat /\ e + 1 <= c[b][1]
        BY <1>6, <3>1
      <4> QED
        BY <1>1, <4>1, <4>2
    <3>3. CASE a # 1
      <4>1. a - 1 \in 1 .. Len(r) /\ c[a] = r[a - 1]
        BY <1>4, <3>3
      <4>2. a - 1 < b - 1
        <5>1. a \in Int /\ b \in Int
          OBVIOUS
        <5> QED
          BY <2>2, <5>1
      <4>3. \A x, y \in 1 .. Len(r) : x < y => r[x][2] < r[y][1]
        BY DEF Good, Apart
      <4> QED
        BY <3>1, <4>1, <4>2, <4>3
    <3> QED
      BY <3>2, <3>3
  <2>3. c \in Seq(Nat \X Nat) /\ c[1][1] = k
    BY <1>3
  <2> QED
    BY <2>1, <2>2, <2>3 DEF Apart
<1>8. Whence(line, n, k, c)
  <2>1. SUFFICES ASSUME NEW a \in 1 .. Len(c)
                 PROVE  /\ \A p \in c[a][1] .. c[a][2] - 1 : CharAt(line, p) # BLANK
                        /\ c[a][1] = k \/ CharAt(line, c[a][1] - 1) = BLANK
                        /\ c[a][2] = n \/ CharAt(line, c[a][2]) = BLANK
    BY DEF Whence
  <2>2. CASE a = 1
    BY <1>1, <1>3, <2>2
  <2>3. CASE a # 1
    <3>1. a - 1 \in 1 .. Len(r) /\ c[a] = r[a - 1]
      BY <1>4, <2>3
    <3>2. /\ \A p \in c[a][1] .. c[a][2] - 1 : CharAt(line, p) # BLANK
          /\ c[a][1] = e + 1 \/ CharAt(line, c[a][1] - 1) = BLANK
          /\ c[a][2] = n \/ CharAt(line, c[a][2]) = BLANK
      BY <3>1 DEF Good, Whence, e
    <3>3. c[a][1] = e + 1 => c[a][1] - 1 = e /\ e # n
      BY <1>1, <1>6, <3>1
    <3> QED
      BY <1>1, <3>2, <3>3
  <2> QED
    BY <2>2, <2>3
<1>9. Covered(line, n, k, c)
  <2>1. ASSUME NEW p \in k .. n - 1, CharAt(line, p) # BLANK
        PROVE  \E a \in 1 .. Len(c) : c[a][1] <= p /\ p < c[a][2]
    <3>1. p # e
      BY <1>1, <2>1
    <3>2. CASE p < e
      <4>1. 1 \in 1 .. Len(c) /\ c[1][1] <= p /\ p < c[1][2]
        BY <1>2, <1>3, <3>2
      <4> QED
        BY <4>1
    <3>3. CASE p > e
      <4>1. p \in e + 1 .. n - 1
        BY <1>1, <3>3
      <4>2. PICK a \in 1 .. Len(r) : r[a][1] <= p /\ p < r[a][2]
        BY <2>1, <4>1 DEF Good, Covered, e
      <4> QED
        BY <1>5, <4>2
    <3> QED
      BY <1>1, <3>1, <3>2, <3>3
  <2>2. c # <<>>
    BY <1>2, <1>3
  <2> QED
    BY <2>1, <2>2 DEF Covered
<1> QED
  BY <1>7, <1>8, <1>9 DEF Good, c, e

\* So it is for the turns from every position.
LEMMA CutsFrom ==
  ASSUME NEW line, NEW n, Ends(line, n), NEW f, Turns(line, f)
  PROVE  \A k \in 0 .. KEYBOARD_BUFFER_SIZE + 1 : Good(line, n, k, f[k])
<1> DEFINE M == KEYBOARD_BUFFER_SIZE + 1
           P == {k \in 0 .. M : Good(line, n, k, f[k])}
<1>1. /\ M \in Nat /\ n \in 0 .. M - 1
      /\ \A i \in 0 .. M : CharAt(line, i) = NUL <=> i >= n
  BY ShortLines DEF Ends
<1>2. ASSUME NEW k \in 0 .. M, \A j \in k + 1 .. M : j \in P PROVE Good(line, n, k, f[k])
  <2>1. CASE k >= n
    <3>1. f[k] = <<>>
      BY <1>1, <2>1 DEF Turns
    <3>2. <<>> \in Seq(Nat \X Nat) /\ 1 .. Len(<<>>) = {} /\ k .. n - 1 = {} /\ ~(k < n)
      BY <1>1, <2>1
    <3> QED
      BY <3>1, <3>2 DEF Good, Apart, Whence, Covered
  <2>2. CASE k < n
    <3>1. f[k] = <<<<k, Stop(line, k)>>>> \o f[Stop(line, k) + 1]
      <4>1. CharAt(line, k) # NUL
        BY <1>1, <2>2
      <4> QED
        BY <4>1 DEF Turns
    <3>2. k \in 0 .. n - 1 /\ k \in 0 .. n
      BY <1>1, <2>2
    <3>3. Stop(line, k) + 1 \in k + 1 .. M
      <4>1. Stop(line, k) \in k .. n
        BY <3>2, Stops
      <4> QED
        BY <1>1, <4>1
    <3>4. Good(line, n, Stop(line, k) + 1, f[Stop(line, k) + 1])
      BY <1>2, <3>3
    <3> QED
      BY <3>1, <3>2, <3>4, TurnBefore
  <2> QED
    BY <1>1, <2>1, <2>2
<1>3. 0 .. M \subseteq P
  <2>1. \A k \in 0 .. M : (\A j \in k + 1 .. M : j \in P) => k \in P
    BY <1>2
  <2> HIDE DEF P, M
  <2> QED
    BY <1>1, <2>1, Downward
<1> QED
  BY <1>3

\* A word, by the characters of the line.
IsWord(line, n, w) ==
  /\ w[1] < w[2] /\ \A p \in w[1] .. w[2] - 1 : CharAt(line, p) # BLANK
  /\ w[1] = 0 \/ CharAt(line, w[1] - 1) = BLANK
  /\ w[2] = n \/ CharAt(line, w[2]) = BLANK

LEMMA WordsAre ==
  ASSUME NEW line, NEW n, Ends(line, n), String(line) = [i \in 1 .. n |-> line[i - 1]]
  PROVE  Words(line) = {w \in (0 .. n) \X (0 .. n) : IsWord(line, n, w)}
<1> DEFINE s == [i \in 1 .. n |-> line[i - 1]]
<1>1. n \in Nat /\ n <= KEYBOARD_BUFFER_SIZE /\ KEYBOARD_BUFFER_SIZE \in Nat
  BY ShortLines DEF Ends
<1>2. Len(s) = n
  BY <1>1
<1>3. ASSUME NEW p \in 0 .. n - 1 PROVE p + 1 \in 1 .. n /\ s[p + 1] = CharAt(line, p)
  <2>1. p + 1 \in 1 .. n /\ (p + 1) - 1 = p /\ p \in Indices
    BY <1>1 DEF Indices
  <2> QED
    BY <2>1 DEF CharAt
<1> HIDE DEF s
<1>4. ASSUME NEW w \in (0 .. n) \X (0 .. n)
      PROVE  (/\ w[1] < w[2] /\ \A i \in w[1] + 1 .. w[2] : s[i] # BLANK
              /\ w[1] = 0 \/ s[w[1]] = BLANK
              /\ w[2] = n \/ s[w[2] + 1] = BLANK) <=> IsWord(line, n, w)
  <2>1. PICK x \in 0 .. n, y \in 0 .. n : w[1] = x /\ w[2] = y
    OBVIOUS
  <2>2. (\A i \in x + 1 .. y : s[i] # BLANK) <=> \A p \in x .. y - 1 : CharAt(line, p) # BLANK
    <3>1. ASSUME \A i \in x + 1 .. y : s[i] # BLANK, NEW p \in x .. y - 1
          PROVE  CharAt(line, p) # BLANK
      <4>1. p \in 0 .. n - 1 /\ p + 1 \in x + 1 .. y
        BY <1>1
      <4> QED
        BY <1>3, <3>1, <4>1
    <3>2. ASSUME \A p \in x .. y - 1 : CharAt(line, p) # BLANK, NEW i \in x + 1 .. y
          PROVE  s[i] # BLANK
      <4>1. i - 1 \in 0 .. n - 1 /\ i - 1 \in x .. y - 1 /\ (i - 1) + 1 = i
        BY <1>1
      <4> QED
        BY <1>3, <3>2, <4>1
    <3> QED
      BY <3>1, <3>2
  <2>3. x # 0 => s[x] = CharAt(line, x - 1)
    <3>1. x # 0 => x - 1 \in 0 .. n - 1 /\ (x - 1) + 1 = x
      BY <1>1
    <3> QED
      BY <1>3, <3>1
  <2>4. y # n => s[y + 1] = CharAt(line, y)
    <3>1. y # n => y \in 0 .. n - 1
      BY <1>1
    <3> QED
      BY <1>3, <3>1
  <2> QED
    BY <2>1, <2>2, <2>3, <2>4 DEF IsWord
<1>5. Words(line) = {w \in (0 .. n) \X (0 .. n) :
                       /\ w[1] < w[2] /\ \A i \in w[1] + 1 .. w[2] : s[i] # BLANK
                       /\ w[1] = 0 \/ s[w[1]] = BLANK
                       /\ w[2] = n \/ s[w[2] + 1] = BLANK}
  BY <1>2 DEF Words, s
<1> QED
  BY <1>4, <1>5

\* The cuts that are not empty are the words.
LEMMA CutsAreWords ==
  ASSUME NEW line, NEW n, Ends(line, n), NEW k \in 0 .. n, NEW c, Good(line, n, k, c),
         k = n \/ CharAt(line, k) # BLANK, \A p \in 0 .. k - 1 : CharAt(line, p) = BLANK
  PROVE  /\ \A a \in 1 .. Len(c) : c[a][1] < c[a][2] =>
              c[a] \in (0 .. n) \X (0 .. n) /\ IsWord(line, n, c[a])
         /\ \A w \in (0 .. n) \X (0 .. n) : IsWord(line, n, w) =>
              \E a \in 1 .. Len(c) : c[a] = w
<1>1. n \in Nat /\ k \in Nat /\ k <= n
  BY ShortLines DEF Ends
<1> DEFINE IsCut(a, x, y) ==
             /\ c[a] = <<x, y>> /\ k <= x /\ x <= y /\ y <= n /\ x < n
             /\ \A p \in x .. y - 1 : CharAt(line, p) # BLANK
             /\ x = k \/ CharAt(line, x - 1) = BLANK
             /\ y = n \/ CharAt(line, y) = BLANK
<1>2. ASSUME NEW a \in 1 .. Len(c) PROVE \E x, y \in Nat : IsCut(a, x, y)
  <2>1. c[a] \in Nat \X Nat
    BY DEF Good, Apart
  <2>2. PICK x \in Nat, y \in Nat : c[a] = <<x, y>>
    BY <2>1
  <2>3. c[a][1] = x /\ c[a][2] = y
    BY <2>2
  <2>4. k <= x /\ x <= y /\ y <= n /\ x < n
    BY <2>3 DEF Good, Apart
  <2>5. /\ \A p \in c[a][1] .. c[a][2] - 1 : CharAt(line, p) # BLANK
        /\ c[a][1] = k \/ CharAt(line, c[a][1] - 1) = BLANK
        /\ c[a][2] = n \/ CharAt(line, c[a][2]) = BLANK
    BY DEF Good, Whence
  <2>6. IsCut(a, x, y)
    BY <2>2, <2>3, <2>4, <2>5
  <2> QED
    BY <2>6
<1>3. ASSUME NEW a \in 1 .. Len(c), c[a][1] < c[a][2]
      PROVE  c[a] \in (0 .. n) \X (0 .. n) /\ IsWord(line, n, c[a])
  <2>1. PICK x \in Nat, y \in Nat : IsCut(a, x, y)
    BY <1>2
  <2>2. x = 0 \/ CharAt(line, x - 1) = BLANK
    <3>1. x = k /\ x # 0 => x - 1 \in 0 .. k - 1
      BY <1>1
    <3> QED
      BY <2>1, <3>1
  <2>3. x < y /\ x \in 0 .. n /\ y \in 0 .. n
    BY <1>1, <1>3, <2>1
  <2> QED
    BY <2>1, <2>2, <2>3 DEF IsWord
<1>4. ASSUME NEW w \in (0 .. n) \X (0 .. n), IsWord(line, n, w)
      PROVE  \E a \in 1 .. Len(c) : c[a] = w
  <2>1. PICK u \in 0 .. n, v \in 0 .. n : w = <<u, v>>
    OBVIOUS
  <2>2. /\ u < v /\ \A p \in u .. v - 1 : CharAt(line, p) # BLANK
        /\ u = 0 \/ CharAt(line, u - 1) = BLANK
        /\ v = n \/ CharAt(line, v) = BLANK
    BY <1>4, <2>1 DEF IsWord
  <2>3. u \in u .. v - 1 /\ u \in k .. n - 1
    <3>1. u \in u .. v - 1 /\ u <= n - 1
      BY <1>1, <2>2
    <3>2. u >= k
      <4>1. u < k => u \in 0 .. k - 1
        BY <1>1
      <4> QED
        BY <1>1, <2>2, <3>1, <4>1
    <3> QED
      BY <1>1, <3>1, <3>2
  <2>4. PICK a \in 1 .. Len(c) : c[a][1] <= u /\ u < c[a][2]
    BY <2>2, <2>3 DEF Good, Covered
  <2>5. PICK x \in Nat, y \in Nat : IsCut(a, x, y)
    BY <1>2
  <2>6. x <= u /\ u < y
    BY <2>4, <2>5
  <2>7. x = u
    <3>1. x < u => u - 1 \in x .. y - 1 /\ u # 0
      BY <1>1, <2>6
    <3> QED
      BY <1>1, <2>2, <2>5, <2>6, <3>1
  <2>8. y = v
    <3>1. v < y => v \in x .. y - 1 /\ v # n
      BY <1>1, <2>2, <2>5, <2>7
    <3>2. y < v => y \in u .. v - 1 /\ y # n
      BY <1>1, <2>6
    <3> QED
      BY <1>1, <2>2, <2>5, <3>1, <3>2
  <2> QED
    BY <2>1, <2>5, <2>7, <2>8
<1> QED
  BY <1>3, <1>4

\* A row begins behind the last cell of the rows before.
LEMMA RowsApart ==
  ASSUME NEW a \in Nat \ {0}, NEW b \in Nat \ {0}, a < b
  PROVE  Cell(a, 0) \in Nat /\ Cell(b, 0) \in Nat /\ Cell(a, 0) + ARG_SIZE <= Cell(b, 0)
<1>1. PICK R \in Nat \ {0} : R = ARG_SIZE
  BY ArgsAssumption
<1>2. PICK d \in Nat : b = (a + 1) + d
  <2>1. (b - a) - 1 \in Nat /\ b = (a + 1) + ((b - a) - 1)
    OBVIOUS
  <2> QED
    BY <2>1
<1>3. PICK i \in Nat : i = a - 1
  OBVIOUS
<1>4. b - 1 = (i + 1) + d
  BY <1>2, <1>3
<1>5. ((i + 1) + d) * R = (i * R + R) + d * R
  OBVIOUS
<1>6. i * R \in Nat /\ d * R \in Nat
  OBVIOUS
<1>7. Cell(a, 0) = i * R /\ Cell(b, 0) = (i * R + R) + d * R
  <2>1. Cell(a, 0) = (a - 1) * R + 0 /\ Cell(b, 0) = (b - 1) * R + 0
    BY <1>1 DEF Cell
  <2>2. Cell(a, 0) = i * R + 0 /\ Cell(b, 0) = ((i + 1) + d) * R + 0
    BY <1>3, <1>4, <2>1
  <2> QED
    BY <1>5, <1>6, <2>2
<1> QED
  BY <1>1, <1>6, <1>7

\* Pairs of positions up to n.
CutsUpTo(c, n) ==
  /\ Len(c) \in Nat /\ DOMAIN c = 1 .. Len(c)
  /\ \A b \in 1 .. Len(c) : c[b] \in Nat \X Nat /\ c[b][1] <= c[b][2] /\ c[b][2] <= n

\* A word shorter than a row stays in its row as the turn wrote it: the turns
\* behind write rows behind.  So the command finds it there.
LEMMA ShortWord ==
  ASSUME NEW line, NEW n, Ends(line, n), Inside(line),
         NEW c, c = Cuts(line), NEW args, args = inputparse(line),
         CutsUpTo(c, n), NEW a \in 1 .. Len(c), c[a][2] - c[a][1] < ARG_SIZE
  PROVE  Argument(args, a) = [k \in 1 .. c[a][2] - c[a][1] |-> line[(c[a][1] + k) - 1]]
<1> DEFINE Value(b, e) == LET i == c[b][1] + (e - Cell(b, 0))
                          IN  IF i < c[b][2] THEN line[i] ELSE NUL
           Writers(e) == {b \in DOMAIN c : e \in Written(c, b)}
<1>1. args = [e \in UNION {Written(c, b) : b \in DOMAIN c} |-> Value(Max(Writers(e)), e)]
  BY DEF inputparse
<1> HIDE DEF Value, Writers
<1> USE DEF CutsUpTo
<1>2. n \in Nat /\ n <= KEYBOARD_BUFFER_SIZE /\ KEYBOARD_BUFFER_SIZE \in Nat
  BY ShortLines DEF Ends
<1>3. PICK x \in Nat, y \in Nat : c[a] = <<x, y>>
  <2>1. c[a] \in Nat \X Nat
    OBVIOUS
  <2> QED
    BY <2>1
<1>4. x <= y /\ y <= n /\ y - x < ARG_SIZE
  <2>1. c[a][1] = x /\ c[a][2] = y
    BY <1>3
  <2> QED
    BY <2>1
<1>5. ARG_SIZE \in Nat /\ y - x \in Nat
  BY <1>4, ArgsAssumption
<1>6. PICK r \in Nat : r = Cell(a, 0)
  <2>1. (a - 1) * ARG_SIZE \in Nat
    BY <1>4, <1>5
  <2> QED
    BY <2>1 DEF Cell
<1>7. ASSUME NEW k \in 0 .. y - x PROVE Cell(a, k) = r + k
  BY <1>4, <1>5, <1>6, <1>7 DEF Cell
<1>8. ASSUME NEW k \in 0 .. y - x
      PROVE  /\ r + k \in DOMAIN args
             /\ args[r + k] = IF x + k < y THEN line[x + k] ELSE NUL
  <2>1. r + k \in Written(c, a)
    <3>1. Written(c, a) = Cell(a, 0) .. Cell(a, y - x)
      BY <1>3 DEF Written
    <3>2. Cell(a, y - x) = r + (y - x)
      BY <1>5, <1>7
    <3> QED
      BY <1>5, <1>6, <1>8, <3>1, <3>2
  <2>2. a \in Writers(r + k) /\ Writers(r + k) \subseteq 1 .. Len(c)
    BY <2>1 DEF Writers
  <2>3. ASSUME NEW b \in Writers(r + k) PROVE b <= a
    <3>1. SUFFICES ASSUME a < b PROVE FALSE
      BY <1>4, <2>2
    <3>2. b \in Nat \ {0} /\ a \in Nat \ {0}
      BY <1>4, <2>2
    <3>3. Cell(b, 0) \in Nat /\ r + ARG_SIZE <= Cell(b, 0)
      BY <1>6, <3>1, <3>2, RowsApart
    <3>4. Cell(b, 0) <= r + k
      <4>1. b \in 1 .. Len(c) /\ c[b] \in Nat \X Nat /\ c[b][1] <= c[b][2] /\ r + k \in Written(c, b)
        BY <2>2 DEF Writers
      <4>2. PICK u \in Nat, v \in Nat : c[b] = <<u, v>>
        BY <4>1
      <4>3. r + k \in Cell(b, 0) .. Cell(b, v - u)
        BY <4>1, <4>2 DEF Written
      <4> QED
        BY <4>3
    <3> QED
      BY <1>4, <1>5, <1>8, <3>3, <3>4
  <2>4. Max(Writers(r + k)) = a
    <3> DEFINE W == Writers(r + k)
    <3>1. Max(W) \in W /\ a <= Max(W)
      <4> HIDE DEF W
      <4> QED
        BY <1>4, <2>2, LastOf DEF W
    <3>2. Max(W) <= a
      BY <2>3, <3>1
    <3>3. Max(W) \in Nat
      BY <2>2, <3>1
    <3>4. Max(W) = a
      <4> HIDE DEF W
      <4> QED
        BY <3>1, <3>2, <3>3
    <3> QED
      BY <3>4
  <2>5. r + k \in UNION {Written(c, b) : b \in DOMAIN c}
    BY <1>4, <2>1
  <2>6. r + k \in DOMAIN args /\ args[r + k] = Value(a, r + k)
    BY <1>1, <2>4, <2>5
  <2>7. x + ((r + k) - r) = x + k
    BY <1>8
  <2>8. Value(a, r + k) = IF x + k < y THEN line[x + k] ELSE NUL
    <3>1. c[a][1] = x /\ c[a][2] = y
      BY <1>3
    <3>2. Value(a, r + k) = LET i == x + ((r + k) - r) IN IF i < y THEN line[i] ELSE NUL
      BY <1>6, <3>1 DEF Value
    <3> QED
      BY <2>7, <3>2
  <2> QED
    BY <2>6, <2>8
<1>9. ASSUME NEW k \in Nat, k < y - x PROVE args[r + k] = line[x + k] /\ line[x + k] # NUL
  <2>1. k \in 0 .. y - x /\ x + k < y
    BY <1>5, <1>9
  <2>2. x + k \in Indices /\ x + k \in 0 .. KEYBOARD_BUFFER_SIZE + 1 /\ x + k < n
    BY <1>2, <1>4, <1>9 DEF Indices
  <2>3. CharAt(line, x + k) # NUL
    BY <1>2, <2>2 DEF Ends
  <2> QED
    BY <1>8, <2>1, <2>2, <2>3 DEF CharAt
<1>10. args[r + (y - x)] = NUL
  <2>1. y - x \in 0 .. y - x /\ ~(x + (y - x) < y)
    BY <1>5
  <2> QED
    BY <1>8, <2>1
<1>11. y - x \in ArgCells
  <2>1. r + (y - x) \in ArgCells
    <3>1. y - x \in 0 .. y - x
      BY <1>5
    <3> QED
      BY <1>8, <3>1 DEF Inside
  <2>2. ARG_COUNT * ARG_SIZE \in Nat
    BY ArgsAssumption
  <2> QED
    BY <1>5, <2>1, <2>2 DEF ArgCells
<1> DEFINE Len_(k) == /\ args[Cell(a, k)] = NUL
                      /\ \A j \in 0 .. k - 1 : args[Cell(a, j)] # NUL
<1>12. Len_(y - x)
  <2>1. args[Cell(a, y - x)] = NUL
    <3>1. y - x \in 0 .. y - x
      BY <1>5
    <3>2. Cell(a, y - x) = r + (y - x)
      BY <1>7, <3>1
    <3> QED
      BY <1>10, <3>2
  <2>2. ASSUME NEW j \in 0 .. (y - x) - 1 PROVE args[Cell(a, j)] # NUL
    <3>1. j \in Nat /\ j < y - x /\ j \in 0 .. y - x
      BY <1>5, <2>2
    <3>2. Cell(a, j) = r + j
      BY <1>7, <3>1
    <3> QED
      BY <1>9, <3>1, <3>2
  <2> QED
    BY <2>1, <2>2
<1>13. ASSUME NEW k \in ArgCells, Len_(k) PROVE k = y - x
  <2>1. k \in Nat
    BY DEF ArgCells
  <2>2. ~(k < y - x)
    <3>1. SUFFICES ASSUME k < y - x PROVE FALSE
      OBVIOUS
    <3>2. k \in 0 .. y - x
      BY <1>5, <2>1, <3>1
    <3>3. args[r + k] = NUL
      <4>1. Cell(a, k) = r + k
        BY <1>7, <3>2
      <4> QED
        BY <1>13, <4>1
    <3> QED
      BY <1>9, <2>1, <3>1, <3>3
  <2>3. ~(y - x < k)
    <3>1. SUFFICES ASSUME y - x < k PROVE FALSE
      OBVIOUS
    <3>2. y - x \in 0 .. k - 1
      BY <1>5, <2>1, <3>1
    <3> QED
      BY <1>12, <1>13, <3>2
  <2> QED
    BY <1>5, <2>1, <2>2, <2>3
<1>14. (CHOOSE k \in ArgCells : Len_(k)) = y - x
  <2> HIDE DEF Len_
  <2> QED
    BY <1>11, <1>12, <1>13
<1>15. Argument(args, a) = [k \in 1 .. y - x |-> args[Cell(a, k - 1)]]
  BY <1>14 DEF Argument
<1>16. ASSUME NEW k \in 1 .. y - x PROVE args[Cell(a, k - 1)] = line[(x + k) - 1]
  <2>1. k - 1 \in Nat /\ k - 1 < y - x /\ k - 1 \in 0 .. y - x /\ x + (k - 1) = (x + k) - 1
    BY <1>5, <1>16
  <2>2. Cell(a, k - 1) = r + (k - 1)
    BY <1>7, <2>1
  <2> QED
    BY <1>9, <2>1, <2>2
<1>17. [k \in 1 .. y - x |-> args[Cell(a, k - 1)]] = [k \in 1 .. y - x |-> line[(x + k) - 1]]
  BY <1>16
<1>18. c[a][1] = x /\ c[a][2] = y
  BY <1>3
<1> QED
  BY <1>15, <1>17, <1>18

\* The cuts of a buffer whose first NUL is not followed by characters.
LEMMA CutsOfLine ==
  ASSUME NEW line \in [Indices -> KeyChars \cup {BLANK, NUL}], Whole(line, 0)
  PROVE  \E n : /\ Ends(line, n) /\ String(line) = [i \in 1 .. n |-> line[i - 1]]
                /\ Good(line, n, FirstWordAt(line), Cuts(line))
                /\ CutsUpTo(Cuts(line), n)
<1>1. PICK n : Ends(line, n) /\ String(line) = [i \in 1 .. n |-> line[i - 1]]
  BY LineEnds
<1> DEFINE k == FirstWordAt(line)
           c == Cuts(line)
<1>2. Good(line, n, k, c)
  <2>1. PICK f : Turns(line, f) /\ c = f[k]
    BY <1>1, CutsAre
  <2>2. k \in 0 .. n
    BY <1>1, FirstWord
  <2>3. k \in 0 .. KEYBOARD_BUFFER_SIZE + 1
    <3>1. n \in 0 .. KEYBOARD_BUFFER_SIZE /\ KEYBOARD_BUFFER_SIZE \in Nat
      BY <1>1, ShortLines DEF Ends
    <3> HIDE DEF k
    <3> QED
      BY <2>2, <3>1
  <2>4. k = n \/ CharAt(line, k) # BLANK
    BY <1>1, FirstWord
  <2> QED
    BY <1>1, <2>1, <2>2, <2>3, <2>4, CutsFrom
<1>3. CutsUpTo(c, n)
  <2> HIDE DEF k, c
  <2> QED
    BY <1>2 DEF Good, Apart, CutsUpTo
<1> QED
  BY <1>1, <1>2, <1>3

\* A line fits if it has no more arguments than rows, each shorter than a row.
LEMMA ShortWordsFit ==
  ASSUME NEW line \in [Indices -> KeyChars \cup {BLANK, NUL}], Whole(line, 0),
         Len(Cuts(line)) <= ARG_COUNT,
         \A a \in DOMAIN Cuts(line) : Cuts(line)[a][2] - Cuts(line)[a][1] < ARG_SIZE
  PROVE  Inside(line)
<1> DEFINE c == Cuts(line)
<1>0. Len(c) <= ARG_COUNT /\ \A a \in DOMAIN c : c[a][2] - c[a][1] < ARG_SIZE
  OBVIOUS
<1>1. PICK n : CutsUpTo(c, n) /\ n \in Nat
  <2>1. PICK n : CutsUpTo(c, n) /\ Ends(line, n)
    BY CutsOfLine
  <2> QED
    BY <2>1, ShortLines DEF Ends
<1>2. DOMAIN inputparse(line) = UNION {Written(c, a) : a \in DOMAIN c}
  BY DEF inputparse
<1> HIDE DEF c
<1>3. ASSUME NEW a \in DOMAIN c, NEW e \in Written(c, a) PROVE e \in ArgCells
  <2>1. a \in 1 .. Len(c) /\ Len(c) \in Nat /\ Len(c) <= ARG_COUNT
    BY <1>0, <1>1 DEF CutsUpTo
  <2>2. c[a] \in Nat \X Nat /\ c[a][1] <= c[a][2] /\ c[a][2] - c[a][1] < ARG_SIZE
    BY <1>0, <1>1, <2>1 DEF CutsUpTo
  <2>3. PICK x \in Nat, y \in Nat : c[a] = <<x, y>>
    BY <2>2
  <2>4. x <= y /\ y - x < ARG_SIZE
    BY <2>2, <2>3
  <2>5. e \in Cell(a, 0) .. Cell(a, y - x)
    BY <2>3 DEF Written
  <2>6. ARG_COUNT \in Nat \ {0} /\ ARG_SIZE \in Nat \ {0}
    BY ArgsAssumption
  <2>7. /\ Cell(a, 0) \in Nat /\ Cell(ARG_COUNT + 1, 0) \in Nat
        /\ Cell(a, 0) + ARG_SIZE <= Cell(ARG_COUNT + 1, 0)
    <3>1. a \in Nat \ {0} /\ ARG_COUNT + 1 \in Nat \ {0} /\ a < ARG_COUNT + 1
      BY <2>1, <2>6
    <3> QED
      BY <3>1, RowsApart
  <2>8. Cell(a, y - x) = Cell(a, 0) + (y - x)
    <3>1. (a - 1) * ARG_SIZE \in Int
      BY <2>1, <2>6
    <3> QED
      BY <2>4, <3>1 DEF Cell
  <2>9. Cell(ARG_COUNT + 1, 0) = ARG_COUNT * ARG_SIZE
    <3>1. (ARG_COUNT + 1) - 1 = ARG_COUNT /\ ARG_COUNT * ARG_SIZE \in Nat
      BY <2>6
    <3> QED
      BY <3>1 DEF Cell
  <2>10. e \in 0 .. Cell(ARG_COUNT + 1, 0) - 1
    BY <2>4, <2>5, <2>6, <2>7, <2>8
  <2> QED
    BY <2>9, <2>10 DEF ArgCells
<1> QED
  BY <1>2, <1>3 DEF Inside

\* What ParsedLine says of the shell's line.
Parsed(line) ==
  LET s    == String(line)
      cuts == Cuts(line)
      args == inputparse(line)
      Full == {a \in DOMAIN cuts : cuts[a][1] < cuts[a][2]}
  IN  /\ {cuts[a] : a \in Full} = Words(line)
      /\ \A a, b \in DOMAIN cuts : a < b => cuts[a][2] < cuts[b][1]
      /\ cuts # <<>> => cuts[1] \in Words(line)
      /\ \A a \in DOMAIN cuts : cuts[a][2] - cuts[a][1] < ARG_SIZE =>
           Argument(args, a) = SubSeq(s, cuts[a][1] + 1, cuts[a][2])

\* It holds of every line that fits, if its first NUL is not followed by
\* characters.
LEMMA LineParsed ==
  ASSUME NEW line \in [Indices -> KeyChars \cup {BLANK, NUL}], Whole(line, 0), Inside(line)
  PROVE  Parsed(line)
<1>1. PICK n : /\ Ends(line, n) /\ String(line) = [i \in 1 .. n |-> line[i - 1]]
               /\ Good(line, n, FirstWordAt(line), Cuts(line)) /\ CutsUpTo(Cuts(line), n)
  BY CutsOfLine
<1> DEFINE k == FirstWordAt(line)
           c == Cuts(line)
           args == inputparse(line)
           s == [i \in 1 .. n |-> line[i - 1]]
<1>2. n \in Nat /\ n \in 0 .. KEYBOARD_BUFFER_SIZE /\ KEYBOARD_BUFFER_SIZE \in Nat
  BY <1>1, ShortLines DEF Ends
<1>3. /\ k \in 0 .. n /\ (k = n \/ CharAt(line, k) # BLANK)
      /\ \A p \in 0 .. k - 1 : CharAt(line, p) = BLANK
  BY <1>1, FirstWord
<1>4. Good(line, n, k, c) /\ CutsUpTo(c, n)
  BY <1>1
<1>5. DOMAIN c = 1 .. Len(c) /\ Len(c) \in Nat
  <2> HIDE DEF k, c
  <2> QED
    BY <1>4 DEF CutsUpTo
<1>6. ASSUME NEW a \in 1 .. Len(c)
      PROVE  c[a] \in Nat \X Nat /\ c[a][1] <= c[a][2] /\ c[a][2] <= n
  <2> HIDE DEF k, c
  <2> QED
    BY <1>4 DEF CutsUpTo
<1>7. ASSUME NEW a \in 1 .. Len(c), c[a][2] - c[a][1] < ARG_SIZE
      PROVE  Argument(args, a) = SubSeq(String(line), c[a][1] + 1, c[a][2])
  <2>1. Argument(args, a) = [m \in 1 .. c[a][2] - c[a][1] |-> line[(c[a][1] + m) - 1]]
    <3>1. c = Cuts(line) /\ args = inputparse(line)
      OBVIOUS
    <3> HIDE DEF k, c, args
    <3>2. CutsUpTo(c, n)
      BY <1>4
    <3>3. Ends(line, n) /\ Inside(line) /\ a \in 1 .. Len(c) /\ c[a][2] - c[a][1] < ARG_SIZE
      BY <1>1, <1>7
    <3> QED
      BY <3>1, <3>2, <3>3, ShortWord
  <2> HIDE DEF c, args
  <2>2. PICK x \in Nat, y \in Nat : c[a][1] = x /\ c[a][2] = y
    BY <1>6
  <2>3. x <= y /\ y <= n
    BY <1>6, <2>2
  <2>4. SubSeq(s, x + 1, y) = [m \in 1 .. y - x |-> line[(x + m) - 1]]
    <3>1. (1 + y) - (x + 1) = y - x
      OBVIOUS
    <3>2. ASSUME NEW m \in 1 .. y - x PROVE s[(m + (x + 1)) - 1] = line[(x + m) - 1]
      <4>1. (m + (x + 1)) - 1 = x + m /\ x + m \in 1 .. n
        BY <1>2, <2>3
      <4> QED
        BY <4>1
    <3>3. SubSeq(s, x + 1, y) = [m \in 1 .. (1 + y) - (x + 1) |-> s[(m + (x + 1)) - 1]]
      OBVIOUS
    <3> HIDE DEF s
    <3> QED
      BY <3>1, <3>2, <3>3
  <2> QED
    BY <1>1, <2>1, <2>2, <2>4
<1> HIDE DEF k, c, args
<1>8. Words(line) = {w \in (0 .. n) \X (0 .. n) : IsWord(line, n, w)}
  BY <1>1, WordsAre
<1>9. /\ \A a \in 1 .. Len(c) : c[a][1] < c[a][2] =>
           c[a] \in (0 .. n) \X (0 .. n) /\ IsWord(line, n, c[a])
      /\ \A w \in (0 .. n) \X (0 .. n) : IsWord(line, n, w) => \E a \in 1 .. Len(c) : c[a] = w
  BY <1>1, <1>3, <1>4, CutsAreWords
<1>10. {c[a] : a \in {b \in DOMAIN c : c[b][1] < c[b][2]}} = Words(line)
  <2>1. ASSUME NEW a \in 1 .. Len(c), c[a][1] < c[a][2] PROVE c[a] \in Words(line)
    BY <1>8, <1>9, <2>1
  <2>2. ASSUME NEW w \in Words(line) PROVE \E a \in 1 .. Len(c) : c[a][1] < c[a][2] /\ c[a] = w
    <3>1. w \in (0 .. n) \X (0 .. n) /\ IsWord(line, n, w)
      BY <1>8
    <3>2. PICK a \in 1 .. Len(c) : c[a] = w
      BY <1>9, <3>1
    <3>3. c[a][1] < c[a][2]
      BY <3>1, <3>2 DEF IsWord
    <3> QED
      BY <3>2, <3>3
  <2> QED
    BY <1>5, <2>1, <2>2
<1>11. c # <<>> => c[1] \in Words(line)
  <2>1. SUFFICES ASSUME c # <<>> PROVE c[1] \in Words(line)
    OBVIOUS
  <2>2. c[1][1] = k /\ c[1][1] < n
    BY <1>4, <2>1 DEF Good, Apart
  <2>3. 1 \in 1 .. Len(c)
    <3>1. c \in Seq(Nat \X Nat)
      BY <1>4 DEF Good, Apart
    <3>2. Len(c) # 0
      BY <2>1, <3>1
    <3> QED
      BY <1>5, <3>2
  <2>4. c[1][2] # k
    <3>1. CharAt(line, k) # BLANK
      BY <1>2, <1>3, <2>2
    <3>2. c[1][2] = n \/ CharAt(line, c[1][2]) = BLANK
      BY <1>4, <2>3 DEF Good, Whence
    <3> QED
      BY <1>2, <1>3, <2>2, <3>1, <3>2
  <2>5. c[1][1] < c[1][2]
    <3>1. PICK x \in Nat, y \in Nat : c[1][1] = x /\ c[1][2] = y
      BY <1>6, <2>3
    <3>2. x <= y /\ x # y
      BY <1>6, <2>2, <2>3, <2>4, <3>1
    <3> QED
      BY <3>1, <3>2
  <2> QED
    BY <1>8, <1>9, <2>3, <2>5
<1>12. \A a, b \in DOMAIN c : a < b => c[a][2] < c[b][1]
  BY <1>4, <1>5 DEF Good, Apart
<1> QED
  BY <1>5, <1>7, <1>10, <1>11, <1>12 DEF Parsed, c, args

\* The line the shell got has nothing behind its first NUL: the buffer it is a
\* copy of had not.
ArgsWhole == Whole(args_val, 0)

LEMMA ArgsStart == Init => ArgsWhole
<1>1. 0 \in 0 .. KEYBOARD_BUFFER_SIZE /\ \A i \in Indices : NulBuffer[i] = NUL /\ ~(i < 0)
  BY ShortLines DEF NulBuffer, Indices
<1> QED
  BY <1>1 DEF Init, ArgsWhole, Whole

LEMMA ArgsStep == ConsoleInv /\ ArgsWhole /\ [Next]_vars => ArgsWhole'
<1>1. SUFFICES ASSUME ConsoleInv, ArgsWhole, [Next]_vars PROVE ArgsWhole'
  OBVIOUS
<1>2. 0 \in 0 .. KEYBOARD_BUFFER_SIZE /\ \A i \in Indices : ~(i < 0)
  BY ShortLines DEF Indices
<1>3. CASE keyboard_isr
  <2>1. \E x : Interrupt(x)
    BY <1>3 DEF keyboard_isr, Ignored, NoCharacter, BackspaceAtStart, Backspace, BackspaceOnEmpty,
                Newline, Character
  <2>2. args_val' = args_val
    BY <2>1 DEF Interrupt, shell
  <2> QED
    BY <1>1, <2>2 DEF ArgsWhole
<1>4. CASE \/ UNCHANGED vars \/ (\E x \in Keys : Press(x)) \/ (\E s \in Texts : PutString(s))
           \/ PutChar(BLANK) \/ Clear \/ keyboard_state_activate
           \/ PrintPrompt \/ BeginRead \/ EndRead
  <2>1. args_val' = args_val
    BY <1>4 DEF vars, Press, shell, PutString, PutChar, Clear, keyboard_state_activate,
                PrintPrompt, BeginRead, EndRead
  <2> QED
    BY <1>1, <2>1 DEF ArgsWhole
<1>5. CASE BeginPrompt
  <2>1. args_val' = NulBuffer /\ \A i \in Indices : NulBuffer[i] = NUL
    BY <1>5 DEF BeginPrompt, NulBuffer
  <2> QED
    BY <1>2, <2>1 DEF ArgsWhole, Whole
<1>6. CASE CopyLine
  <2>1. args_val' = buffer /\ NoHoles
    BY <1>1, <1>6 DEF CopyLine, ConsoleInv
  <2> QED
    BY <1>2, <2>1 DEF ArgsWhole, Whole, NoHoles
<1> QED
  BY <1>1, <1>3, <1>4, <1>5, <1>6 DEF Next, ReadLine

\* No more arguments than parsed_args has rows, and each shorter than a row.
ShortArguments ==
  LET cuts == Cuts(args_val)
  IN  /\ Len(cuts) <= ARG_COUNT
      /\ \A a \in DOMAIN cuts : cuts[a][2] - cuts[a][1] < ARG_SIZE

\* Of every line that fits into parsed_args, the command and its arguments are
\* the words, each whole and in order, whatever the user typed and erased and
\* whenever; and a command finds in its row each that is shorter than a row.
\* A line of short arguments, as many as there are rows, is one that fits.
THEOREM WordsReachTheShell == Spec => [](ParsedLine /\ (ShortArguments => Inside(args_val)))
<1>1. ConsoleInv /\ ArgsWhole => ParsedLine /\ (ShortArguments => Inside(args_val))
  <2>1. SUFFICES ASSUME ConsoleInv, ArgsWhole
                 PROVE  ParsedLine /\ (ShortArguments => Inside(args_val))
    OBVIOUS
  <2>2. args_val \in [Indices -> KeyChars \cup {BLANK, NUL}] /\ Whole(args_val, 0)
    BY <2>1 DEF ConsoleInv, TypeOK, ArgsWhole
  <2>3. ASSUME Inside(args_val) PROVE ParsedLine
    <3>1. Parsed(args_val)
      BY <2>2, <2>3, LineParsed
    <3> QED
      BY <3>1 DEF Parsed, ParsedLine
  <2>4. ~Inside(args_val) => ParsedLine
    BY DEF ParsedLine
  <2>5. ShortArguments => Inside(args_val)
    BY <2>2, ShortWordsFit DEF ShortArguments
  <2> QED
    BY <2>3, <2>4, <2>5
<1>2. Spec => [](ConsoleInv /\ ArgsWhole)
  BY ArgsStart, ArgsStep, ConsoleInductive, PTL DEF Spec
<1> QED
  BY <1>1, <1>2, PTL

-----------------------------------------------------------------------------
(***************************************************************************)
(* A read that an Enter was typed for.                                     *)
(***************************************************************************)
\* A key that the handler takes brings such a read one step on: the Enter is
\* still in the queue, or it closed the line.
LEMMA KeyCloses ==
  ASSUME ConsoleInv, OrderlyInv, Ending, NEW k, Interrupt(k),
         k = ENTER => input_on' = FALSE, k # ENTER => input_on' = input_on
  PROVE  Ending' /\ StepsLeft' = StepsLeft - 1
<1>1. /\ mode = "wait" /\ mode' = "wait" /\ input_on
      /\ queue # <<>> /\ Head(queue) = k /\ queue' = Tail(queue) /\ queue \in Seq(Keys)
      /\ k = ENTER => queue' = <<>>
  BY OrderlyKey DEF Interrupt, ConsoleInv, TypeOK
<1>2. /\ Len(queue) \in Nat \ {0} /\ Len(queue') = Len(queue) - 1 /\ DOMAIN queue = 1 .. Len(queue)
      /\ DOMAIN queue' = 1 .. Len(queue') /\ queue[1] = k
      /\ \A i \in 1 .. Len(queue') : queue'[i] = queue[i + 1]
  BY <1>1
<1>3. StepsLeft = Len(queue) + 2
  BY <1>1 DEF StepsLeft
<1>4. CASE k = ENTER
  <2>1. ~input_on' /\ StepsLeft' = 2
    BY <1>1, <1>4 DEF StepsLeft
  <2>2. Len(queue') = 0
    BY <1>1, <1>4
  <2>3. Len(queue) = 1
    BY <1>2, <2>2
  <2> QED
    BY <1>1, <1>3, <2>1, <2>3 DEF Ending
<1>5. CASE k # ENTER
  <2>1. input_on' /\ StepsLeft' = Len(queue') + 2
    BY <1>1, <1>5 DEF StepsLeft
  <2>2. PICK i \in DOMAIN queue : queue[i] = ENTER
    BY <1>1 DEF Ending
  <2>3. i # 1 /\ i - 1 \in DOMAIN queue' /\ queue'[i - 1] = ENTER
    BY <1>2, <1>5, <2>2
  <2>4. StepsLeft' = StepsLeft - 1
    BY <1>2, <1>3, <2>1
  <2> QED
    BY <1>1, <2>3, <2>4 DEF Ending
<1> QED
  BY <1>4, <1>5

\* The handler's cases.
LEMMA HandlerCloses ==
  ASSUME ConsoleInv, OrderlyInv, Ending, keyboard_isr
  PROVE  Ending' /\ StepsLeft' = StepsLeft - 1
<1>1. /\ \A k \in Letters \cup Symbols \cup Modifiers \cup {"capslock", "other"} :
           Down(k) # ENTER /\ Up(k) # ENTER
      /\ BACKSPACE # ENTER
  BY OwnKeys DEF Down, Up, ENTER, BACKSPACE, Modifiers, ShiftKeys
<1>2. ~Ignored
  BY OrderlyKey DEF Ignored
<1>3. CASE NoCharacter
  <2>1. PICK k : Interrupt(k) /\ k # ENTER /\ input_on' = input_on
    BY <1>1, <1>3 DEF NoCharacter
  <2> QED
    BY <2>1, KeyCloses
<1>4. CASE BackspaceAtStart \/ Backspace \/ BackspaceOnEmpty
  BY <1>1, <1>4, KeyCloses DEF BackspaceAtStart, Backspace, BackspaceOnEmpty, driver
<1>5. CASE Newline
  BY <1>5, KeyCloses DEF Newline, EndLine
<1>6. CASE Character
  <2>1. PICK k : Interrupt(k) /\ k # ENTER /\ input_on' = input_on
    BY <1>1, <1>6 DEF Character
  <2> QED
    BY <2>1, KeyCloses
<1> QED
  BY <1>2, <1>3, <1>4, <1>5, <1>6 DEF keyboard_isr

\* The shell's two steps after the Enter.
LEMMA ShellCloses ==
  ASSUME Orderly, ConsoleInv, OrderlyInv, Ending, [Next]_vars, vars' # vars
  PROVE  mode' = "command" \/ (Ending' /\ StepsLeft' = StepsLeft - 1)
<1>1. mode \in {"wait", "copied"} /\ (mode = "copied" => ~input_on)
  BY DEF Ending, ConsoleInv
<1>2. \A k : ~Press(k)
  BY <1>1 DEF Ending, Press
<1>3. /\ \A s : ~PutString(s)
      /\ ~PutChar(BLANK) /\ ~Clear /\ ~keyboard_state_activate
      /\ ~BeginPrompt /\ ~PrintPrompt /\ ~BeginRead
  BY <1>1 DEF PutString, PutChar, Clear, keyboard_state_activate, BeginPrompt, PrintPrompt,
     BeginRead
<1>4. CASE CopyLine
  <2>1. mode = "wait" /\ ~input_on /\ mode' = "copied"
    BY <1>4 DEF CopyLine
  <2> QED
    BY <2>1 DEF Ending, StepsLeft
<1>5. CASE EndRead
  BY <1>5 DEF EndRead
<1> QED
  BY <1>2, <1>3, <1>4, <1>5, HandlerCloses DEF Next, ReadLine

\* With a user who waits for the prompt, a read that an Enter was typed for is
\* on its way out: every step is one of its own, and none of them is missing.
THEOREM OrderlyReadsClose ==
  ASSUME Orderly
  PROVE  Spec => ReadCloses
<1>1. ASSUME ConsoleInv, OrderlyInv, [Next]_vars PROVE OrderlyInv'
  BY <1>1, OrderlySteps, Orderly
<1>2. OrderlyInv => (Ending /\ input_on => ~inService)
  BY DEF OrderlyInv
<1>3. ASSUME ConsoleInv, OrderlyInv, [Next]_vars
      PROVE  [Ending => mode' = "command" \/ (Ending' /\ StepsLeft' = StepsLeft - 1)]_vars
  BY <1>3, ShellCloses, Orderly
<1> QED
  BY <1>1, <1>2, <1>3, OrderlyStarts, ConsoleInductive, PTL DEF Spec, ReadCloses
=============================================================================
