---------------------------- MODULE CommandLine ----------------------------
(***************************************************************************)
(* inputparse (user/command.c): how the shell cuts the line that the       *)
(* console of module Console returned into the arguments it counts and     *)
(* hands to a command.                                                     *)
(***************************************************************************)
EXTENDS Console

CONSTANTS
  ARG_COUNT,    \* rows of parsed_args
  ARG_SIZE      \* characters of a row

ASSUME ArgsAssumption == ARG_COUNT \in Nat \ {0} /\ ARG_SIZE \in Nat \ {0}

\* args_val[i]; what lies behind the buffer is taken for a NUL.
CharAt(line, i) == IF i \in Indices THEN line[i] ELSE NUL

\* The first position from i on that holds one of the characters.
FirstFrom(line, i, chars) ==
  CHOOSE e \in i .. KEYBOARD_BUFFER_SIZE :
    /\ CharAt(line, e) \in chars
    /\ \A j \in i .. e - 1 : CharAt(line, j) \notin chars

\* Mutant: blanks before the first word are not skipped.
FromTheStart(line) == 0

\* while (args_val[i] == ' ') i++
FirstWordAt(line) == FirstFrom(line, 0, ({NUL} \cup KeyChars) \ {BLANK})

\* Each turn of the loop takes the characters up to a blank or the NUL, none
\* if it begins at a blank, and goes on behind it: behind the NUL too.  So two
\* blanks in a row make an empty argument, which the commands count.  A cut is
\* the i a turn begins with, and the i it stops at.
Cuts(line) ==
  LET cuts[i \in 0 .. KEYBOARD_BUFFER_SIZE + 1] ==
        IF CharAt(line, i) = NUL THEN <<>>
        ELSE LET e == FirstFrom(line, i, {BLANK, NUL})
             IN  <<<<i, e>>>> \o cuts[e + 1]
  IN  cuts[FirstWordAt(line)]

\* parsed_args[n - 1][k]: the rows lie one behind the other, and neither index
\* is compared with its bound.
Cell(n, k) == (n - 1) * ARG_SIZE + k

ArgCells == 0 .. ARG_COUNT * ARG_SIZE - 1

\* What turn n writes: its characters from the row's beginning on, and a NUL.
Written(cuts, n) == Cell(n, 0) .. Cell(n, cuts[n][2] - cuts[n][1])

\* The cells that the parse leaves written, each with what the last turn wrote
\* that reached it.
inputparse(line) ==
  LET cuts == Cuts(line)
      Value(n, c) == LET i == cuts[n][1] + (c - Cell(n, 0))
                     IN  IF i < cuts[n][2] THEN line[i] ELSE NUL
  IN  [c \in UNION {Written(cuts, n) : n \in DOMAIN cuts} |->
         Value(Max({n \in DOMAIN cuts : c \in Written(cuts, n)}), c)]

\* The argument a command finds in row n: up to the first NUL.
Argument(args, n) ==
  LET len == CHOOSE k \in ArgCells :
               /\ args[Cell(n, k)] = NUL
               /\ \A j \in 0 .. k - 1 : args[Cell(n, j)] # NUL
  IN  [k \in 1 .. len |-> args[Cell(n, k - 1)]]

\* A line that fits.  With any other the parse writes behind parsed_args, over
\* what the shell keeps there, and C says nothing of what follows.
Inside(line) == DOMAIN inputparse(line) \subseteq ArgCells

-----------------------------------------------------------------------------
\* What the user sees as words: the longest runs of other characters than
\* blanks, each by the positions before its first and of its last character.
Words(line) ==
  LET s == String(line)
  IN  {w \in (0 .. Len(s)) \X (0 .. Len(s)) :
         /\ w[1] < w[2] /\ \A i \in w[1] + 1 .. w[2] : s[i] # BLANK
         /\ w[1] = 0 \/ s[w[1]] = BLANK
         /\ w[2] = Len(s) \/ s[w[2] + 1] = BLANK}

\* Of a line that fits, the shell takes the first word for the command, and cuts
\* the other words off in order and whole, wherever the blanks are that the user
\* typed or that backspace left in the buffer.  A command finds in row n the word
\* that turn n cut off, if that is shorter than a row: also behind a longer one,
\* which runs on into the row behind its own.
ParsedLine ==
  mode = "command" /\ Inside(args_val) =>
    LET s    == String(args_val)
        cuts == Cuts(args_val)
        args == inputparse(args_val)
        Full == {n \in DOMAIN cuts : cuts[n][1] < cuts[n][2]}
    IN  /\ {cuts[n] : n \in Full} = Words(args_val)
        /\ \A m, n \in DOMAIN cuts : m < n => cuts[m][2] < cuts[n][1]
        /\ cuts # <<>> => cuts[1] \in Words(args_val)
        /\ \A n \in DOMAIN cuts : cuts[n][2] - cuts[n][1] < ARG_SIZE =>
             Argument(args, n) = SubSeq(s, cuts[n][1] + 1, cuts[n][2])
=============================================================================
