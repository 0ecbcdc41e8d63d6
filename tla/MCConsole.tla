----------------------------- MODULE MCConsole ------------------------------
(***************************************************************************)
(* Small screens: a prompt of two cells, as its third string's count takes *)
(* the string's NUL too, and commands that print with and without an end   *)
(* of line.                                                                *)
(***************************************************************************)
EXTENDS CommandLine, TLC

CONSTANTS p, o    \* a glyph of the prompt and one of a command's output

MCGlyphs == KeyChars \cup {BLANK, p, o}
MCPrompt == <<<<p>>, <<>>, <<p, NUL>>>>
\* The keys that edit a line, in both cases; and every kind of key, with one
\* modifier for the three that the handler treats alike.
MCEditing == {Down(l) : l \in Letters \cup {SPACE}} \cup {BACKSPACE, ENTER, Down("shift_left"), Up("shift_left")}
MCKeys    == MCEditing \cup {Down(l) : l \in Symbols} \cup {Down("capslock"), Down("other")}

MCTexts  == {<<NEWLINE>>, <<o>>, <<o, o, NEWLINE>>}
=============================================================================
