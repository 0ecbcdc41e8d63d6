----------------------------- MODULE LineEditor ------------------------------
(***************************************************************************)
(* What syscall 4 promises the shell: the line it returns is the one the   *)
(* user edited since the prompt, up to blanks at its end.                  *)
(***************************************************************************)
EXTENDS Sequences, SequencesExt

CONSTANTS
  Chars,     \* characters a key may give, the blank among them
  Blank

VARIABLES
  phase,     \* "idle", "editing" or "entered"
  text,      \* the line being edited
  given      \* the line entered, until the shell forgets it

TrimRight(s) == SubSeq(s, 1, SelectLastInSeq(s, LAMBDA c : c # Blank))

EditorInit == phase = "idle" /\ text = <<>> /\ given = <<>>

Ask == phase = "idle" /\ phase' = "editing" /\ given = <<>> /\ UNCHANGED <<text, given>>

Type == /\ phase = "editing"
        /\ \E c \in Chars : text' = Append(text, c)
        /\ UNCHANGED <<phase, given>>

Erase == /\ phase = "editing" /\ text # <<>>
         /\ text' = Front(text)
         /\ UNCHANGED <<phase, given>>

Enter == /\ phase = "editing" /\ phase' = "entered"
         /\ given' = TrimRight(text) /\ text' = <<>>

Give   == phase = "entered" /\ phase' = "idle" /\ UNCHANGED <<text, given>>
Forget == phase = "idle" /\ given' = <<>> /\ UNCHANGED <<phase, text>>

EditorNext == Ask \/ Type \/ Erase \/ Enter \/ Give \/ Forget

EditorSpec == EditorInit /\ [][EditorNext]_<<phase, text, given>>
=============================================================================
