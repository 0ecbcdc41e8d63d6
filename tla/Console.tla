------------------------------- MODULE Console -------------------------------
(***************************************************************************)
(* The console: the keyboard's interrupt handler (driver/keyboard.c), the  *)
(* interrupt controller's acknowledgement (interrupt.c), the screen and    *)
(* the syscalls with which the shell prints and reads a line.              *)
(*                                                                         *)
(* Two actors interleave: the shell, with its syscalls, and the user, each *)
(* of whose keys raises IRQ 1.  A syscall runs with interrupts off and is  *)
(* one action, except syscall 4, which turns them on and is an action for  *)
(* each of its steps.  The handler runs with interrupts off: one action.   *)
(***************************************************************************)
EXTENDS Framebuffer

CONSTANTS
  KEYBOARD_BUFFER_SIZE,
  Letters,      \* keys 'a' to 'z'
  Symbols,      \* other keys with a character, and an entry in shift_map
  SPACE,        \* the one of them whose character is ' '
  Texts,        \* what the shell may print with one syscall 6
  Prompt,       \* the three strings of put_template_with_path
  StartCol,     \* CP.start_col, the column put_template_with_path computes
  Orderly,      \* the user types only while a read is waiting for a line, and
                \* a command's output ends where a line begins
  Pressed,      \* bound of this model: the keys the user has, of those in Keys
  MaxQueue,     \* bound of this model: scancodes in the controller
  MaxKeys,      \* bound of this model: keys pressed
  MaxPrints     \* bound of this model: strings printed by commands

\* Keys that give no character.
ShiftKeys == {"shift_left", "shift_right"}
Modifiers == ShiftKeys \cup {"ctrl"}
NoCharKeys == {"capslock", "other"}

\* Events of the keyboard: a key going down, and the release of a modifier.
\* Every other release is a code without a character, as "other".
Down(k) == <<"down", k>>
Up(k)   == <<"up", k>>

BACKSPACE == Down("backspace")
ENTER     == Down("enter")

Keys == {Down(k) : k \in Letters \cup Symbols \cup Modifiers \cup NoCharKeys}
          \cup {Up(k) : k \in Modifiers} \cup {BACKSPACE, ENTER}

\* A character is the key's own or its shifted one.  (shift_map is laid out by
\* scancodes and read with characters, so that of ' ' is no blank.)
Plain(k)   == IF k = SPACE THEN BLANK ELSE <<k, "plain">>
Shifted(k) == <<k, "shifted">>
KeyChars   == {Plain(k) : k \in Letters \cup Symbols} \cup {Shifted(k) : k \in Letters \cup Symbols}

\* What the shell may print.
Printable == Glyphs \cup {NEWLINE, NUL}

ASSUME ConsoleAssumption ==
  /\ KeyChars \cup {BLANK} \subseteq Glyphs
  /\ SPACE \in Symbols
  /\ Pressed \subseteq Keys /\ MaxQueue \in Nat
  /\ MaxKeys \in Nat /\ MaxPrints \in Nat /\ Orderly \in BOOLEAN
  /\ Texts \subseteq Seq(Printable) /\ StartCol \in Nat
  /\ Prompt \in Seq(Seq(Printable)) /\ Len(Prompt) = 3

\* Enter and backspace have scancodes of their own.
ASSUME OwnKeys == "enter" \notin Letters \cup Symbols /\ "backspace" \notin Letters \cup Symbols

\* What the prompt shows: the shell's name, the path and the "$ ", of which the
\* third syscall 6 counts the NUL too.
PromptCells == Prompt[1] \o Prompt[2] \o Front(Prompt[3])

\* start_col is the column behind them.
ASSUME PromptAssumption ==
  /\ Prompt[1] # <<>> /\ Prompt[3] # <<>> /\ Last(Prompt[3]) = NUL
  /\ PromptCells \in Seq(Glyphs)
  /\ StartCol = Len(PromptCells)

\* A line shorter than the buffer: nothing in keyboard_isr checks the index.
ASSUME ShortLines == KEYBOARD_BUFFER_SIZE \in Nat /\ MaxKeys <= KEYBOARD_BUFFER_SIZE

VARIABLES
  fb,          \* framebuffer_state and the screen
  input_on,    \* keyboard_state.keyboard_input_on
  buffer,      \* keyboard_state.keyboard_buffer
  index,       \* keyboard_state.current_index
  start_col,   \* keyboard_state.start_col
  held,        \* capslock, shift_left, shift_right and ctrl of keyboard_state
  queue,       \* scancodes in the keyboard controller
  inService,   \* IRQ 1 was delivered and pic_ack has not been called
  mode,        \* "boot", or where the shell is in start_command and syscall 4
  piece,       \* strings of the prompt printed so far
  args_val,    \* the line the shell got
  keys, prints \* bounds' counters

vars == <<fb, input_on, buffer, index, start_col, held, queue, inService, mode, piece,
          args_val, keys, prints>>

driver == <<input_on, buffer, index, start_col, held>>
shell  == <<mode, piece, args_val, prints>>

Indices   == 0 .. KEYBOARD_BUFFER_SIZE - 1
NulBuffer == [i \in Indices |-> NUL]

\* The characters of a buffer up to its first NUL, as the shell reads it.
String(b) ==
  LET nuls == {i \in Indices : b[i] = NUL}
      n    == CHOOSE i \in 0 .. KEYBOARD_BUFFER_SIZE :
                /\ i \in nuls \cup {KEYBOARD_BUFFER_SIZE}
                /\ \A j \in nuls : i <= j
  IN  [i \in 1 .. n |-> b[i - 1]]

\* kernel_setup and the start of the shell: kernel_setup leaves input on.
Init ==
  /\ fb = BlankScreen
  /\ input_on = TRUE /\ buffer = NulBuffer /\ index = 0 /\ start_col = 0 /\ held = {}
  /\ queue = <<>> /\ inService = FALSE
  /\ mode = "boot" /\ piece = 0 /\ args_val = NulBuffer
  /\ keys = 0 /\ prints = 0

(***************************************************************************)
(* The user, and the interrupt controller.                                 *)
(***************************************************************************)
\* A key: its scancode waits in the controller, which raises IRQ 1.
Press(k) ==
  /\ k \in Pressed /\ keys < MaxKeys /\ Len(queue) < MaxQueue
  /\ Orderly => mode = "wait" /\ input_on /\ \A i \in DOMAIN queue : queue[i] # ENTER
  /\ queue' = Append(queue, k) /\ keys' = keys + 1
  /\ UNCHANGED <<fb, driver, inService, shell>>

\* IRQ 1 reaches the CPU when the last one was acknowledged; the handler's
\* read of the data port takes the scancode.
Interrupt(k) ==
  /\ ~inService /\ queue # <<>> /\ Head(queue) = k
  /\ queue' = Tail(queue)
  /\ UNCHANGED <<shell, keys>>

\* Mutant: only interrupts of the second controller are acknowledged.
SlaveAck == inService' = TRUE

pic_ack == inService' = FALSE

(***************************************************************************)
(* keyboard_isr.                                                           *)
(***************************************************************************)
\* Input is off: the handler returns, and acknowledges nothing.
Ignored ==
  /\ \E k \in Keys : Interrupt(k)
  /\ ~input_on
  /\ index' = 0 /\ inService' = TRUE
  /\ UNCHANGED <<fb, input_on, buffer, start_col, held>>

\* Capital letters: capslock ^ shift_pressed().
shift_pressed == held \cap ShiftKeys # {}

Converted(k) ==
  LET capital == IF k \in Letters THEN ("capslock" \in held) # shift_pressed ELSE shift_pressed
  IN  IF capital THEN Shifted(k) ELSE Plain(k)

\* A code without a character; some of them are modifiers.
NoCharacter ==
  /\ input_on
  /\ \/ \E k \in Modifiers : Interrupt(Down(k)) /\ held' = held \cup {k}
     \/ \E k \in Modifiers : Interrupt(Up(k)) /\ held' = held \ {k}
     \/ /\ Interrupt(Down("capslock"))
        /\ held' = IF "capslock" \in held THEN held \ {"capslock"} ELSE held \cup {"capslock"}
     \/ Interrupt(Down("other")) /\ UNCHANGED held
  /\ pic_ack
  /\ UNCHANGED <<fb, input_on, buffer, index, start_col>>

\* The three ways of a backspace.  The handler's own case of a cursor in
\* column 0 lies behind the first and is never reached.
BackspaceAtStart ==
  /\ input_on /\ Interrupt(BACKSPACE)
  /\ fb.col <= start_col
  /\ pic_ack
  /\ UNCHANGED <<fb, driver>>

Backspace ==
  /\ input_on /\ Interrupt(BACKSPACE)
  /\ fb.col > start_col /\ index > 0
  /\ index' = index - 1
  /\ buffer' = [buffer EXCEPT ![index - 1] = BLANK]
  /\ fb' = framebuffer_set_cursor(framebuffer_write([fb EXCEPT !.col = @ - 1], BLANK))
  /\ pic_ack
  /\ UNCHANGED <<input_on, start_col, held>>

\* Mutant: the cursor is left where it was.
BackspaceWithoutCursor ==
  /\ input_on /\ Interrupt(BACKSPACE)
  /\ fb.col > start_col /\ index = 0
  /\ fb' = [fb EXCEPT !.col = 0]
  /\ pic_ack
  /\ UNCHANGED driver

BackspaceOnEmpty ==
  /\ input_on /\ Interrupt(BACKSPACE)
  /\ fb.col > start_col /\ index = 0
  /\ fb' = framebuffer_set_cursor([fb EXCEPT !.col = 0])
  /\ pic_ack
  /\ UNCHANGED driver

\* Both handlers of a line's end scroll before the last line is reached.
Scrolled(f) == IF f.row >= ROW - 1 THEN scrollDown(f) ELSE f

\* Mutants: the index stays; the assignment of 1 to keyboard_input_on in the
\* middle of the case has the last word.
EndLineAtIndex   == input_on' = FALSE /\ UNCHANGED index
EndLineListening == index' = 0 /\ UNCHANGED input_on

EndLine == input_on' = FALSE /\ index' = 0

Newline ==
  /\ input_on /\ Interrupt(ENTER)
  /\ EndLine
  /\ fb' = framebuffer_set_cursor(framebuffer_write(Scrolled(NextLine(fb)), BLANK))
  /\ pic_ack
  /\ UNCHANGED <<buffer, start_col, held>>

\* Mutant: the line is one column too long.
AdvancedLate(f) == IF f.col + 1 > COLUMN THEN NextLine(f) ELSE [f EXCEPT !.col = @ + 1]

\* Where the position goes after a typed character.
Advanced(f) == IF f.col + 1 >= COLUMN THEN NextLine(f) ELSE [f EXCEPT !.col = @ + 1]

Character ==
  \E k \in Letters \cup Symbols :
    /\ input_on /\ Interrupt(Down(k))
    /\ buffer' = [buffer EXCEPT ![index] = Converted(k)]
    /\ index' = index + 1
    /\ fb' = framebuffer_set_cursor(Scrolled(Advanced(framebuffer_write(fb, Converted(k)))))
    /\ pic_ack
    /\ UNCHANGED <<input_on, start_col, held>>

keyboard_isr ==
  \/ Ignored \/ NoCharacter
  \/ BackspaceAtStart \/ Backspace \/ BackspaceOnEmpty
  \/ Newline \/ Character

(***************************************************************************)
(* The shell: start_command's loop and its syscalls.                       *)
(***************************************************************************)
\* Syscall 6, by print_starting_screen or a command.
PutString(string) ==
  /\ mode \in {"boot", "command"} /\ prints < MaxPrints
  /\ Orderly /\ prints = MaxPrints - 1 => Last(string) = NEWLINE    \* bound only
  /\ fb' = puts(fb, string) /\ prints' = prints + 1
  /\ UNCHANGED <<driver, queue, inService, mode, piece, args_val, keys>>

\* Syscall 5, by ls after each name.
PutChar(c) ==
  /\ mode = "command" /\ prints < MaxPrints
  /\ Orderly => prints < MaxPrints - 1    \* bound only
  /\ fb' = putchar(fb, c) /\ prints' = prints + 1
  /\ UNCHANGED <<driver, queue, inService, mode, piece, args_val, keys>>

\* Syscall 9, by the command clear.
Clear ==
  /\ mode = "command" /\ prints < MaxPrints
  /\ fb' = framebuffer_clear(fb) /\ prints' = prints + 1
  /\ UNCHANGED <<driver, queue, inService, mode, piece, args_val, keys>>

\* Syscall 7, after the starting screen and before start_command.
keyboard_state_activate ==
  /\ mode = "boot" /\ mode' = "command"
  /\ input_on' = TRUE
  /\ UNCHANGED <<fb, buffer, index, start_col, held, queue, inService, piece, args_val, prints,
                 keys>>

\* The top of the loop forgets the line and prints the first string.
BeginPrompt ==
  /\ mode = "command" /\ (Orderly => fb.col = 0)
  /\ args_val' = NulBuffer
  /\ fb' = puts(fb, Prompt[1])
  /\ piece' = 1 /\ mode' = "prompt"
  /\ UNCHANGED <<driver, queue, inService, prints, keys>>

PrintPrompt ==
  /\ mode = "prompt" /\ piece < 3
  /\ fb' = puts(fb, Prompt[piece + 1])
  /\ piece' = piece + 1
  /\ UNCHANGED <<driver, queue, inService, mode, args_val, prints, keys>>

\* Syscall 4 up to its sti.
BeginRead ==
  /\ mode = "prompt" /\ piece = 3
  /\ start_col' = StartCol /\ input_on' = TRUE
  /\ mode' = "wait" /\ piece' = 0
  /\ UNCHANGED <<fb, buffer, index, held, queue, inService, args_val, prints, keys>>

\* while (is_keyboard_input_on()), then the memcpy, with interrupts on.
CopyLine ==
  /\ mode = "wait" /\ ~input_on
  /\ args_val' = buffer
  /\ mode' = "copied"
  /\ UNCHANGED <<fb, driver, queue, inService, piece, prints, keys>>

\* Mutant: the buffer keeps the line.
EndReadUncleared ==
  /\ mode = "copied" /\ mode' = "command"
  /\ input_on' = FALSE
  /\ UNCHANGED <<fb, buffer, index, start_col, held, queue, inService, piece, args_val, prints,
                 keys>>

\* keyboard_state_deactivate and clear.
EndRead ==
  /\ mode = "copied"
  /\ input_on' = FALSE /\ buffer' = NulBuffer
  /\ mode' = "command"
  /\ UNCHANGED <<fb, index, start_col, held, queue, inService, piece, args_val, prints, keys>>

ReadLine == BeginPrompt \/ PrintPrompt \/ BeginRead \/ CopyLine \/ EndRead

Next ==
  \/ \E k \in Keys : Press(k)
  \/ keyboard_isr
  \/ \E s \in Texts : PutString(s)
  \/ PutChar(BLANK) \/ Clear \/ keyboard_state_activate
  \/ ReadLine

Spec == Init /\ [][Next]_vars

\* The CPU takes an interrupt that is pending and lets the shell run.
FairSpec == Spec /\ WF_vars(keyboard_isr) /\ WF_vars(ReadLine)

-----------------------------------------------------------------------------
\* The row and the column stay on the screen through every wrap, newline,
\* scroll and backspace.
TypeOK ==
  /\ fb \in Screen
  /\ input_on \in BOOLEAN /\ inService \in BOOLEAN
  /\ buffer \in [Indices -> KeyChars \cup {BLANK, NUL}]
  /\ args_val \in [Indices -> KeyChars \cup {BLANK, NUL}]
  /\ index \in 0 .. KEYBOARD_BUFFER_SIZE
  /\ start_col \in {0, StartCol}
  /\ held \subseteq Modifiers \cup {"capslock"}
  /\ queue \in Seq(Keys)
  /\ mode \in {"boot", "command", "prompt", "wait", "copied"}
  /\ piece \in 0 .. 3 /\ keys \in 0 .. MaxKeys /\ prints \in 0 .. MaxPrints

Typed == [i \in 1 .. index |-> buffer[i - 1]]

\* While a line is read, the screen before the cursor shows the prompt and
\* then the line as the buffer holds it, through wraps, scrolls and erasures,
\* except for what scrolled off the top.
EchoMatches ==
  LET shown == PromptCells \o Typed
  IN  mode = "wait" /\ input_on =>
        \A n \in 1 .. Len(shown) :
          Place(fb, n) >= 0 => CellBefore(fb, n) = shown[Len(shown) - n + 1]

\* A read that an Enter was typed for, and its steps until it returns: those of
\* the handler for the keys that wait, and two of the shell.
Ending ==
  \/ mode = "wait" /\ (~input_on \/ \E i \in DOMAIN queue : queue[i] = ENTER)
  \/ mode = "copied"
StepsLeft ==
  CASE mode = "wait" /\ input_on  -> Len(queue) + 2
    [] mode = "wait" /\ ~input_on -> 2
    [] OTHER                      -> 1

\* Such a read closes: no key is ahead of its return without being heard, and
\* no step but those of the read is taken until then.
ReadCloses ==
  /\ [](Ending /\ input_on => ~inService)
  /\ [][Ending => mode' = "command" \/ (Ending' /\ StepsLeft' = StepsLeft - 1)]_vars

\* The handler processes the keys that come while input is on: it never left
\* an interrupt unacknowledged, which would block every later one.
KeysHeard == input_on => ~inService

\* A line that was ended is returned to the shell.
ReadReturns ==
  mode = "wait" /\ (\E i \in DOMAIN queue : queue[i] = ENTER) ~> mode = "command"

\* No character is stored behind the terminating NUL of the line, where the
\* shell would not see it: whoever clears the buffer also resets the index.
NoHoles ==
  /\ \A i, j \in Indices : i < j /\ buffer[i] = NUL => buffer[j] = NUL
  /\ \A i \in Indices : i < index => buffer[i] # NUL

\* While a line is read, the hardware's cursor is where the next character
\* goes.
CursorFollows == mode = "wait" => fb.cursor = <<fb.row, fb.col>>

\* The refinement mapping: the line being edited is what the index counts,
\* and a line that was ended is in the buffer until the shell has it.
Phase ==
  CASE mode = "wait" /\ input_on                        -> "editing"
    [] (mode = "wait" /\ ~input_on) \/ mode = "copied" -> "entered"
    [] OTHER                                           -> "idle"

Text == IF Phase = "editing" THEN Typed ELSE <<>>

Trimmed(line) == SubSeq(line, 1, SelectLastInSeq(line, LAMBDA c : c # BLANK))
Given == Trimmed(String(IF mode = "wait" /\ ~input_on THEN buffer ELSE args_val))

Editor == INSTANCE LineEditor WITH
  Chars <- KeyChars \cup {BLANK}, Blank <- BLANK, phase <- Phase, text <- Text, given <- Given

\* The shell gets the line the user edited.
EditsLine == Editor!EditorSpec
=============================================================================
