------------------------------ MODULE Console -------------------------------
(***************************************************************************)
(* Keyboard and security shell: the IRQ1 handler and its key ring          *)
(* (kernel/keyboard.c), the read-eval loop (kernel/shell.c) and the text   *)
(* screen it edits on (kernel/fb_shell.c).                                 *)
(*                                                                         *)
(* The shell runs with interrupts enabled, so keyboard_get_char is taken   *)
(* step by step and the handler may run between any two of its steps; the  *)
(* handler itself is not interrupted.  SYS_READ_KEY is the special case in *)
(* which the three steps run without a handler in between.  Pixels, the    *)
(* handler's own echo and the texts the commands print are left out: a     *)
(* command prints some whole lines.                                        *)
(***************************************************************************)
EXTENDS Integers, Sequences, SequencesExt

CONSTANTS
  RING,            \* entries of g_key_ring (64)
  LINE_MAX,        \* characters line_buf holds (127)
  FB_SHELL_ROWS, FB_SHELL_COLS

ASSUME ConsoleAssumption ==
  /\ RING \in Nat /\ RING > 1
  /\ {LINE_MAX, FB_SHELL_ROWS, FB_SHELL_COLS} \subseteq Nat \ {0}

\* Letters stand for the printable characters, upper case for shifted ones.
Printable == {"a", "A"}
Chars == Printable \cup {"nl", "bs"}
Nul == "nul"
Prompt == <<"#">>

\* Scan codes: a key that yields characters, one that yields none, shift.
Scancodes == {"key_a", "enter", "backspace", "arrow", "shift_down",
              "shift_up", "release"}

VARIABLES
  g_key_ring, g_key_head, g_key_tail, shift_pressed,
  shell_pc,         \* where the shell is in keyboard_get_char and its loop
  tmp,        \* the character keyboard_get_char has read
  c,          \* the character it returned
  line_buf,   \* the line typed so far
  scr,        \* screen: lines, row, col; history of the line: span, the rows
              \* it has wrapped over, and stuck, a backspace has been ignored
  halted,     \* destruct_trigger does not return
  typed       \* history: flips with every character the handler makes

ringVars == <<g_key_ring, g_key_head, g_key_tail, typed>>
consoleVars == <<g_key_ring, g_key_head, g_key_tail, shift_pressed, shell_pc, tmp, c,
                 line_buf, scr, halted, typed>>

----------------------------------------------------------------------------
(* The screen.                                                              *)

Row == [0 .. FB_SHELL_COLS - 1 -> Chars \cup {Nul} \cup {"#"}]
BlankRow == [i \in 0 .. FB_SHELL_COLS - 1 |-> Nul]

fb_shell_init == [lines |-> [r \in 0 .. FB_SHELL_ROWS - 1 |-> BlankRow],
                  row |-> 0, col |-> 0, span |-> 0, stuck |-> FALSE]

\* Mutant: the row below is not cleared, only the last one when scrolling.
KeepsRow(s) ==
  LET down == [s EXCEPT !.col = 0, !.row = @ + 1]
  IN IF s.row + 1 < FB_SHELL_ROWS
     THEN down
     ELSE [down EXCEPT !.row = FB_SHELL_ROWS - 1]

\* fb_shell_newline: the next row is cleared; on the last row all rows move up.
fb_shell_newline(s) ==
  LET down == [s EXCEPT !.col = 0, !.row = @ + 1]
  IN IF s.row + 1 < FB_SHELL_ROWS
     THEN [down EXCEPT !.lines[s.row + 1] = BlankRow]
     ELSE [down EXCEPT !.row = FB_SHELL_ROWS - 1,
             !.lines = [r \in DOMAIN s.lines |->
                          IF r = FB_SHELL_ROWS - 1 THEN BlankRow ELSE s.lines[r + 1]]]

\* fb_shell_putchar: backspace stays within its row, a full row wraps before
\* the next character.
fb_shell_putchar(s, ch) ==
  LET t == IF s.col >= FB_SHELL_COLS
           THEN [fb_shell_newline(s) EXCEPT !.span = @ + 1] ELSE s
  IN IF ch = "nl" THEN fb_shell_newline(s)
     ELSE IF ch = "bs"
       THEN IF s.col > 0
            THEN [s EXCEPT !.col = @ - 1, !.lines[s.row][s.col - 1] = Nul]
            ELSE [s EXCEPT !.stuck = TRUE]
       ELSE [t EXCEPT !.lines[t.row][t.col] = ch, !.col = @ + 1]

\* fb_shell_puts, one character after the other.
fb_shell_puts(s, text) ==
  LET put[i \in 0 .. Len(text)] ==
        IF i = 0 THEN s ELSE fb_shell_putchar(put[i - 1], text[i])
  IN put[Len(text)]

\* The prompt; the line that follows it starts on its row.
Prompted(s) == [fb_shell_puts(s, Prompt) EXCEPT !.span = 0, !.stuck = FALSE]

----------------------------------------------------------------------------
(* The key ring and the interrupt handler.                                  *)

ConsoleInit ==
  /\ g_key_ring = [i \in 0 .. RING - 1 |-> Nul]
  /\ g_key_head = 0 /\ g_key_tail = 0 /\ shift_pressed = FALSE
  /\ shell_pc = "check" /\ tmp = Nul /\ c = Nul
  /\ line_buf = <<>> /\ scr = Prompted(fb_shell_init) /\ halted = FALSE
  /\ typed = FALSE

\* Mutant: the ring is filled to its last entry.
FillsUp(ch) ==
  /\ g_key_ring' = [g_key_ring EXCEPT ![g_key_head] = ch]
  /\ g_key_head' = (g_key_head + 1) % RING

\* key_ring_push: one entry stays free, or the character is dropped.
key_ring_push(ch) ==
  LET next == (g_key_head + 1) % RING
  IN IF next # g_key_tail
     THEN /\ g_key_ring' = [g_key_ring EXCEPT ![g_key_head] = ch]
          /\ g_key_head' = next
     ELSE UNCHANGED <<g_key_ring, g_key_head>>

\* The translation tables; Nul for a key that yields no character.
Ascii(sc, shift) ==
  CASE sc = "key_a"     -> IF shift THEN "A" ELSE "a"
    [] sc = "enter"     -> "nl"
    [] sc = "backspace" -> "bs"
    [] OTHER            -> Nul

\* keyboard_callback, on IRQ1.
keyboard_callback(sc) ==
  /\ shift_pressed' = CASE sc = "shift_down" -> TRUE
                        [] sc = "shift_up"   -> FALSE
                        [] OTHER             -> shift_pressed
  /\ LET ch == Ascii(sc, shift_pressed)
     IN IF ch # Nul THEN key_ring_push(ch) /\ typed' = ~typed
                    ELSE UNCHANGED <<g_key_ring, g_key_head, typed>>
  /\ UNCHANGED <<g_key_tail, shell_pc, tmp, c, line_buf, scr, halted>>

----------------------------------------------------------------------------
(* The shell.                                                               *)

\* keyboard_get_char: an empty ring returns 0 and the loop polls again,
GetEmpty ==
  /\ shell_pc = "check" /\ ~halted
  /\ g_key_head = g_key_tail
  /\ c' = Nul
  /\ UNCHANGED <<ringVars, shift_pressed, shell_pc, tmp, line_buf, scr, halted>>

GetCheck ==
  /\ shell_pc = "check" /\ ~halted
  /\ g_key_head # g_key_tail
  /\ shell_pc' = "read"
  /\ UNCHANGED <<ringVars, shift_pressed, tmp, c, line_buf, scr, halted>>

\* otherwise the entry is read,
GetRead ==
  /\ shell_pc = "read"
  /\ tmp' = g_key_ring[g_key_tail]
  /\ shell_pc' = "advance"
  /\ UNCHANGED <<ringVars, shift_pressed, c, line_buf, scr, halted>>

\* and given back to the handler.
GetAdvance ==
  /\ shell_pc = "advance"
  /\ g_key_tail' = (g_key_tail + 1) % RING
  /\ c' = tmp
  /\ shell_pc' = "handle"
  /\ UNCHANGED <<g_key_ring, g_key_head, typed, shift_pressed, tmp, line_buf, scr, halted>>

\* The command a line names: the ones that print, wipe, or no command.
CommandOf(line) == CASE line = <<"a">> -> "print"
                     [] line = <<"A">> -> "wipe"
                     [] OTHER          -> "unknown"

\* shell_execute_cmd: every command prints whole lines; wipe then starts the
\* self-destruct, which ends in a halt.
ShellEnter ==
  /\ shell_pc = "handle" /\ c = "nl"
  /\ LET s == fb_shell_putchar(scr, "nl")
         printed == IF line_buf = <<>> THEN s ELSE fb_shell_puts(s, <<"a", "nl">>)
     IN IF CommandOf(line_buf) = "wipe"
        THEN halted' = TRUE /\ scr' = printed /\ UNCHANGED <<shell_pc, line_buf>>
        ELSE /\ scr' = Prompted(printed) /\ line_buf' = <<>> /\ shell_pc' = "check"
             /\ UNCHANGED halted
  /\ UNCHANGED <<ringVars, shift_pressed, tmp, c>>

ShellBackspace ==
  /\ shell_pc = "handle" /\ c = "bs"
  /\ IF line_buf # <<>>
     THEN /\ line_buf' = Front(line_buf)
          /\ scr' = fb_shell_putchar(scr, "bs")
     ELSE UNCHANGED <<line_buf, scr>>
  /\ shell_pc' = "check"
  /\ UNCHANGED <<ringVars, shift_pressed, tmp, c, halted>>

\* A character a full line has no room for is neither stored nor echoed.
ShellChar ==
  /\ shell_pc = "handle" /\ c \in Printable
  /\ IF Len(line_buf) < LINE_MAX
     THEN /\ line_buf' = Append(line_buf, c)
          /\ scr' = fb_shell_putchar(scr, c)
     ELSE UNCHANGED <<line_buf, scr>>
  /\ shell_pc' = "check"
  /\ UNCHANGED <<ringVars, shift_pressed, tmp, c, halted>>

Shell == GetEmpty \/ GetCheck \/ GetRead \/ GetAdvance
         \/ (~halted /\ ShellEnter) \/ ShellBackspace \/ ShellChar

ConsoleNext == Shell \/ \E sc \in Scancodes : ~halted /\ keyboard_callback(sc)
ConsoleSpec == ConsoleInit /\ [][ConsoleNext]_consoleVars

----------------------------------------------------------------------------

\* The ring's ends stay in the ring, the line in line_buf and the cursor on the
\* screen (key_ring_push, shell_run, fb_shell_putchar).
ConsoleTypeOK ==
  /\ g_key_ring \in [0 .. RING - 1 -> Chars \cup {Nul}]
  /\ g_key_head \in 0 .. RING - 1 /\ g_key_tail \in 0 .. RING - 1
  /\ shift_pressed \in BOOLEAN /\ halted \in BOOLEAN
  /\ shell_pc \in {"check", "read", "advance", "handle"}
  /\ tmp \in Chars \cup {Nul} /\ c \in Chars \cup {Nul}
  /\ line_buf \in BoundedSeq(Printable, LINE_MAX)
  /\ scr.lines \in [0 .. FB_SHELL_ROWS - 1 -> Row]
  /\ scr.row \in 0 .. FB_SHELL_ROWS - 1 /\ scr.col \in 0 .. FB_SHELL_COLS

\* The characters in the ring, oldest first.
InRing == [i \in 1 .. (g_key_head - g_key_tail) % RING |->
             g_key_ring[(g_key_tail + i - 1) % RING]]

Queue == INSTANCE KeyQueue WITH Capacity <- RING - 1, queue <- InRing, got <- c

\* The ring and its two unlocked ends implement a bounded queue: whatever the
\* interrupt handler does between the steps of keyboard_get_char, the shell
\* gets the characters in the order typed, each once, and only a full ring
\* drops one, the one just typed.
ImplementsQueue == Queue!QueueSpec

\* What the n-th cell after the start of the prompt has to show.
Expected(n) == LET text == Prompt \o line_buf
               IN IF n < Len(text) THEN text[n + 1] ELSE Nul

\* What the user sees after the prompt is what Enter would execute: echo,
\* backspace, wrapping and scrolling in fb_shell.c keep step with line_buf in
\* shell.c - while the prompt's row has not been scrolled away, and until a
\* backspace at the left edge of a wrapped row removes a character from
\* line_buf that stays on the screen.
LineShown ==
  shell_pc \in {"check", "read", "advance"} /\ scr.span <= scr.row /\ ~scr.stuck =>
    \A r \in 0 .. scr.span, i \in 0 .. FB_SHELL_COLS - 1 :
      scr.lines[scr.row - scr.span + r][i] = Expected(r * FB_SHELL_COLS + i)

\* Line editor and screen agree between any two steps of the shell.
ConsoleInv == ConsoleTypeOK /\ LineShown
=============================================================================
