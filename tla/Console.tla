------------------------------ MODULE Console ------------------------------
(***************************************************************************)
(* The text on the screen (lib.c): where characters are put, what new      *)
(* lines, tabs and backspaces do to the cursor, and how the line that is   *)
(* being typed (keyboard.c) looks.                                         *)
(*                                                                         *)
(* This is the terminal on show: keys are echoed on its page whichever     *)
(* terminal runs, and its own program prints there (Screens says why).     *)
(* The screen is a record, and the routines of lib.c are operators from    *)
(* screens to screens.  A character is what it is to the screen: a letter  *)
(* or a space that was typed, something a program printed, something the   *)
(* kernel printed, or NUL for an empty cell.  A write() of several         *)
(* characters is several steps; a message of the kernel is one.            *)
(***************************************************************************)
EXTENDS Integers, SequencesExt

CONSTANTS
  NumCols, NumRows,  \* 80 by 25 in the code
  TabWidth,          \* 4 in the code
  KB_BUFFER,         \* the capacity of the line; 128 in the code
  MessageLengths,    \* of the messages about an exception
  Chars              \* bound: what is typed with keys other than the tab key

ASSUME ConsoleAssumption ==
  /\ NumCols \in Nat /\ NumRows \in Nat \ {0} /\ TabWidth \in Nat \ {0} /\ KB_BUFFER \in Nat
  /\ NumCols > TabWidth /\ KB_BUFFER + TabWidth <= NumCols * (NumRows - 1)
  /\ MessageLengths \subseteq Nat \ {0} /\ Chars \subseteq {"typed", "space"}

VARIABLES
  screen,              \* the cells, screen_x, screen_y, and the hardware cursor
  kb_buf, kb_buf_num,  \* the line being typed, and how many characters were typed for it
  enter_flag,          \* ENTER was pressed
  terminal_read_flag,  \* typing is accepted
  waiting,             \* the program is in terminal_read()
  since                \* history: what changed the screen since the line began

keyVars == <<kb_buf, kb_buf_num, enter_flag, terminal_read_flag, waiting>>
vars == <<screen, keyVars, since>>

NUL == "empty"
Letter == "typed"
Space == "space"
Printed == "printed"
Message == "message"

\* The last cell is not on the screen: it is the one after it.
Past == NumCols * NumRows
Cells == 0..Past

Pos(s) == NumCols * s.y + s.x

Init ==
  /\ screen = [cell |-> [i \in Cells |-> NUL], x |-> 0, y |-> 0, hw |-> 0]
  /\ kb_buf = <<>> /\ kb_buf_num = 0
  /\ enter_flag = FALSE /\ terminal_read_flag = FALSE /\ waiting = FALSE
  /\ since = {}

-----------------------------------------------------------------------------
(* lib.c.  The routines end in update_cursor(): the cursor is drawn at the *)
(* place where the next character goes.                                    *)

Drawn(cell, x, y) == [cell |-> cell, x |-> x, y |-> y, hw |-> NumCols * y + x]

\* The rows move up by one; the last row is emptied.
RowsUp(cell) ==
  [i \in Cells |-> IF i = Past THEN cell[i]
                   ELSE IF i < Past - NumCols THEN cell[i + NumCols] ELSE NUL]

scroll_screen(s) == Drawn(RowsUp(s.cell), 0, NumRows - 1)

\* Mutant: the last row is not special.
EnterWithoutScroll(s) == Drawn(s.cell, 0, s.y + 1)

key_enter(s) == IF s.y = NumRows - 1 THEN scroll_screen(s) ELSE Drawn(s.cell, 0, s.y + 1)

\* The column k characters after column x: a row has a column too many, and what
\* follows it is column 1 of the same row.
Column(x, k) == IF x + k <= NumCols THEN x + k ELSE ((x + k - 1) % NumCols) + 1

Filled(cell, places, c) == [i \in Cells |-> IF i \in places THEN c ELSE cell[i]]

putc(s, c) == Drawn(Filled(s.cell, {Pos(s)}, c), Column(s.x, 1), s.y)

\* puts() and printf() of n characters: no row is left.
puts(s, n) ==
  Drawn(Filled(s.cell, {NumCols * s.y + Column(s.x, k) : k \in 0..(n - 1)}, Message),
        Column(s.x, n), s.y)

\* Mutant: a full row is left only when it is the last.
EndlineAtBottom(s) ==
  IF s.x = NumCols /\ s.y = NumRows - 1 THEN scroll_screen(s) ELSE Drawn(s.cell, s.x, s.y)

\* endline() and add_newline_if_right_edge(): a full row is left.
endline(s) == IF s.x = NumCols THEN key_enter(s) ELSE Drawn(s.cell, s.x, s.y)

add_newline_if_line_not_empty(s) == IF s.x # 0 THEN key_enter(s) ELSE s

\* A tab that reaches the edge begins a new row; its spaces fit in the row.
Jumps(s) == s.x >= NumCols - TabWidth

key_tab(s) ==
  LET t == IF Jumps(s) THEN key_enter(s) ELSE s
  IN  Drawn(Filled(t.cell, Pos(t)..(Pos(t) + TabWidth - 1), Space), t.x + TabWidth, t.y)

\* Mutant: spaces count as empty cells.
SpacesAreEmpty(s, row, i) == s.cell[NumCols * row + i] \in {NUL, Space}

IsEmpty(s, row, i) == s.cell[NumCols * row + i] = NUL

\* From column x of a row leftwards, cells are emptied until the next one is not
\* empty; column 0 is reached only from the column beside it.
Stop(s, row, x) ==
  LET stops == {i \in 1..x : i = 1 \/ ~IsEmpty(s, row, i - 1)}
  IN  IF x = 0 THEN 0 ELSE CHOOSE i \in stops : \A j \in stops : j <= i

EraseFrom(s, row, x) ==
  Drawn(Filled(s.cell, (NumCols * row + Stop(s, row, x))..(NumCols * row + x), NUL),
        Stop(s, row, x), row)

\* In the corner the column moves on, but not the cursor that is drawn.
key_backspace(s) ==
  IF s.x > 0 THEN EraseFrom(s, s.y, s.x - 1)
  ELSE IF s.y > 0 THEN EraseFrom(s, s.y - 1, NumCols - 1)
  ELSE [putc(s, NUL) EXCEPT !.hw = 0]

-----------------------------------------------------------------------------
(* Keys.  The user waits until a line that was entered is taken.           *)

\* Something other than typing changes the screen.
Disturbed(how) == since' = IF kb_buf_num = 0 THEN since ELSE since \cup {how}

Accepts == terminal_read_flag /\ ~enter_flag
HasRoom == Accepts /\ kb_buf_num < KB_BUFFER

\* What there is room for of n characters c.
kb_buf_add(c, n) ==
  /\ kb_buf' = SubSeq(kb_buf \o [i \in 1..n |-> c], 1,
                      IF kb_buf_num + n <= KB_BUFFER THEN kb_buf_num + n ELSE KB_BUFFER)
  /\ kb_buf_num' = kb_buf_num + n
  /\ UNCHANGED <<enter_flag, terminal_read_flag, waiting>>

\* Letters and the space key.
KeyChar(c) ==
  /\ HasRoom
  /\ screen' = putc(endline(screen), c)
  /\ kb_buf_add(c, 1)
  /\ UNCHANGED since

KeyTab ==
  /\ HasRoom
  /\ screen' = key_tab(screen)
  /\ kb_buf_add(Space, TabWidth)
  /\ IF Jumps(screen) /\ screen.x < NumCols THEN Disturbed("move") ELSE UNCHANGED since

\* Mutant: backspace is taken whatever was typed.
BackspaceAlways ==
  /\ Accepts
  /\ screen' = key_backspace(screen)
  /\ kb_buf_num' = IF kb_buf_num > 0 THEN kb_buf_num - 1 ELSE 0
  /\ kb_buf' = SubSeq(kb_buf, 1, IF kb_buf_num' < Len(kb_buf) THEN kb_buf_num' ELSE Len(kb_buf))
  /\ since' = IF kb_buf_num' = 0 THEN {} ELSE since
  /\ UNCHANGED <<enter_flag, terminal_read_flag, waiting>>

KeyBackspace ==
  /\ Accepts /\ kb_buf_num > 0
  /\ screen' = key_backspace(screen)
  /\ kb_buf_num' = kb_buf_num - 1
  /\ kb_buf' = IF kb_buf_num <= KB_BUFFER THEN Front(kb_buf) ELSE kb_buf
  /\ since' = IF kb_buf_num = 1 THEN {} ELSE since
  /\ UNCHANGED <<enter_flag, terminal_read_flag, waiting>>

\* The buffer waits for the program; the line that is typed begins again.
KeyEnter ==
  /\ Accepts
  /\ screen' = key_enter(screen)
  /\ enter_flag' = TRUE /\ kb_buf' = <<>> /\ kb_buf_num' = 0 /\ since' = {}
  /\ UNCHANGED <<terminal_read_flag, waiting>>

\* The rows of the screen are cleared; the place after its end is not one of them.
clear(cell) == [i \in Cells |-> IF i = Past THEN cell[i] ELSE NUL]

\* Ctrl+L clears the screen, not the line.
KeyClear ==
  /\ screen' = Drawn(clear(screen.cell), 0, 0)
  /\ Disturbed("move")
  /\ UNCHANGED keyVars

\* Ctrl+C drops the line and halts the program; typing is still accepted.  When the
\* terminal does not run, the halt is later: what is typed till then is as if it
\* were typed before the next program prints.
KeyCtrlC ==
  /\ ~enter_flag
  /\ kb_buf' = <<>> /\ kb_buf_num' = 0 /\ since' = {}
  /\ waiting' = FALSE
  /\ UNCHANGED <<screen, enter_flag, terminal_read_flag>>

-----------------------------------------------------------------------------
(* The program and the kernel                                              *)

\* terminal_write(): a character, or a new line.
Write(newline) ==
  /\ ~waiting
  /\ LET s == endline(screen)
     IN  screen' = IF newline THEN key_enter(s) ELSE putc(s, Printed)
  /\ Disturbed("output")
  /\ UNCHANGED keyVars

\* Bound: the kernel prints when nothing it has printed is on the screen any more.
NoMessage == \A i \in Cells : screen.cell[i] # Message

\* An exception of the program: the kernel prints two lines and halts it.
Exception(n, m) ==
  /\ ~waiting /\ NoMessage
  /\ screen' = key_enter(puts(key_enter(puts(screen, n)), m))
  /\ Disturbed("output")
  /\ UNCHANGED keyVars

\* The timer finds no process for a terminal the user has asked for; its message
\* fits in the row.
Refusal ==
  /\ terminal_read_flag /\ NoMessage
  /\ screen' = key_enter(puts(add_newline_if_line_not_empty(screen), 1))
  /\ Disturbed("output")
  /\ UNCHANGED keyVars

ReadStarts ==
  /\ ~waiting
  /\ waiting' = TRUE /\ terminal_read_flag' = TRUE /\ enter_flag' = FALSE
  /\ UNCHANGED <<screen, kb_buf, kb_buf_num, since>>

ReadReturns ==
  /\ waiting /\ enter_flag
  /\ waiting' = FALSE /\ terminal_read_flag' = FALSE /\ enter_flag' = FALSE
  /\ UNCHANGED <<screen, kb_buf, kb_buf_num, since>>

Next ==
  \/ \E c \in Chars : KeyChar(c)
  \/ KeyTab \/ KeyBackspace \/ KeyEnter \/ KeyClear \/ KeyCtrlC
  \/ \E newline \in BOOLEAN : Write(newline)
  \/ \E n, m \in MessageLengths : Exception(n, m)
  \/ Refusal \/ ReadStarts \/ ReadReturns

Spec == Init /\ [][Next]_vars

-----------------------------------------------------------------------------
(* Properties                                                              *)

\* However rows are filled, left, scrolled, erased and cleared, the next character
\* has a place on the screen or just after its row, and the cursor is drawn there.
\* The one exception is a backspace in the corner: the cursor stays, the place
\* moves on.
CursorAtPlace ==
  /\ screen.x \in 0..NumCols /\ screen.y \in 0..(NumRows - 1)
  /\ screen.hw = Pos(screen) \/ (screen.hw = 0 /\ Pos(screen) = 1)

\* Nothing that was typed or printed by a program lies where the next characters
\* go, or after the end of the screen: text leaves the screen at the top, or is
\* erased, but what is typed or printed by a program does not write over it.  A
\* message of the kernel does: one longer than the rest of its row goes on at the
\* start of the same row, over the text there, and leaves its own characters ahead.
NothingAhead ==
  \A i \in Cells : i >= Pos(screen) => screen.cell[i] \in {NUL, Message}

\* The text that ends at the cursor is the line that is being typed, as long as
\* the screen was changed by typing alone since the line began, and no tab has
\* jumped to a new row in it.
Typed == kb_buf \o [i \in 1..(kb_buf_num - Len(kb_buf)) |-> Space]

\* The n characters just before the place are those of line.
EndsWith(s, n, line) ==
  /\ n <= Pos(s)
  /\ \A i \in 1..n : s.cell[Pos(s) - n + i - 1] = line[i]

EchoMatches == since = {} => EndsWith(screen, kb_buf_num, Typed)

\* Backspace does not erase what the user did not type: what programs and the
\* kernel printed stays, whatever was cleared and wherever tabs have jumped, unless
\* it was printed in the middle of the line.
OutputKept ==
  [][KeyBackspace /\ "output" \notin since =>
       \A i \in Cells : screen.cell[i] \in {Printed, Message} => screen'.cell[i] = screen.cell[i]]_vars
=============================================================================
