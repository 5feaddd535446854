--------------------------- MODULE TerminalInput ---------------------------
(***************************************************************************)
(* Typing and reading lines: the keyboard handler and its line buffers     *)
(* (keyboard.c) and terminal_read() (terminal.c).                          *)
(*                                                                         *)
(* A keyboard interrupt is one step.  read() enables interrupts before it  *)
(* calls terminal_read(), so the statements of terminal_read() are steps   *)
(* of their own, between which the keyboard and the timer can do anything. *)
(* pc[t] says which one comes next in the process on top of terminal t;    *)
(* only that of terminal_curr takes steps.                                 *)
(*                                                                         *)
(* kb_buf_full_flag is left out: all it makes terminal_read() do is copy   *)
(* into the caller's buffer what the final copy writes over.  Its one      *)
(* other effect, a store past its end, is in ResetFull.  Programs read     *)
(* whole lines (nbytes >= KB_BUFFER), as the shell does.                   *)
(***************************************************************************)
EXTENDS TerminalSwitch, Sequences

CONSTANTS KB_BUFFER,     \* the capacity of a line buffer; 128 in the code
          TabWidth,      \* the spaces a tab is typed as; 4 in the code
          Chars, Space,  \* what can be typed
          Nul,           \* the byte of an empty place
          Used           \* bound: the terminals the user asks for, and terminal 1

ASSUME InputAssumption ==
  /\ KB_BUFFER \in Nat \ {0} /\ TabWidth \in Nat \ {0}
  /\ Space \in Chars /\ Nul \notin Chars
  /\ Used \subseteq Terminals /\ 1 \in Used

VARIABLES
  kb_buf,              \* the line buffer of each terminal
  kb_buf_num,          \* characters echoed since the line began
  enter_flag,          \* the terminals with an ENTER to be taken
  terminal_read_flag,  \* the terminals that accept typing
  kb_exit_flag,        \* the terminals whose program is to be halted
  pc,                  \* the next statement of terminal_read(), or "user"
  user_buf             \* what a read that is about to return has copied

keyVars == <<kb_buf, kb_buf_num, enter_flag, terminal_read_flag, kb_exit_flag>>
inputVars == <<keyVars, pc, user_buf>>
vars == <<switchVars, inputVars>>

NoLine == <<Nul>>
Empty == [i \in 1..KB_BUFFER |-> Nul]
shown == terminal_on_display_curr

Init ==
  /\ SwitchInit
  /\ kb_buf = [t \in Used |-> Empty] /\ kb_buf_num = [t \in Used |-> 0]
  /\ enter_flag = {} /\ terminal_read_flag = {} /\ kb_exit_flag = {}
  /\ pc = [t \in Used |-> "user"] /\ user_buf = [t \in Used |-> NoLine]

-----------------------------------------------------------------------------
(* The keyboard handler                                                    *)

\* The line buffer gets c in the n places after the characters typed so far, as
\* far as there is room; all of them are counted.
kb_buf_add(t, c, n) ==
  LET m == kb_buf_num[t]
  IN  /\ kb_buf' = [kb_buf EXCEPT ![t] =
                      [i \in 1..KB_BUFFER |-> IF i > m /\ i <= m + n THEN c ELSE @[i]]]
      /\ kb_buf_num' = [kb_buf_num EXCEPT ![t] = m + n]

\* Mutant: the place is cleared only when it is counted within the buffer before.
RemoveBelowCapacity(t) ==
  LET m == kb_buf_num[t]
  IN  /\ kb_buf_num' = [kb_buf_num EXCEPT ![t] = m - 1]
      /\ kb_buf' = IF m < KB_BUFFER THEN [kb_buf EXCEPT ![t][m] = Nul] ELSE kb_buf

kb_buf_remove_last_char(t) ==
  LET m == kb_buf_num[t]
  IN  /\ kb_buf_num' = [kb_buf_num EXCEPT ![t] = m - 1]
      /\ kb_buf' = IF m - 1 < KB_BUFFER THEN [kb_buf EXCEPT ![t][m] = Nul] ELSE kb_buf

\* Mutant: the buffer is never full.
HasRoomAlways == shown \in terminal_read_flag

\* Whether the terminal on show takes a key that is to be added to its line.
HasRoom == shown \in terminal_read_flag /\ kb_buf_num[shown] < KB_BUFFER

KeyChar(c) ==
  /\ HasRoom
  /\ kb_buf_add(shown, c, 1)
  /\ UNCHANGED <<switchVars, enter_flag, terminal_read_flag, kb_exit_flag, pc, user_buf>>

KeyTab ==
  /\ HasRoom
  /\ kb_buf_add(shown, Space, TabWidth)
  /\ UNCHANGED <<switchVars, enter_flag, terminal_read_flag, kb_exit_flag, pc, user_buf>>

KeyBackspace ==
  /\ shown \in terminal_read_flag
  /\ kb_buf_num[shown] > 0
  /\ kb_buf_remove_last_char(shown)
  /\ UNCHANGED <<switchVars, enter_flag, terminal_read_flag, kb_exit_flag, pc, user_buf>>

\* Mutant: the ENTER is given to the terminal that runs.
EnterForRunning ==
  /\ shown \in terminal_read_flag
  /\ enter_flag' = enter_flag \cup {terminal_curr}
  /\ kb_buf_num' = [kb_buf_num EXCEPT ![terminal_curr] = 0]
  /\ UNCHANGED <<switchVars, kb_buf, terminal_read_flag, kb_exit_flag, pc, user_buf>>

\* The buffer is left for terminal_read() to copy and clear.
KeyEnter ==
  /\ shown \in terminal_read_flag
  /\ enter_flag' = enter_flag \cup {shown}
  /\ kb_buf_num' = [kb_buf_num EXCEPT ![shown] = 0]
  /\ UNCHANGED <<switchVars, kb_buf, terminal_read_flag, kb_exit_flag, pc, user_buf>>

\* The program on top of terminal t is halted, wherever it was: the one below,
\* or a new shell, goes on in user mode.
Killed(t) == /\ pc' = [pc EXCEPT ![t] = "user"]
             /\ user_buf' = [user_buf EXCEPT ![t] = NoLine]

KeyCtrlC ==
  /\ kb_buf_num' = [kb_buf_num EXCEPT ![shown] = 0]
  /\ kb_buf' = [kb_buf EXCEPT ![shown] = Empty]
  /\ IF terminal_curr = shown
     THEN Killed(shown) /\ UNCHANGED kb_exit_flag
     ELSE kb_exit_flag' = kb_exit_flag \cup {shown} /\ UNCHANGED <<pc, user_buf>>
  /\ UNCHANGED <<switchVars, enter_flag, terminal_read_flag>>

KeyAltFn ==
  /\ \E t \in Used : Request(t)
  /\ active' \subseteq Used
  /\ UNCHANGED inputVars

Typing == (\E c \in Chars : KeyChar(c)) \/ KeyTab \/ KeyBackspace \/ KeyEnter

-----------------------------------------------------------------------------
(* terminal_read(), statement by statement, in the process that runs       *)

At(here, there) == /\ pc[terminal_curr] = here
                   /\ pc' = [pc EXCEPT ![terminal_curr] = there]

\* The call; the ENTER that is cleared is that of the terminal on show.
ResetEnter ==
  /\ At("user", "reset_full")
  /\ enter_flag' = enter_flag \ {shown}
  /\ UNCHANGED <<switchVars, kb_buf, kb_buf_num, terminal_read_flag, kb_exit_flag, user_buf>>

\* kb_buf_full_flag[terminal_on_display_curr] = 0: with terminal 3 on show the
\* store goes past the array, over kb_exit_flag in the build that keeps the
\* order of the declarations.
ResetFull ==
  /\ At("reset_full", "set_flag")
  /\ kb_exit_flag' \in IF shown = 3 THEN {kb_exit_flag, {}} ELSE {kb_exit_flag}
  /\ UNCHANGED <<switchVars, kb_buf, kb_buf_num, enter_flag, terminal_read_flag, user_buf>>

\* The program passed no buffer.
RefuseBuffer ==
  /\ At("set_flag", "user")
  /\ UNCHANGED <<switchVars, keyVars, user_buf>>

\* Mutant: typing is enabled on the terminal on show.
SetShownFlag ==
  /\ At("set_flag", "test_enter")
  /\ terminal_read_flag' = terminal_read_flag \cup {shown}
  /\ UNCHANGED <<switchVars, kb_buf, kb_buf_num, enter_flag, kb_exit_flag, user_buf>>

SetReadFlag ==
  /\ At("set_flag", "test_enter")
  /\ terminal_read_flag' = terminal_read_flag \cup {terminal_curr}
  /\ UNCHANGED <<switchVars, kb_buf, kb_buf_num, enter_flag, kb_exit_flag, user_buf>>

\* The loop's first test; when it fails the loop starts again.
TestEnter ==
  /\ At("test_enter", "test_shown")
  /\ shown \in enter_flag
  /\ UNCHANGED <<switchVars, keyVars, user_buf>>

\* The loop's second test.
TestShown ==
  /\ At("test_shown", IF terminal_curr = shown THEN "clear_flag" ELSE "test_enter")
  /\ UNCHANGED <<switchVars, keyVars, user_buf>>

ClearReadFlag ==
  /\ At("clear_flag", "copy")
  /\ terminal_read_flag' = terminal_read_flag \ {terminal_curr}
  /\ UNCHANGED <<switchVars, kb_buf, kb_buf_num, enter_flag, kb_exit_flag, user_buf>>

\* The string a program finds in a buffer: what precedes the first empty place.
Text(b) == LET n == CHOOSE n \in 0..KB_BUFFER :
                      /\ \A i \in 1..n : b[i] # Nul
                      /\ n = KB_BUFFER \/ b[n + 1] = Nul
           IN  SubSeq(b, 1, n)

\* The copy and the clearing after it go byte by byte with interrupts enabled.  One
\* step each: while they last, the keys of a patient user and the reads of other
\* terminals leave this buffer alone, and no other property is about its contents.
CopyLine ==
  /\ At("copy", "clear_buf")
  /\ user_buf' = [user_buf EXCEPT ![terminal_curr] = Text(kb_buf[shown])]
  /\ UNCHANGED <<switchVars, keyVars>>

ClearBuffer ==
  /\ At("clear_buf", "take_enter")
  /\ kb_buf' = [kb_buf EXCEPT ![shown] = Empty]
  /\ UNCHANGED <<switchVars, kb_buf_num, enter_flag, terminal_read_flag, kb_exit_flag, user_buf>>

\* The ENTER is taken and the read returns.
TakeEnter ==
  /\ At("take_enter", "user")
  /\ enter_flag' = enter_flag \ {shown}
  /\ user_buf' = [user_buf EXCEPT ![terminal_curr] = NoLine]
  /\ UNCHANGED <<switchVars, kb_buf, kb_buf_num, terminal_read_flag, kb_exit_flag>>

ReadStep == ResetFull \/ RefuseBuffer \/ SetReadFlag \/ TestEnter \/ TestShown
            \/ ClearReadFlag \/ CopyLine \/ ClearBuffer \/ TakeEnter

-----------------------------------------------------------------------------
(* Timer interrupts                                                        *)

\* The CPU goes to terminal n; a Ctrl+C that was pending there is carried out.
PitGoTo(n) ==
  /\ GoTo(n)
  /\ \/ n \in kb_exit_flag /\ Killed(n)
     \/ n \notin kb_exit_flag /\ UNCHANGED <<pc, user_buf>>
  /\ kb_exit_flag' = kb_exit_flag \ {n}
  /\ UNCHANGED <<kb_buf, kb_buf_num, enter_flag, terminal_read_flag>>

PitRefuse(n) == Refuse(n) /\ UNCHANGED inputVars

-----------------------------------------------------------------------------
Next ==
  \/ Typing \/ KeyCtrlC \/ KeyAltFn
  \/ ResetEnter \/ ReadStep
  \/ \E n \in Used : PitGoTo(n) \/ PitRefuse(n)

Spec == Init /\ [][Next]_vars

\* A time slice is far longer than a statement, so the read of a terminal that
\* keeps getting the CPU goes on.  The user keeps pressing ENTER at a terminal that
\* waits for it, and no program calls read() without a buffer for ever: each
\* such call would wipe an ENTER out.
FairSpec ==
  /\ Spec
  /\ SwitchFairness
  /\ \A t \in Used : SF_vars(terminal_curr = t /\ ReadStep)
  /\ WF_vars(KeyEnter)
  /\ <>[][~RefuseBuffer]_vars

\* The kernel has dealt with what the user did last: the terminal asked for is on
\* show, no ENTER or Ctrl+C waits and no read is on its way in or out.
Settled ==
  /\ terminal_on_display_next = shown
  /\ enter_flag = {} /\ kb_exit_flag = {}
  /\ \A t \in Used : pc[t] \in {"user", "test_enter"}

\* A patient user acts only then, and types only at a terminal whose program
\* waits for a line; no program begins to read while an ENTER waits.
PatientNext ==
  \/ Settled /\ (KeyCtrlC \/ KeyAltFn)
  \/ Settled /\ pc[shown] = "test_enter" /\ Typing
  \/ enter_flag = {} /\ ResetEnter
  \/ ReadStep
  \/ \E n \in Used : PitGoTo(n) \/ PitRefuse(n)

PatientSpec == Init /\ [][PatientNext]_vars

-----------------------------------------------------------------------------
(* Properties                                                              *)

\* The character count stays within a tab of the capacity, whatever is typed.
TypeOK ==
  /\ SwitchTypeOK
  /\ kb_buf \in [Used -> [1..KB_BUFFER -> Chars \cup {Nul}]]
  /\ kb_buf_num \in [Used -> 0..(KB_BUFFER + TabWidth - 1)]
  /\ enter_flag \subseteq Used /\ terminal_read_flag \subseteq Used
  /\ kb_exit_flag \subseteq Used
  /\ pc \in [Used -> {"user", "reset_full", "set_flag", "test_enter", "test_shown",
                      "clear_flag", "copy", "clear_buf", "take_enter"}]
  /\ \A t \in Used :
       user_buf[t] = NoLine \/ \A i \in DOMAIN user_buf[t] : user_buf[t][i] \in Chars

\* Wherever the display and the CPU have gone meanwhile, a terminal accepts
\* typing as long as its program waits for a line, and no longer once the
\* program is taking the line.
TypingFollowsRead ==
  \A t \in Used :
    /\ pc[t] \in {"test_enter", "test_shown"} => t \in terminal_read_flag
    /\ pc[t] \in {"copy", "clear_buf", "take_enter"} => t \notin terminal_read_flag

\* A program that waits for a line gets one if its terminal stays on show and
\* the user keeps pressing ENTER: programs that begin to read elsewhere can
\* wipe an ENTER out, but only so often.
UserAnswered ==
  \A t \in Used :
    pc[t] = "test_enter" ~> pc[t] \notin {"test_enter", "test_shown"} \/ shown # t

\* An ENTER is taken by a program of the terminal it was pressed at.
\* (What the comments on the line buffers say; the code does not.)
EnterKept == [][\A t \in enter_flag \ enter_flag' : terminal_curr = t]_vars

-----------------------------------------------------------------------------
(* The lines as the user and the programs see them                         *)

\* How many of the characters counted are in the buffer.
Kept(n) == IF n > KB_BUFFER THEN KB_BUFFER ELSE n

Line == [t \in Used |-> SubSeq(kb_buf[t], 1, Kept(kb_buf_num[t]))]

Surplus == [t \in Used |-> kb_buf_num[t] - Kept(kb_buf_num[t])]

Entered == [t \in Used |-> IF t \in enter_flag /\ pc[t] \notin {"clear_buf", "take_enter"}
                          THEN Text(kb_buf[t]) ELSE NoLine]

Reading == {t \in Used : pc[t] \notin {"user", "reset_full", "set_flag"}}

Lines == INSTANCE LineDiscipline
  WITH Users <- Used, Capacity <- KB_BUFFER, line <- Line, surplus <- Surplus,
       entered <- Entered, given <- user_buf, reading <- Reading

\* For a patient user every line goes, whole and once, to the program that reads
\* on the terminal it was typed at.
ImplementsLines == Lines!Spec

=============================================================================
