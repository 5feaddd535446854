# IAAA-OS in TLA+

A verification project for the IAAA-OS kernel (`src/student-distrib`) and its
programs (`src/syscalls`, `src/fish`): three terminals on one screen, each with
its own stack of programs, scheduled round robin by the timer.  The modules are
read off the C and assembly code; `PROJECT.json` names the lines each
definition stands for.

Contents: [the system](#1-the-system) · [modules](#2-the-modules) ·
[runs](#3-the-runs) · [fairness](#4-fairness) · [proofs](#5-the-proofs) ·
[where the code disagrees with its comments](#6-findings) ·
[what is left out](#7-what-is-not-modelled) · [plan](#8-plan)

## 1. The system

| Component | Source | State | Operations |
|---|---|---|---|
| Processes | `system_calls.c` | `PID[4]`, `pid_bitmap[6]`, the PCBs, `tss.esp0`, user page | `execute`, `halt` |
| Scheduler | `pit_init.c` | `terminal_curr/next`, `terminal_2/3_active`, saved stack pointers | PIT handler |
| Display | `paging.c`, `pit_init.c`, `lib.c` | four video pages, the kernel's and the user's video mapping, four cursors, `terminal_on_display_curr/next` | switch in the PIT handler, `vidmap`, printing |
| Keyboard | `keyboard.c` | `kb_buf`, `kb_buf_num`, `enter_flag`, `kb_exit_flag`, modifier flags | one interrupt per scan code |
| Terminal read | `terminal.c` | `terminal_read_flag` | `terminal_read`, `terminal_write` |
| Real-time clock | `rtc_init.c` | `virtual_rtc_freq`, `rtc_counter` | `rtc_open/close/read/write`, clock interrupt |
| Descriptors | `system_calls.c` | `fd_arr[8]` of each PCB | `open`, `close`, `read`, `write` |
| File system | `fileSystem.c` | an immutable image, a position per descriptor | `read_dentry_*`, `read_data`, `file_read`, `dir_read` |
| Arguments, status | `system_calls.c`, `handler_setup.c` | one global `args[128]` | `execute`, `getargs`, `halt`, exceptions |
| Screen text | `lib.c` | `screen_x`, `screen_y`, the cells | `putc`, `key_*`, `endline`, `scroll_screen` |
| Programs | `src/syscalls` | where each is | the calls it makes; the shell's reports |
| Fish program | `src/fish` | the slots and the list of blinkers, the screen it maps | `mp1_ioctl_*`, `mp1_rtc_tasklet`, `add_frames` |
| Hardware set-up | `kernel.c`, `handler_setup.c`, `i8259.c`, `*.S` | descriptor tables, masks | once at boot |

How they interact.  Everything is global shared state.  The gates in the IDT
are interrupt gates, so handlers and system calls run with interrupts
disabled, with one exception: `read()` executes `sti` (`system_calls.c:412`)
before it calls the read routine of the device.  `terminal_read()`, `rtc_read()`,
`file_read()` and `dir_read()` are therefore preemptible between any two statements, while
everything else is one step.  The keyboard handler can end in `halt()`
(Ctrl+C), and so can the timer handler (a Ctrl+C deferred for the terminal it
switches to); the timer handler can also end in `execute()`, when it visits a
terminal for the first time.  Handlers act on three different "current"
terminals: the one that runs (`terminal_curr`), the one on show
(`terminal_on_display_curr`) and the one asked for (`terminal_on_display_next`).
Most of what can go wrong is a mix-up among these three, or one of them
changing between two uses.  The hazards are listed, each at its line, in
`PROJECT.json`.

What makes each component correct:

* **Processes**: the processes of each terminal form one stack whose top is
  `PID[t]`; the count agrees with the bitmap; a parent outlives its child.
* **Scheduler**: a switch resumes a process on its own stack, page and TSS;
  every terminal with a process gets the CPU; a display request is served or
  given up; a deferred Ctrl+C ends the program it was meant for.
* **Display**: every terminal has a screen of its own; text is never lost or
  drawn on a screen it does not belong to.
* **Keyboard and read**: buffer indices are bounded, a line goes whole and once
  to the program it was typed for, a reader on show is answered.
* **Files**: successive reads give the contents in order, once and without a
  gap; every read makes progress until the end.
* **Clock**: a read waits for a period, ends, and never divides by zero.
* **Screen text**: the cursor has its place on the screen, nothing is written
  over, the line one sees is the line in the buffer, and backspace leaves alone
  what programs printed.
* **Programs**: the shell reports how a command ended; every call that should
  fail does; a program gets the arguments of its own command (it does not).
* **Fish**: slots and pointers behave as a list of blinkers, each with its own
  rhythm; two text files become their overlay.

## 2. The modules

    TerminalStacks <-(refines)- Scheduler <------extends-- SchedulerProofs
                                  | (refines)
                                  v
                             TerminalSwitch
                                  ^  is extended by
                                  |
      +-----------+---------------+-----------+-----------+
      |           |               |           |           |
    Screens   TerminalInput   VirtualRtc    Files     Programs
      | (refines) | (refines)                 |           |
      v           v                        extends     extends
    LogicalScreens                            v           v
              LineDiscipline              FileSystem  ProgramText

    Console                      Blink -(refines)-> BlinkerList

Each of `Scheduler`, `Screens`, `TerminalInput`, `VirtualRtc`, `Files`,
`Programs`, `Console` and `Blink` is extended by a module of proofs
(`SchedulerProofs`, ...), and `Files`, `Programs` and `Blink` also by `MCFiles`,
`MCPrograms` and `MCBlink`, with the constants that a configuration cannot write.

`Screens` says which page a character goes to, `Console` what it does there;
`TerminalInput` says how a line gets to its program, `Console` how it looks
meanwhile; `Files` says what a read gives, `Programs` what a program makes of it.

**Scheduler** — `halt`, `execute`, the PIT handler, Alt+Fn, Ctrl+C.  A kernel
stack is named by the pid whose 8 kB block holds it, so "saved stack pointer"
and "TSS stack" are pids.  `Launch` is `execute()` after its checks; `ReturnToParent`
and `Respawn` are the two ends of `halt()`; the actions `PitStay`, `PitLimit`,
`PitCreate`, `PitSwitch` and `PitSwitchAndHalt` are the paths through
`pit_handler()`.  `AltFn(F)` takes the set of function keys held down, because
the handler looks at all three flags on every interrupt.  `TerminalRead` is
there for one store only, see [findings](#6-findings).

**TerminalStacks** (abstract) — each terminal holds a sequence of processes;
only the running terminal's sequence moves.  The mapping, at the end of
`Scheduler`, is the sequence that ends with `PID[t]` and in which `parentId`
leads from each process to the one before.

**TerminalSwitch** (abstract) — only which terminal runs, shows, is asked for,
is in the round robin (`active`) and has a process.  The CPU goes only to
terminals of the round robin, into which Alt+Fn puts them (`Request`, several
when several keys are down) and which they leave at the process limit
(`Refuse`).  It may go to any of them, where the code has an order.
`Scheduler` implements it, and the five modules below use it in the place of
the whole scheduler.

**Screens** — page 0 is the monitor, page t the background page of terminal t.
What a page holds and where a cursor stands are values of two constant sets.
`PitGoTo` is the display part of a switch, `PitRefuse` that of the process
limit, `KeyEcho` any key, `putc` any printing, `UserDraw` a program that
stores through the address `vidmap()` gave it.  **LogicalScreens** is the
promise: a screen per terminal, of which only the running and the shown one
change.

**TerminalInput** — the keyboard handler in one step per key,
`terminal_read()` in one step per access to shared state; `pc[t]` is the
statement the top process of terminal t is at.  **LineDiscipline** is the
promise: a line per terminal, edited while shown, handed over once by ENTER.
`kb_buf_full_flag` is left out: it only makes the loop copy early what the
final copy overwrites.  The final copy and the clearing of the buffer are a step
each, although `strncpy_include_null()` and `kb_buf_clear()` go byte by byte with
interrupts enabled: no property that is checked tells the difference, as for a
patient user nothing else touches the buffer meanwhile.  Programs read whole lines, as the shell does.

**VirtualRtc** — `rtc_read()` statement by statement, the other calls and
the interrupt in one step each.  The stack of a terminal is a sequence of
counts: how many descriptors of the clock each process has open.

**FileSystem** — the image is a constant, as the kernel never writes to it;
`read_dentry_by_name` and `read_data` are operators.  A byte is the place where
it lies, a block and an offset, so bytes taken from a wrong place differ from
the right ones.  `Place` and `bytes_read` say in closed form where the loop of
`read_data()` finds its i-th byte and how many it copies; `FileByte` is the
reference, byte p of a file.

**Files** — the descriptors of every process over that file system: `Open`,
`Close`, `Execute`, `Halt` in one step, `file_read()` and `dir_read()` in two
(`Read`, `Advance`), because they run with interrupts enabled between copying
and moving the position.  `got` is history: what has been read through a
descriptor since it was opened.

**Console** — the page of the terminal on show as a record: cells, column, row,
hardware cursor.  The routines of `lib.c` are operators from screens to screens
that call each other as the functions do; the actions are the keys, a
character of `write()`, the two lines of an exception, the message of a
refused terminal, and the two ends of `terminal_read()`.  A cell is told apart
by who put it there.  The width of a row has its odd extra column, as in
`putc()`, which wraps only after it.  `since` is history: what other than
typing changed the screen since the line began.

**ProgramText** — the programs as data: a program is a sequence of calls, each
with the places where the program may go on after -1, 0 or more; a place is
another call or an exit with a status.  The eight tests of `ece391syserr.c`
are lists of calls that must fail.  **Programs** runs them on the calls:
`Execute`, `ExecuteUnknown` and `ExecuteNothing` are the paths of `execute()`,
`Results` says what each of the ten calls returns, `Return`, `Fault` and
`KeyCtrlC` are the three ways to `halt()`, and `ShellReports` is what the shell
does with the status.  `PitCreate` is the timer's `execute("shell")`, which
overwrites the one argument buffer.

**Blink** — the fish program's blinkers: slots with a `next` pointer, the
allocator, the list operations, the tick with its signed comparison of 16-bit
words, and `add_frames()` in one step per pair of bytes.  After the overlay the
program may make any call of the library, not only those of `main()`.
**BlinkerList** is the promise, without slots, pointers and words; the mapping,
at the end of `Blink`, follows the pointers from the head and turns words into
the ticks they last.

The refinement mappings are written without recursion, so that they can be
reasoned about: a list or a stack is *the* sequence with a given first or last
element whose neighbours are linked.

Definitions commented "Mutant" are plausible mistakes in the code.  No
specification uses them; they show that each property notices one.

## 3. The runs

| Run | Question | Instance | Outcome |
|---|---|---|---|
| scheduler | process table, contexts, display state, turns and service of terminals, requests and Ctrl+C, three refinements | 4 pids | holds, 81 658 states |
| screens | screens, mappings, cursor | 2 texts, 2 cursors | holds, 49 792 states |
| console | cursor, echo, what is erased, what is not written over | 2 rows of 4, tab of 2, lines of 2 | holds, 889 460 states |
| terminal_input | reading and typing at any time | 2 terminals, lines of 1, tab of 2 | holds, 233 696 states |
| patient_input | lines as the user sees them | terminals 1 and 3, lines of 2, tab of 4, 2 characters | holds, 7 842 states |
| virtual_rtc | clocks under preemption and Ctrl+C | 2 terminals, 4 interrupts per second, 2 processes each | holds, 177 012 states |
| files | descriptors and positions under preemption, Ctrl+C and process switches | 2 terminals, 2 processes each, blocks of 2 bytes, reads of 1, 2 and 5 bytes | holds, 238 734 states |
| programs | what the shell says, what failing calls return | 2 terminals, 3 processes, 15 commands, 11 programs | holds, 1 000 788 states |
| blink | slots, lists, rhythms, the overlay of two files | 3 slots, 2 rows of 3, words of 2 bits, locations modulo 7, 36 pairs of files | holds, 49 158 states |
| enter_kept, reads_end, args_kept | statements of comments | as above | violated, see section 6 |

Why the bounds are enough.  *Four pids* hold three shells and one child: every
pid is reused by several terminals, shells are halted and respawned next to
children, and the process limit is reached with one terminal still without a
process.  *Two texts and two cursor positions* tell any two pages apart, and
no operation looks at what a page holds.  *Lines of one character with a tab of
two* fill, overrun and erase a line; the patient run has a longer line and two
characters to tell positions apart, and terminal 3, so that the store past the
end of the array takes place.  *Four clock interrupts per second* leave
frequencies slower than (2), equal to (4) and faster than the interrupt (8),
above the maximum (16), not a power of two (1 is below the minimum, 3 is not a
power) and beyond the 16 bits (34 stands for 65 538, which is taken as 2).  *The image*
has the shape of `filesys_img`: a directory, the clock, a file that fills part
of a block and one that fills a block and part of a second; unused block
numbers are 0, as they are in every inode of the image.  Reads of 1, 2 and 5
bytes stop inside a block, at its end, and past the end of every file.  Two
processes on a terminal and two terminals are enough for a descriptor to be
confused with one of the same number in a parent, a child, a successor or
another terminal.

*Two rows of four columns with lines of two* let a line with its prompt start
anywhere in a row, fill it, leave it, scroll, be erased back across an edge, and
overrun its buffer by a tab, and a tab jump over the end of a row; the
assumption `ConsoleAssumption` (a line and a tab fit on the screen less one row)
is what the code's 80, 25 and 128 satisfy.  *Three processes* hold two shells
and a program, so that the process limit is hit by a command and by the timer.
*Three descriptors* are as many as the largest program opens at once; the
exhaustion test of syserr counts on `NumFds` as the code does on 8.  The image
of the run lacks one file of the fish program, whose exit with -1 becomes 255.
The commands begin with 0, 1, 2, 7 and 8 blanks, on both sides of what the name
buffer of 10 (32 in the code) leaves for a name of three.  *Three slots and
words of two bits* fill the array, free it out of order, and have lengths that
are negative as words; the six texts are empty, end with and without a new
line, in a row of their own or in different rows, run below the screen, and
come back to it: `LocationWord`, apart from `Word` so that an instance has short
words and a screen, is 7, and the last row of one text has location 10.

Counters are bounded by the code (`kb_buf_num`) or by a named bound:
`MaxCount` stops `rtc_counter` where no wait looks further; `MaxDepth` and
`MaxOpen` bound processes and descriptors; `Console!NoMessage` lets the kernel
print when no message of it is on the screen; `Chars` are the keys typed;
`Blink!Added` and `Asked` are what is added later and where.  `Used` bounds the
terminals a user asks for, each of them once in `VirtualRtc`, where nothing
depends on which one is on show.  The user of `Console` waits, after ENTER, until the
program has taken the line.  Deadlock is checked in every run: the kernel always has a timer
interrupt to take.

## 4. Fairness

`Scheduler!FairSpec` has `WF(Pit)`: handlers end with interrupts enabled and
IRQ 0 is never masked.  It also has `SF(Switch)`.  Weak fairness of the timer
alone is not enough: Alt+F3 held down at the process limit sets the flag of
terminal 3 again after each refusal, and a keyboard interrupt before every
timer interrupt would keep the scheduler refusing for ever.  The divisor
written to the PIT is 20, so the timer interrupts about 59 660 times a second,
and no keyboard gets in before each of them.

`TerminalSwitch!SwitchFairness`, that each terminal with a process gets the CPU
again and again, is what `ImplementsFairSwitching` shows of the scheduler;
`TerminalInput` and `VirtualRtc` assume exactly that.  They add `SF` for the statements of a
read (a time slice is longer than a statement) and, for `UserAnswered`, a user
who presses ENTER again (`WF(KeyEnter)`) and no program that calls `read()`
without a buffer for ever (each such call wipes an ENTER out).

## 5. The proofs

TLC checks small instances; the theorems hold for every value of the constants
that the named assumptions allow.

**SchedulerProofs**, for any number of pids (`NumPidsAssumption`: at least
one).  The invariant `IInv` is `TypeOK`, the process table (`StacksOK`,
`PidZeroReserved`, `CountOK`), `ContextOK`, `DisplayOK` and `ExitFlagOK`.  None
of these is inductive alone: the halt of a parent's child needs the parent to be
alive in the same terminal (`StacksOK`), a respawn in the timer handler needs
that the flagged terminal has a process (`ExitFlagOK`), a switch needs the
context that an earlier switch saved (`ContextOK`), and pid 0 stays where it is
because the lowest free pid is taken and nobody else frees it.  The table
changes in three ways (push, pop, respawn), with a lemma for each; `CountOK`
rests on the library's theorems about cardinality.  From `IInv` follow the
invariants, the action properties `OnlyRunningStackChanges` and
`DeferredExitHitsTarget`, that every step of the scheduler is a step of
`TerminalSwitch` or a stutter, and that it implements `TerminalStacks`.
`TurnsComeCloser` is the part of fair switching that needs no fairness: each
timer interrupt, also one that refuses a shell, brings every waiting terminal a
turn closer, so none of them waits for more than three while no Alt+Fn adds one.
For `TerminalStacks`, `Chained` says that the processes of a terminal form one sequence from
its shell to `PID[t]`; `StackIs` that there is no other (two of them would agree
from the top down); and `PushStack`, `PopStack` and `RespawnStack` what becomes
of it, while the stacks of the other terminals stay.

**ScreensProofs**, for any texts and cursors.  `Inv` says that the mapping is
always that of the running terminal (`MappingOK`): this is what makes a
`putc` a write on the right logical screen.  From it follow `UserMappingOK`,
that every step implements `LogicalScreens`, and `CursorFollows`.

**VirtualRtcProofs**, for any interrupt rate, any frequencies asked for and any
number of processes and descriptors.  The invariant says, per terminal, that a
clock that is on has an owner, that a program inside `rtc_read()` finds its
clock on from the reset of the counter to the end of the wait, and that the
counter never runs ahead of the interrupts that came since the call.  The
ranges of frequencies and counters (`TypeOK`) are part of it and proved only; no
run checks them.

**FilesProofs**, for any block size, image (under `ImageAssumption`: the block
numbers of an inode are valid and a file is less than half of what an inode can
list; the largest file of the repository's image has 9 of 1023 blocks), number
of descriptors and sizes of reads.  `ReadData` shows that `read_data()` returns
consecutive bytes of the file from the position on, by arithmetic of quotients
and remainders.  The invariant adds to `ReadsInOrder` that the result of a read
in progress holds the bytes which follow the position of its own descriptor;
that is what `Advance` needs after any number of other steps.

**ConsoleProofs**, for any size of screen, tab, line and message.  The
invariant says that column and row are on the screen (or in the one column too
many), that no cell from the place on holds anything but a message, and that
the cursor is drawn at the place or, after a backspace in the corner, beside
it.  Each routine of `lib.c` has a lemma about the screen it leaves (`Enters`,
`Endlines`, `Putc`, `Prints`, `Tabs`, `Erases`, `Backspaces`); the arithmetic
of rows is in `Rows`.  `CursorAtPlace` and `NothingAhead` follow.  The same
routines extend or shorten what precedes the cursor by one character or by a
tab (`Extended`, `Erased`), across the end of a row and through a scroll.  With
that, `LineInv` carries the line: the buffer has as many characters as are
counted and fit, and what precedes the cursor is the line, unless something
other than typing has changed the screen since the line began; and, for
`OutputKept`, at least as many cells with text as are counted come after
anything that was printed (`Behind`), whatever gaps tabs have left.

**TerminalInputProofs**, for any capacity, tab and set of characters.  `TypeOK`
bounds the count of characters by a tab more than the capacity; it is
inductive only with `TypingFollowsRead`, which ties the flag to the statement
each reader is at, and with the fact that only terminals in use run and show.
What a program gets is a string because a string has an end (`Texts`).

The refinement of `LineDiscipline` is proved of `PatientSpec`.  `PatientInv`
adds to the above that an ENTER waits only at the terminal on show and, while
it waits, no request for another terminal and no Ctrl+C does; that a reader
past its second test is on show; that a buffer holds characters in its first
`kb_buf_num` places and nothing behind (`Filled`), or, after ENTER, those of the
line that is being taken; and that a program holds a copy exactly between the
copy and the return.  Without the first part the line of one terminal could go
to a program of another: it is what a patient user buys.  `TypedLine` and
`ErasedLine` say what a key makes of the line in a full, half-full or overrun
buffer, `TextIs` that the string which is copied is that line.  Each statement
of `terminal_read()` is then a step of the lines (`Starts`, `Gives`, `Returns`)
or none (`Tests`, `Clears`), and a timer interrupt shows another terminal or
ends a read only when nobody takes a line (`Switches`).

**ProgramsProofs**, for any number of processes and descriptors, commands and
set of executables (`ImageAssumption` has the names that syserr takes for
granted).  First the texts: every program's calls lead to calls or exits of
its own (`IsText`), and every test of syserr makes only calls that must fail in
the state it has brought about (`AllFail`; the eighth, which opens files until
none is free, by the number of descriptors open at each place).  The invariant
says of each process that it is at a place of its text and has seen no call
succeed that should have failed, of syserr which descriptors it has open at each
place, and of each terminal that the shell's report, or the status it is about to
report, is the right one for how the command ended.  `SysErrPasses` and
`ReportsRight` follow.  They do not depend on `args`, which is why they hold
while `args_kept` does not.

**BlinkProofs**, for any number of slots, size of screen and word
(`BlinkAssumption`: words are even in number, as 2^16 is, and the `'0'` that
`add_frames()` begins with is not a new line; and no character of a text has
location 0 as a word, as in the code none has that is in the first 2 400 rows of
a text whose lines fit).  `LibInv` says that
the list from the head passes through exactly the slots in use, once each, and
that what is drawn at a place is what its newest blinker says.  `SameList` shows
that the pointers admit one list, `PushList`, `DropList` and `KeepList` what
becomes of it; the branch of each routine that looks for the previous or the
last element is covered by them.  For the refinement, `WordsLast` and
`TickedIs` turn the signed comparison after `DECW` into the ticks that a length
lasts.  `BlinkerList` is implemented by every call of the library, in any order.
That no blinker of `add_frames()` has location 0 follows from where the loop is
in each text (`ReadInv`, `VisibleIs`): it is that of a character of the text.

`FramesAgree` is proved by an invariant of the loop (`ReadInv`, `FramesInv`): each
text has been read up to the row and column the loop is at (`Reading`), or to its
end (`Finished`), and, if the texts fit, the blinkers laid so far are the part of
the overlay that precedes this place, each of them once (`LaidBefore`).  It is needed because the two texts are at different bytes, and one of them may
wait at the end of a line or of its file while the other goes on.  `NextPlace`
and `PlacesAscend` say how rows and columns grow along a text, `OneAtPlace` that
a text has one character at a place, `LineIsOver` and `LineGoesOn` what it means
for the row that a text waits or not.  `FrameLays` is the step that adds a
blinker, `LaidNext` and `LaidRow` those that move on in a row and to the next.
It is for any two texts that fit.  A line longer than the screen, a row whose
location does not fit its word (819 and on in the code), or more characters than
there are slots are outside it: the code then writes into the next row, comes
back to places on the screen, or drops what has no slot.  Rows below the screen
are inside it: the library refuses their places.

A least element of a set of numbers (`LeastNat`) is used wherever the code
searches upwards; it comes from the library's theorem that the natural numbers
are well ordered.

Only model-checked: liveness (`RequestServed`, `ExitServed`,
`ImplementsFairSwitching`, `UserAnswered`, `ReadReturns`), because the prover
reaches neither fairness nor ENABLED.  Every invariant, action property and
refinement without fairness that a passing run checks is also a theorem.

## 6. Findings

Each is a run that TLC refutes; `PROJECT.json` quotes the comment.

* **enter_kept** — `terminal_read()` begins by clearing the ENTER of the shown
  terminal, not of its own (`terminal.c:42`).  The trace asks for terminal 2 and
  takes that back, so that terminal 1 stays on the screen while both run.
* **reads_end** — `read_data()` computes what is left of the file after it has
  reduced the offset modulo the block size (`fileSystem.c:84`): reads in
  pieces of a file of more than a block go on after its end.  `ReadsInOrder`
  holds all the same: what comes is the rest of the last blocks.
* **args_kept** — one argument buffer serves all processes
  (`system_calls.c:217`): the shell that the timer starts on another terminal,
  which the user has asked for, empties it before a program has called `getargs()`.

Noted without a run, from reading the code and the models.

*Display and switching.*  `vidmap()` maps the monitor whoever calls
(`paging.c:175`), against the comment at `paging.c:202`: a background program
draws on the shown screen until the next switch; `UserMappingOK` allows for it.
At the process limit `pit_handler()` drops the pending display request
whichever terminal it is for (`pit_init.c:103`).  While a background terminal
that the user has asked for prints, it moves the hardware cursor of the screen
still on show (`lib.c:548`, the exception in `CursorFollows`).

*Reading.*  `terminal_read()` indexes `kb_buf_full_flag` without the usual `-1`
(`terminal.c:43`): with terminal 3 on show the store goes past the array, to the
pending halts in a build that keeps the order of the declarations, and a
Ctrl+C may be forgotten (`Scheduler!TerminalRead`).  `terminal_read_flag`
survives the program that set it when Ctrl+C ends it (`keyboard.c:168`), against
`terminal.h:9`.  With keys at any time the unprotected loop can return the line
of another terminal or the same line twice.  After an ENTER that nobody reads
the buffer keeps its contents, so a shorter line typed next keeps the tail of
the longer one.

*Typing.*  Shift and Caps Lock are looked at only while typing is accepted: a
release that comes later is lost (`keyboard.c:197`), as is that of Ctrl under
Alt; releasing one of two Shift keys ends both; and the tables are indexed with
release codes, past their end, for `l_flag` and `c_flag` (`keyboard.c:131`).
After Ctrl+L in a partly typed line, backspace reaches the corner, where the
place moves on (`lib.c:630`, the exception in `CursorAtPlace`).  A tab that
jumps to a new row leaves a gap of empty cells, which one backspace crosses, so
screen and buffer disagree from there on (`EchoMatches` excludes it).  A kernel
message does not leave a full row: `printf()` goes on in the same row
(`lib.c:180`), over the text at its start: text is written over by nothing but
such a message (the exception in `NothingAhead`).

*Calls.*  `execute()` returns -1 at the process limit and the shell then says
"no such command", while the comment reserves negative values for programs
that are not found (`system_calls.c:181`).  Leading blanks count against the
32 bytes for the name (`system_calls.c:202`).  `ReportsRight` takes both as right.  The PCB marked inactive by
`execute()` is that of the pid below, not of the parent (`system_calls.c:264`;
nothing reads the field).

*Clock.*  `64/freq` is 0 above 64 Hz, so `rtc_read()` does not wait at all,
against `rtc_init.c:86`; `WaitsPeriod` counts in interrupts and allows it.  A
read of a clock that a child has turned off returns at once.  `rtc_write()`
takes 65 538 for 2, because it keeps 16 bits.

*Fish.*  `mp1_ioctl_sync` draws the off character whatever the status
(`blink.S:282`: TESTB with 1 never makes CMOVL's condition true); the next
turn-over repairs it, and `DrawnAsMarked` makes the exception.  A location is kept
in 16 bits (`fish.c:125`): from row 819 of a text on, blinkers come back to the
screen, and one at location 0 would pass for a free slot inside the list; the
files that fish opens have at most 25 rows.

## 7. What is not modelled

Boot (runs once; the models start at the first shell; interrupts are enabled
before paging is set up, `kernel.c:170`), interrupt controller,
descriptor tables and register saving in assembly (the models rely on interrupt
gates and on the registers being restored), text formatting and string helpers,
test code, the host emulation of the programs (`ece391emulate.c`) and their
string library, what programs compute and print, `mp1_ioctl_find` (nothing calls
it), the flags of Shift and Caps Lock (every module lets a key be any
character), `kb_buf_full_flag`.  Descriptors 0 and 1 are always open.

## 8. Plan

Done: Scheduler with TerminalStacks and TerminalSwitch, Screens with
LogicalScreens, Console, TerminalInput with LineDiscipline, VirtualRtc,
FileSystem with Files, Programs with ProgramText, Blink with BlinkerList;
proofs about every one of them, all refinements included (fairness aside).

Left: **KeyModifiers**, shift, caps, control and alt against the keys that are
down, should the lost releases be repaired.
