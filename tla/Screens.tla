------------------------------ MODULE Screens ------------------------------
(***************************************************************************)
(* The four video pages and the two page-table entries that select among   *)
(* them (paging.c), the cursor positions that go with them (lib.c), and    *)
(* what the PIT handler, the keyboard handler and printing do with them.   *)
(*                                                                         *)
(* Page 0 is the memory the monitor shows; page t is where the screen of   *)
(* terminal t is kept while another terminal is on show.  What is on a     *)
(* page and where a cursor stands are values of small sets: only which     *)
(* page they belong to matters here.  Which terminal runs, is shown and is *)
(* asked for comes from TerminalSwitch, which the scheduler implements.    *)
(***************************************************************************)
EXTENDS TerminalSwitch

CONSTANTS Texts,      \* what a page can hold
          Cursors,    \* where a cursor can stand
          Blank, Home \* the cleared page, the top left corner

ASSUME ScreenAssumption == Blank \in Texts /\ Home \in Cursors

VARIABLES
  page,           \* page[0]: the monitor; page[t]: the undisplayed page of terminal t
  screen_pos,     \* screen_x and screen_y for each page
  video_entry,    \* the page the kernel's video address is mapped to
  user_entry,     \* the same for the user's video address, NotMapped before any vidmap()
  terminal_type,  \* the index printing uses into screen_pos
  hw_cursor       \* where the hardware cursor was last drawn

screenVars == <<page, screen_pos, video_entry, user_entry, terminal_type,
                hw_cursor>>
vars == <<switchVars, screenVars>>

Pages == 0..3
NotMapped == -1

Init ==
  /\ SwitchInit
  /\ page = [i \in Pages |-> Blank]
  /\ screen_pos = [i \in Pages |-> Home]
  /\ video_entry = 0 /\ user_entry = NotMapped
  /\ terminal_type = 0
  /\ hw_cursor = Home

-----------------------------------------------------------------------------
(* Helpers                                                                 *)

\* Mutant: an argument of 0 leaves the user's entry alone.
change_unless_zero(n) ==
  /\ video_entry' = n
  /\ user_entry' = IF user_entry = NotMapped \/ n = 0 THEN user_entry ELSE n
  /\ terminal_type' = n

\* Both entries move together once vidmap() has been called.
change_video_phys_addr(n) ==
  /\ video_entry' = n
  /\ user_entry' = IF user_entry = NotMapped THEN NotMapped ELSE n
  /\ terminal_type' = n

\* Mutant: the mapping stays on the monitor's page.
StaysOnMonitor == 0

\* Where a handler that has drawn on the monitor leaves the mapping.
RestoredEntry == IF terminal_curr # terminal_on_display_curr THEN terminal_curr ELSE 0

\* Whether the switch to terminal n also changes the terminal on show.
Swaps(n) == n = terminal_on_display_next
            /\ terminal_on_display_next # terminal_on_display_curr

\* Mutant: the outgoing screen is not saved.
IncomingOnly(n) == [page EXCEPT ![0] = page[n]]

\* The monitor's page is saved for the terminal that leaves the screen and
\* filled with that of the terminal n that enters it.
SwappedPages(n) == [page EXCEPT ![terminal_on_display_curr] = page[0],
                                ![0] = page[n]]

\* The mapping at the end of save_restore_remap_video_mem() for terminal n.
RemappedEntry(n) ==
  IF n # terminal_on_display_next /\ n # terminal_on_display_curr THEN n ELSE 0

save_restore_remap_video_mem(n) ==
  /\ page' = IF Swaps(n) THEN SwappedPages(n) ELSE page
  /\ change_video_phys_addr(RemappedEntry(n))

\* The cursor of the terminal on show, saved before a terminal n replaces it.
SavedCursor(n) ==
  IF Swaps(n) THEN [screen_pos EXCEPT ![terminal_on_display_curr] = screen_pos[0]]
              ELSE screen_pos

\* Mutant: the cursor is drawn for every terminal.
DrawnAlways(n, p) == p

\* update_cursor() after position p is reached on page n of screen_pos: it draws
\* only for the monitor's page, or when the terminal that runs was asked for.
Drawn(n, p) ==
  IF n # 0 /\ terminal_curr # terminal_on_display_next THEN hw_cursor ELSE p

-----------------------------------------------------------------------------
(* The running program                                                     *)

\* putc() and everything built on it: write() to the terminal, the messages of
\* system calls and exceptions.
putc ==
  /\ \E x \in Texts : page' = [page EXCEPT ![video_entry] = x]
  /\ \E p \in Cursors :
       /\ screen_pos' = [screen_pos EXCEPT ![terminal_type] = p]
       /\ hw_cursor' = Drawn(terminal_type, p)
  /\ UNCHANGED <<switchVars, video_entry, user_entry, terminal_type>>

\* vidmap(): the user's entry is set to the monitor's page, whoever calls.
Vidmap ==
  /\ user_entry' = 0
  /\ UNCHANGED <<switchVars, page, screen_pos, video_entry, terminal_type, hw_cursor>>

\* A program stores into the page vidmap() gave it.
UserDraw ==
  /\ user_entry # NotMapped
  /\ \E x \in Texts : page' = [page EXCEPT ![user_entry] = x]
  /\ UNCHANGED <<switchVars, screen_pos, video_entry, user_entry,
                 terminal_type, hw_cursor>>

-----------------------------------------------------------------------------
(* Keyboard interrupts                                                     *)

\* Alt+Fn touches no video memory.
KeyRequest(t) == Request(t) /\ UNCHANGED screenVars

\* What a handler draws on the monitor, wherever the running program's video
\* memory is, before it puts the mapping back.
DrawOnMonitor(pos) ==
  /\ \E x \in Texts : page' = [page EXCEPT ![0] = x]
  /\ \E p \in Cursors : screen_pos' = [pos EXCEPT ![0] = p] /\ hw_cursor' = p
  /\ change_video_phys_addr(RestoredEntry)

\* Any other key: echo, Ctrl+L, or nothing at all.
KeyEcho ==
  /\ \/ DrawOnMonitor(screen_pos)
     \/ /\ change_video_phys_addr(RestoredEntry)
        /\ UNCHANGED <<page, screen_pos, hw_cursor>>
  /\ UNCHANGED switchVars

-----------------------------------------------------------------------------
(* Timer interrupts                                                        *)

\* The cursors after a switch: a new terminal that comes on show starts at the
\* top left corner, another one where it was.
PitGoTo(n) ==
  LET shown == IF n \in started THEN screen_pos[n] ELSE Home
  IN  /\ GoTo(n)
      /\ save_restore_remap_video_mem(n)
      /\ screen_pos' = IF Swaps(n) THEN [SavedCursor(n) EXCEPT ![0] = shown]
                                   ELSE screen_pos
      /\ hw_cursor' = IF Swaps(n) THEN shown ELSE hw_cursor

\* The process limit: a message appears on the monitor if a program reads there.
PitRefuse(n) ==
  /\ Refuse(n)
  /\ \/ DrawOnMonitor(SavedCursor(n))
     \/ /\ screen_pos' = SavedCursor(n)
        /\ UNCHANGED <<page, video_entry, user_entry, terminal_type,
                       hw_cursor>>

-----------------------------------------------------------------------------
Next ==
  \/ putc
  \/ Vidmap
  \/ UserDraw
  \/ KeyEcho
  \/ \E t \in Terminals : KeyRequest(t) \/ PitGoTo(t) \/ PitRefuse(t)

Spec == Init /\ [][Next]_vars

-----------------------------------------------------------------------------
(* Properties                                                              *)

TypeOK ==
  /\ SwitchTypeOK
  /\ page \in [Pages -> Texts] /\ screen_pos \in [Pages -> Cursors]
  /\ video_entry \in Pages /\ terminal_type \in Pages
  /\ user_entry \in Pages \cup {NotMapped}
  /\ hw_cursor \in Cursors

\* Between two handlers the running program prints on the monitor exactly when
\* its terminal is on show, and on its own page otherwise; the cursor index
\* goes with the page.
MappingOK ==
  /\ video_entry = IF terminal_curr = terminal_on_display_curr THEN 0 ELSE terminal_curr
  /\ terminal_type = video_entry

\* The page a program draws on through vidmap() is its own terminal's or the
\* monitor's, on which vidmap() put it: never that of a third terminal.
UserMappingOK == user_entry \in {NotMapped, 0, video_entry}

\* The screen of terminal t is the monitor's page while t is on show, page t
\* otherwise, and each step keeps the promise of LogicalScreens: no text or
\* cursor of a background terminal is lost, mixed up or overwritten.
PageOf(t) == IF t = terminal_on_display_curr THEN 0 ELSE t

Logical == INSTANCE LogicalScreens
             WITH text <- [t \in Terminals |-> page[PageOf(t)]],
                  cursor <- [t \in Terminals |-> screen_pos[PageOf(t)]],
                  running <- terminal_curr,
                  shown <- terminal_on_display_curr

ImplementsLogicalScreens == Logical!Spec

\* Once the hardware cursor stands where the terminal on show prints next, it
\* stays with it through printing in the background, key echo, switches and
\* refusals.  The one exception is a background terminal the user has asked for:
\* until it comes on show its programs move the cursor of the screen that leaves.
CursorFollows ==
  [][/\ hw_cursor = screen_pos[0]
     /\ terminal_curr' \in {terminal_on_display_curr'} \cup (Terminals \ {terminal_on_display_next'})
     => hw_cursor' = screen_pos'[0]]_vars

=============================================================================
