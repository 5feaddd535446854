--------------------------- MODULE LogicalScreens ---------------------------
(***************************************************************************)
(* What the kernel promises about the screen: every terminal has a screen  *)
(* of its own, the user sees one of them, and at any time only the screen  *)
(* of the running terminal (its program prints) and the one on show (the   *)
(* keyboard echoes) can change.  Moving the CPU or the display to another  *)
(* terminal changes no screen; a terminal that has just got its first      *)
(* process may start with a new cursor.                                    *)
(***************************************************************************)
Terminals == {1, 2, 3}

CONSTANTS Texts, Cursors

VARIABLES text,       \* the characters on the screen of each terminal
          cursor,     \* where each terminal prints next
          running, shown, started

vars == <<text, cursor, running, shown, started>>

Init ==
  /\ text \in [Terminals -> Texts] /\ cursor \in [Terminals -> Cursors]
  /\ running = 1 /\ shown = 1 /\ started = {1}

Write(t) ==
  /\ \E x \in Texts : text' = [text EXCEPT ![t] = x]
  /\ \E c \in Cursors : cursor' = [cursor EXCEPT ![t] = c]
  /\ UNCHANGED <<running, shown, started>>

Move(t) ==
  /\ t # running
  /\ running' = t
  /\ shown' \in {shown, t}
  /\ started' = started \cup {t}
  /\ UNCHANGED text
  /\ \/ UNCHANGED cursor
     \/ /\ t \notin started
        /\ \E c \in Cursors : cursor' = [cursor EXCEPT ![t] = c]

Next == \/ Write(running)
        \/ Write(shown)
        \/ \E t \in Terminals : Move(t)

Spec == Init /\ [][Next]_vars

=============================================================================
