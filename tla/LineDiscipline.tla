--------------------------- MODULE LineDiscipline ---------------------------
(***************************************************************************)
(* What reading a terminal promises: every terminal has a line of its own, *)
(* which the user edits while that terminal is on show and a program of it *)
(* reads; a line begun on one terminal is still there when the user comes  *)
(* back to it; ENTER hands it over, once, to the program that reads on     *)
(* that terminal, exactly as it was edited.                                *)
(***************************************************************************)
EXTENDS Integers, Sequences

CONSTANTS Users,      \* the terminals
          Chars, Space,
          Capacity,   \* how long a line can be
          TabWidth,   \* the spaces a tab stands for
          NoLine      \* not a line

VARIABLES line,       \* the line being edited on each terminal
          surplus,    \* spaces of a tab beyond the capacity
          entered,    \* the line waiting for its reader, or NoLine
          given,      \* the line the reader is returning with, or NoLine
          reading,    \* the terminals on which a program reads
          shown

vars == <<line, surplus, entered, given, reading, shown>>

Init ==
  /\ line = [t \in Users |-> <<>>] /\ surplus = [t \in Users |-> 0]
  /\ entered = [t \in Users |-> NoLine] /\ given = [t \in Users |-> NoLine]
  /\ reading = {} /\ shown = 1

Editable(t) == t = shown /\ t \in reading /\ entered[t] = NoLine /\ given[t] = NoLine

Type(t, c) ==
  /\ Editable(t) /\ Len(line[t]) < Capacity
  /\ line' = [line EXCEPT ![t] = Append(@, c)]
  /\ UNCHANGED <<surplus, entered, given, reading, shown>>

Tab(t) ==
  LET n == Len(line[t])
      fit == IF n + TabWidth <= Capacity THEN TabWidth ELSE Capacity - n
  IN  /\ Editable(t) /\ n < Capacity
      /\ line' = [line EXCEPT ![t] = @ \o [i \in 1..fit |-> Space]]
      /\ surplus' = [surplus EXCEPT ![t] = TabWidth - fit]
      /\ UNCHANGED <<entered, given, reading, shown>>

Erase(t) ==
  /\ Editable(t)
  /\ IF surplus[t] > 0
     THEN surplus' = [surplus EXCEPT ![t] = @ - 1] /\ UNCHANGED line
     ELSE /\ line[t] # <<>> /\ UNCHANGED surplus
          /\ line' = [line EXCEPT ![t] = SubSeq(@, 1, Len(@) - 1)]
  /\ UNCHANGED <<entered, given, reading, shown>>

Enter(t) ==
  /\ Editable(t)
  /\ entered' = [entered EXCEPT ![t] = line[t]]
  /\ line' = [line EXCEPT ![t] = <<>>] /\ surplus' = [surplus EXCEPT ![t] = 0]
  /\ UNCHANGED <<given, reading, shown>>

Give(t) ==
  /\ t \in reading /\ entered[t] # NoLine
  /\ given' = [given EXCEPT ![t] = entered[t]]
  /\ entered' = [entered EXCEPT ![t] = NoLine]
  /\ UNCHANGED <<line, surplus, reading, shown>>

Return(t) ==
  /\ given[t] # NoLine
  /\ given' = [given EXCEPT ![t] = NoLine] /\ reading' = reading \ {t}
  /\ UNCHANGED <<line, surplus, entered, shown>>

Start(t) ==
  /\ t \notin reading /\ reading' = reading \cup {t}
  /\ UNCHANGED <<line, surplus, entered, given, shown>>

\* Ctrl+C: the line is dropped, and the program ended at once or later.
Interrupt(t) ==
  /\ t = shown /\ entered[t] = NoLine /\ given[t] = NoLine
  /\ line' = [line EXCEPT ![t] = <<>>] /\ surplus' = [surplus EXCEPT ![t] = 0]
  /\ reading' \in {reading, reading \ {t}}
  /\ UNCHANGED <<entered, given, shown>>

\* The program is ended now, possibly as its terminal comes on show.
End(t) ==
  /\ entered[t] = NoLine /\ given[t] = NoLine
  /\ reading' = reading \ {t} /\ shown' \in {shown, t}
  /\ UNCHANGED <<line, surplus, entered, given>>

\* Another terminal comes on show, never between ENTER and the return.
Show(t) ==
  /\ entered[shown] = NoLine /\ given[shown] = NoLine
  /\ shown' = t
  /\ UNCHANGED <<line, surplus, entered, given, reading>>

Next == \E t \in Users :
  \/ \E c \in Chars : Type(t, c)
  \/ Tab(t) \/ Erase(t) \/ Enter(t) \/ Give(t) \/ Return(t) \/ Start(t)
  \/ Interrupt(t) \/ End(t) \/ Show(t)

Spec == Init /\ [][Next]_vars
=============================================================================
