--------------------------- MODULE ConsoleProofs ---------------------------
(***************************************************************************)
(* The cursor stays on the screen and nothing lies ahead of it, for        *)
(* screens, tabs and lines of any size.  Each routine of lib.c has a lemma *)
(* that says what it makes of a screen; an action is one or two of them.   *)
(***************************************************************************)
EXTENDS Console, FiniteSetTheorems, SequenceTheorems, WellFoundedInduction, TLAPS

Kinds == {NUL, Letter, Space, Printed, Message}
Screens == [cell : [Cells -> Kinds], x : 0..NumCols, y : 0..(NumRows - 1), hw : Int]

\* A message that was longer than the rest of its row goes on in the first column
\* of the next one: of a row, or of what lies after the last one.
RowStarts == {NumCols * r : r \in 1..NumRows}
Free(cell, i) == cell[i] = NUL \/ (cell[i] = Message /\ i \in RowStarts)

\* NothingAhead, of a screen, and where a message can lie ahead.
Ahead(s) == \A i \in Cells : i >= Pos(s) => Free(s.cell, i)

\* A screen whose cursor is drawn where the next character goes.
Sound(s) == s \in Screens /\ Ahead(s) /\ s.hw = Pos(s)

\* One that may have the cursor in the corner, beside its place.
SoundOrCorner(s) == /\ s \in Screens /\ Ahead(s)
                    /\ s.hw = Pos(s) \/ (s.hw = 0 /\ Pos(s) = 1)

Inv == SoundOrCorner(screen)

(* The natural numbers are well ordered, and so are the bounded ones       *)
(* downwards.                                                              *)
LEMMA LeastNat ==
  ASSUME NEW S, S \subseteq Nat, S # {}
  PROVE  \E k \in S : \A j \in S : k <= j
<1> DEFINE R == OpToRel(<, Nat)
<1>1. PICK k \in S : \A j \in S : ~ (<<j, k>> \in R)
  BY NatLessThanWellFounded, WFMin
<1>2. \A j \in S : ~ (j < k)
  BY <1>1 DEF OpToRel
<1> QED BY <1>2

LEMMA Largest ==
  ASSUME NEW n \in Nat, NEW T \in SUBSET (0..n), T # {}
  PROVE  \E i \in T : \A j \in T : j <= i
<1> DEFINE S == {n - i : i \in T}
<1>1. S \subseteq Nat /\ S # {}
  <2>1. \A i \in T : n - i \in Nat
    OBVIOUS
  <2> QED BY <2>1
<1>2. PICK m \in S : \A j \in S : m <= j
  <2> HIDE DEF S
  <2> QED BY <1>1, LeastNat
<1>3. PICK i \in T : m = n - i
  BY <1>2
<1>4. ASSUME NEW j \in T PROVE j <= i
  <2>1. n - j \in S
    OBVIOUS
  <2> HIDE DEF S
  <2> QED BY <1>2, <1>3, <2>1
<1> QED BY <1>4

(* Rows follow each other, the last one ends where the screen ends.        *)
LEMMA Rows ==
  /\ NumCols * NumRows \in Nat /\ Past \in Nat /\ NumCols \in Nat /\ NumCols > 1
  /\ NumCols * (NumRows - 1) = Past - NumCols
  /\ \A y \in 0..(NumRows - 1) :
       /\ NumCols * y \in Nat /\ NumCols * y + NumCols <= Past
       /\ NumCols * (y + 1) = NumCols * y + NumCols
       /\ y > 0 => NumCols * (y - 1) = NumCols * y - NumCols
<1> USE ConsoleAssumption DEF Past
<1>1. NumCols * NumRows \in Nat /\ NumCols \in Nat /\ NumCols > 1
  OBVIOUS
<1>2. NumCols * (NumRows - 1) = NumCols * NumRows - NumCols
  OBVIOUS
<1>3. ASSUME NEW y \in 0..(NumRows - 1)
      PROVE /\ NumCols * y \in Nat /\ NumCols * y + NumCols <= NumCols * NumRows
            /\ NumCols * (y + 1) = NumCols * y + NumCols
            /\ y > 0 => NumCols * (y - 1) = NumCols * y - NumCols
  <2>1. NumCols * y \in Nat /\ NumCols * (y + 1) = NumCols * y + NumCols
        /\ NumCols * (y - 1) = NumCols * y - NumCols
    OBVIOUS
  <2>2. PICK d \in Nat : NumRows = (y + 1) + d
    <3>1. NumRows - (y + 1) \in Nat /\ NumRows = (y + 1) + (NumRows - (y + 1))
      OBVIOUS
    <3> QED BY <3>1
  <2>3. NumCols * NumRows = NumCols * (y + 1) + NumCols * d /\ NumCols * d \in Nat
    BY <2>2
  <2> QED BY <2>1, <2>3
<1> QED BY <1>1, <1>2, <1>3

(* Every place is on the screen, or the one just after it.                 *)
LEMMA PlaceInside ==
  ASSUME NEW s \in Screens
  PROVE  Pos(s) \in Cells /\ Past \in Cells /\ Pos(s) \in Nat
<1>1. s.x \in 0..NumCols /\ s.y \in 0..(NumRows - 1)
  BY DEF Screens
<1> QED BY <1>1, Rows DEF Pos, Cells

(* The column stays in the row and its one column too many.               *)
LEMMA ColumnInside ==
  ASSUME NEW x \in 0..NumCols, NEW k \in Nat
  PROVE  Column(x, k) \in 0..NumCols
<1>1. CASE x + k <= NumCols
  BY <1>1, ConsoleAssumption DEF Column
<1>2. CASE ~(x + k <= NumCols)
  <2>1. (x + k - 1) % NumCols \in 0..(NumCols - 1)
    BY <1>2, Rows
  <2> QED BY <1>2, <2>1, Rows DEF Column
<1> QED BY <1>1, <1>2

(* How the routines leave a screen.                                        *)
LEMMA Drawing ==
  ASSUME NEW c \in [Cells -> Kinds], NEW x \in 0..NumCols, NEW y \in 0..(NumRows - 1)
  PROVE  /\ Drawn(c, x, y) \in Screens /\ Drawn(c, x, y).hw = Pos(Drawn(c, x, y))
         /\ Pos(Drawn(c, x, y)) = NumCols * y + x
         /\ Drawn(c, x, y).cell = c /\ Drawn(c, x, y).x = x /\ Drawn(c, x, y).y = y
         /\ (\A i \in Cells : i >= NumCols * y + x => Free(c, i))
              => Sound(Drawn(c, x, y))
<1> DEFINE p == NumCols * y + x
           t == [cell |-> c, x |-> x, y |-> y, hw |-> p]
<1>1. p \in Int
  BY Rows
<1>2. t.cell = c /\ t.x = x /\ t.y = y /\ t.hw = p /\ Pos(t) = p
  BY DEF Pos
<1>3. t \in Screens
  BY <1>1 DEF Screens
<1>4. Drawn(c, x, y) = t
  BY DEF Drawn
<1> HIDE DEF p, t
<1>5. (\A i \in Cells : i >= p => Free(c, i)) => Ahead(t)
  BY <1>2 DEF Ahead
<1>6. /\ t \in Screens /\ t.hw = Pos(t) /\ Pos(t) = p /\ t.cell = c /\ t.x = x /\ t.y = y
      /\ (\A i \in Cells : i >= p => Free(c, i)) => Sound(t)
  BY <1>2, <1>3, <1>5 DEF Sound
<1> QED BY <1>4, <1>6 DEF p

(* Filling changes the places that are filled.                             *)
LEMMA Filling ==
  ASSUME NEW cell \in [Cells -> Kinds], NEW places, NEW c \in Kinds
  PROVE  /\ Filled(cell, places, c) \in [Cells -> Kinds]
         /\ \A i \in places \cap Cells : Filled(cell, places, c)[i] = c
         /\ \A i \in Cells \ places : Filled(cell, places, c)[i] = cell[i]
BY DEF Filled

(* The fields of a screen.                                                 *)
LEMMA Fields ==
  ASSUME NEW s \in Screens
  PROVE  s.cell \in [Cells -> Kinds] /\ s.x \in 0..NumCols /\ s.y \in 0..(NumRows - 1)
BY DEF Screens

(* A row is left, and nothing lies after it: whatever is in it, nothing     *)
(* lies ahead on the next one.                                             *)
LEMMA Enters ==
  ASSUME NEW s \in Screens,
         \A i \in Cells : i >= NumCols * s.y + NumCols => Free(s.cell, i)
  PROVE  Sound(key_enter(s)) /\ key_enter(s).x = 0
<1>1. /\ s.cell \in [Cells -> Kinds] /\ s.y \in 0..(NumRows - 1)
      /\ 0 \in 0..NumCols /\ NumRows \in Nat /\ NumRows - 1 \in 0..(NumRows - 1)
  BY Fields, ConsoleAssumption
<1>2. CASE s.y = NumRows - 1
  <2> DEFINE moved == RowsUp(s.cell)
  <2>1. Free(s.cell, Past) /\ Past \in Cells
    BY <1>1, <1>2, Rows DEF Cells
  <2>2. moved \in [Cells -> Kinds]
    <3> SUFFICES ASSUME NEW i \in Cells PROVE moved[i] \in Kinds
      BY DEF RowsUp
    <3>1. CASE i < Past - NumCols
      BY <3>1, <1>1, Rows DEF Cells, Kinds, RowsUp
    <3> QED BY <3>1, <1>1 DEF Kinds, RowsUp
  <2>3. \A i \in Cells : i >= NumCols * (NumRows - 1) + 0 => Free(moved, i)
    <3> SUFFICES ASSUME NEW i \in Cells, i >= NumCols * (NumRows - 1) + 0
                 PROVE Free(moved, i)
      OBVIOUS
    <3>1. ~(i < Past - NumCols)
      BY Rows DEF Cells
    <3> QED BY <3>1, <2>1 DEF RowsUp, Free
  <2> HIDE DEF moved
  <2>4. key_enter(s) = Drawn(moved, 0, NumRows - 1)
    BY <1>2 DEF key_enter, scroll_screen, moved
  <2> QED BY <1>1, <2>2, <2>3, <2>4, Drawing
<1>3. CASE s.y # NumRows - 1
  <2>1. s.y + 1 \in 0..(NumRows - 1)
    BY <1>1, <1>3
  <2>2. \A i \in Cells : i >= NumCols * (s.y + 1) + 0 => Free(s.cell, i)
    BY <1>1, Rows DEF Cells
  <2>3. key_enter(s) = Drawn(s.cell, 0, s.y + 1)
    BY <1>3 DEF key_enter
  <2> QED BY <1>1, <2>1, <2>2, <2>3, Drawing
<1> QED BY <1>2, <1>3

(* Where nothing lies ahead, nothing lies after the row.                    *)
LEMMA AfterRow ==
  ASSUME NEW s \in Screens, Ahead(s)
  PROVE  /\ \A i \in Cells : i >= NumCols * s.y + NumCols => Free(s.cell, i)
         /\ Pos(s) = NumCols * s.y + s.x /\ Pos(s) <= NumCols * s.y + NumCols
<1>1. s.x \in 0..NumCols /\ s.y \in 0..(NumRows - 1) /\ NumCols * s.y \in Nat /\ NumCols \in Nat
  BY Fields, Rows
<1>2. Pos(s) = NumCols * s.y + s.x /\ Pos(s) <= NumCols * s.y + NumCols
  BY <1>1 DEF Pos
<1>3. ASSUME NEW i \in Cells, i >= NumCols * s.y + NumCols
      PROVE Free(s.cell, i)
  <2>1. i \in Int
    BY Rows DEF Cells
  <2>2. i >= Pos(s)
    BY <1>1, <1>2, <1>3, <2>1
  <2> QED BY <2>2 DEF Ahead
<1> QED BY <1>2, <1>3

(* A full row is left, so the place is inside the row afterwards.           *)
LEMMA Endlines ==
  ASSUME NEW s \in Screens, Ahead(s)
  PROVE  Sound(endline(s)) /\ endline(s).x < NumCols
<1>1. s.x \in 0..NumCols /\ s.y \in 0..(NumRows - 1) /\ NumCols \in Nat /\ 0 < NumCols
  BY Rows, Fields
<1>2. CASE s.x = NumCols
  BY <1>1, <1>2, Enters, AfterRow DEF endline
<1>3. CASE s.x # NumCols
  <2>1. endline(s) = Drawn(s.cell, s.x, s.y) /\ s.x < NumCols
    BY <1>1, <1>3 DEF endline
  <2>2. \A i \in Cells : i >= NumCols * s.y + s.x => Free(s.cell, i)
    BY DEF Ahead, Pos
  <2> QED BY <1>1, <2>1, <2>2, Fields, Drawing
<1> QED BY <1>2, <1>3

(* A character is put where the place is, inside a row.                     *)
LEMMA Putc ==
  ASSUME NEW s \in Screens, Ahead(s), s.x < NumCols, NEW c \in Kinds
  PROVE  Sound(putc(s, c))
<1> DEFINE f == Filled(s.cell, {Pos(s)}, c)
<1>1. /\ s.cell \in [Cells -> Kinds] /\ s.x \in 0..NumCols /\ s.y \in 0..(NumRows - 1)
      /\ Pos(s) \in Nat /\ Pos(s) = NumCols * s.y + s.x /\ NumCols * s.y \in Nat /\ NumCols \in Nat
  BY Fields, PlaceInside, Rows DEF Pos
<1>2. f \in [Cells -> Kinds] /\ \A i \in Cells : i # Pos(s) => f[i] = s.cell[i]
  BY <1>1, Filling
<1>3. Column(s.x, 1) = s.x + 1 /\ s.x + 1 \in 0..NumCols
  BY <1>1 DEF Column
<1>4. ASSUME NEW i \in Cells, i >= NumCols * s.y + (s.x + 1)
      PROVE Free(f, i)
  <2>1. i \in Int
    BY Rows DEF Cells
  <2>2. i # Pos(s) /\ i >= Pos(s)
    BY <1>1, <1>4, <2>1
  <2> HIDE DEF f
  <2> QED BY <1>2, <2>2 DEF Ahead, Free
<1>5. putc(s, c) = Drawn(f, s.x + 1, s.y)
  BY <1>3 DEF putc
<1> HIDE DEF f
<1> QED BY <1>1, <1>2, <1>3, <1>4, <1>5, Drawing

(* A message stays in its row, which is left.                               *)
LEMMA Prints ==
  ASSUME NEW s \in Screens, Ahead(s), NEW n \in Nat
  PROVE  Sound(key_enter(puts(s, n)))
<1> DEFINE places == {NumCols * s.y + Column(s.x, k) : k \in 0..(n - 1)}
           f == Filled(s.cell, places, Message)
           u == puts(s, n)
<1>1. /\ s.cell \in [Cells -> Kinds] /\ s.x \in 0..NumCols /\ s.y \in 0..(NumRows - 1)
      /\ Message \in Kinds
  BY Fields DEF Kinds
<1>2. /\ f \in [Cells -> Kinds]
      /\ \A i \in places \cap Cells : f[i] = Message
      /\ \A i \in Cells \ places : f[i] = s.cell[i]
  <2> HIDE DEF places
  <2> QED BY <1>1, Filling
<1>3. u = Drawn(f, Column(s.x, n), s.y)
  BY DEF puts
<1> HIDE DEF f, u
<1>4. Column(s.x, n) \in 0..NumCols
  BY <1>1, ColumnInside
<1>5. u \in Screens /\ u.cell = f /\ u.y = s.y
  BY <1>1, <1>2, <1>3, <1>4, Drawing
<1>6. ASSUME NEW i \in Cells, i >= NumCols * u.y + NumCols
      PROVE Free(u.cell, i)
  <2>1. CASE u.cell[i] = s.cell[i]
    BY <1>5, <1>6, <2>1, AfterRow DEF Free
  <2>2. CASE i \in places
    <3>1. PICK k \in 0..(n - 1) : i = NumCols * s.y + Column(s.x, k)
      BY <2>2
    <3>2. Column(s.x, k) \in 0..NumCols
      BY <1>1, ColumnInside
    <3>3. i = NumCols * (s.y + 1) /\ s.y + 1 \in 1..NumRows
      <4>1. NumCols * s.y \in Nat /\ NumCols \in Nat /\ NumCols * (s.y + 1) = NumCols * s.y + NumCols
        BY <1>1, Rows
      <4>2. i = NumCols * s.y + NumCols
        BY <1>5, <1>6, <3>1, <3>2, <4>1
      <4> QED BY <1>1, <4>1, <4>2, ConsoleAssumption
    <3>4. u.cell[i] = Message
      <4> HIDE DEF places
      <4> QED BY <1>1, <1>2, <1>5, <2>2
    <3> QED BY <3>3, <3>4 DEF Free, RowStarts
  <2> QED BY <1>2, <1>5, <2>1, <2>2
<1>7. Sound(key_enter(u))
  BY <1>5, <1>6, Enters
<1> QED BY <1>7 DEF u

(* A tab fits in the row, or in the next one.                               *)
LEMMA Tabs ==
  ASSUME NEW s \in Screens, Ahead(s)
  PROVE  Sound(key_tab(s))
<1> DEFINE t == IF Jumps(s) THEN key_enter(s) ELSE s
           places == Pos(t)..(Pos(t) + TabWidth - 1)
           f == Filled(t.cell, places, Space)
<1>1. t \in Screens /\ Ahead(t)
  BY Enters, AfterRow DEF Sound
<1>2. t.x + TabWidth \in 0..NumCols
  <2>1. CASE Jumps(s)
    <3>1. t.x = 0
      BY <2>1, Enters, AfterRow
    <3> HIDE DEF t
    <3> QED BY <3>1, ConsoleAssumption
  <2>2. CASE ~Jumps(s)
    BY <2>2, Fields, ConsoleAssumption DEF Jumps
  <2> QED BY <2>1, <2>2
<1>3. key_tab(s) = Drawn(f, t.x + TabWidth, t.y)
  BY DEF key_tab
<1> HIDE DEF t
<1>4. /\ t.cell \in [Cells -> Kinds] /\ t.x \in 0..NumCols /\ t.y \in 0..(NumRows - 1)
      /\ Pos(t) \in Nat /\ Pos(t) = NumCols * t.y + t.x /\ NumCols * t.y \in Nat
      /\ TabWidth \in Nat /\ Space \in Kinds
  BY <1>1, Fields, PlaceInside, Rows, ConsoleAssumption DEF Pos, Kinds
<1>5. /\ f \in [Cells -> Kinds]
      /\ \A i \in Cells \ places : f[i] = t.cell[i]
  <2> HIDE DEF places
  <2> QED BY <1>4, Filling
<1> HIDE DEF f
<1>6. ASSUME NEW i \in Cells, i >= NumCols * t.y + (t.x + TabWidth)
      PROVE Free(f, i)
  <2>1. i \in Int
    BY Rows DEF Cells
  <2>2. i \notin places /\ i >= Pos(t)
    BY <1>4, <1>6, <2>1
  <2> QED BY <1>1, <1>5, <2>2 DEF Ahead, Free
<1> QED BY <1>2, <1>3, <1>4, <1>5, <1>6, Drawing

(* Erasing stops between the column it begins at and column 0.              *)
LEMMA Stops ==
  ASSUME NEW s, NEW row, NEW x \in 0..(NumCols - 1)
  PROVE  Stop(s, row, x) \in 0..x
<1> DEFINE stops == {i \in 1..x : i = 1 \/ ~IsEmpty(s, row, i - 1)}
<1>1. x \in Nat
  BY Rows
<1>2. CASE x = 0
  BY <1>2 DEF Stop
<1>3. CASE x # 0
  <2>1. stops \in SUBSET (0..x) /\ 1 \in stops
    BY <1>1, <1>3
  <2>2. Stop(s, row, x) = CHOOSE i \in stops : \A j \in stops : j <= i
    BY <1>3 DEF Stop
  <2> HIDE DEF stops
  <2>3. \E i \in stops : \A j \in stops : j <= i
    BY <1>1, <2>1, Largest
  <2>4. Stop(s, row, x) \in stops
    BY <2>2, <2>3
  <2> QED BY <2>1, <2>4
<1> QED BY <1>2, <1>3

(* What is erased ends where the place was.                                 *)
LEMMA Erases ==
  ASSUME NEW s \in Screens, Ahead(s), NEW row \in 0..(NumRows - 1), NEW x \in 0..(NumCols - 1),
         Pos(s) = NumCols * row + x + 1
  PROVE  Sound(EraseFrom(s, row, x))
<1> DEFINE st == Stop(s, row, x)
           places == (NumCols * row + st)..(NumCols * row + x)
           f == Filled(s.cell, places, NUL)
<1>1. st \in 0..x
  BY Stops
<1>2. EraseFrom(s, row, x) = Drawn(f, st, row)
  BY DEF EraseFrom
<1> HIDE DEF st
<1>3. /\ s.cell \in [Cells -> Kinds] /\ NUL \in Kinds
      /\ NumCols * row \in Nat /\ st \in 0..NumCols /\ NumCols \in Nat
  BY <1>1, Fields, Rows DEF Kinds
<1>4. /\ f \in [Cells -> Kinds]
      /\ \A i \in places \cap Cells : f[i] = NUL
      /\ \A i \in Cells \ places : f[i] = s.cell[i]
  <2> HIDE DEF places
  <2> QED BY <1>3, Filling
<1> HIDE DEF f
<1>5. ASSUME NEW i \in Cells, i >= NumCols * row + st
      PROVE Free(f, i)
  <2>1. i \in Int
    BY Rows DEF Cells
  <2>2. CASE i \in places
    BY <2>2, <1>4 DEF Free
  <2>3. CASE i \notin places
    <3>1. i >= Pos(s)
      BY <1>1, <1>3, <1>5, <2>1, <2>3
    <3> QED BY <3>1, <2>3, <1>4 DEF Ahead, Free
  <2> QED BY <2>2, <2>3
<1> QED BY <1>2, <1>3, <1>4, <1>5, Drawing

(* A backspace goes to the cell before, in this row or in the last one.     *)
LEMMA Backspaces ==
  ASSUME NEW s \in Screens, Ahead(s)
  PROVE  SoundOrCorner(key_backspace(s))
<1>1. /\ s.x \in 0..NumCols /\ s.y \in 0..(NumRows - 1) /\ NumCols \in Nat /\ NumCols > 1
      /\ Pos(s) = NumCols * s.y + s.x /\ NumCols * s.y \in Nat
  BY Fields, Rows DEF Pos
<1>2. CASE s.x > 0
  <2>1. s.x - 1 \in 0..(NumCols - 1) /\ Pos(s) = NumCols * s.y + (s.x - 1) + 1
    BY <1>1, <1>2
  <2>2. Sound(EraseFrom(s, s.y, s.x - 1))
    BY <1>1, <2>1, Erases
  <2> QED BY <1>2, <2>2 DEF key_backspace, Sound, SoundOrCorner
<1>3. CASE ~(s.x > 0) /\ s.y > 0
  <2>1. /\ s.y - 1 \in 0..(NumRows - 1) /\ NumCols - 1 \in 0..(NumCols - 1)
        /\ Pos(s) = NumCols * (s.y - 1) + (NumCols - 1) + 1
    BY <1>1, <1>3, Rows, ConsoleAssumption
  <2>2. Sound(EraseFrom(s, s.y - 1, NumCols - 1))
    BY <2>1, Erases
  <2> QED BY <1>3, <2>2 DEF key_backspace, Sound, SoundOrCorner
<1>4. CASE ~(s.x > 0) /\ ~(s.y > 0)
  <2> DEFINE t == putc(s, NUL)
  <2>1. s.x = 0 /\ s.y = 0 /\ NumCols * 0 = 0 /\ Column(0, 1) = 1 /\ NUL \in Kinds
    BY <1>1, <1>4, ConsoleAssumption DEF Column, Kinds
  <2>2. Sound(t)
    BY <1>1, <2>1, Putc
  <2>3. t = Drawn(Filled(s.cell, {Pos(s)}, NUL), 1, 0)
    BY <2>1 DEF putc
  <2>4. t.x = 1 /\ t.y = 0
    BY <2>3 DEF Drawn
  <2> HIDE DEF t
  <2> DEFINE u == [t EXCEPT !.hw = 0]
  <2>5. t \in Screens /\ Ahead(t)
    BY <2>2 DEF Sound
  <2>6. u \in Screens /\ u.cell = t.cell /\ u.x = t.x /\ u.y = t.y /\ u.hw = 0
    BY <2>5 DEF Screens
  <2> HIDE DEF u
  <2>7. Pos(u) = 1 /\ Pos(t) = 1
    BY <2>1, <2>4, <2>6, ConsoleAssumption DEF Pos
  <2>8. SoundOrCorner(u)
    BY <2>5, <2>6, <2>7 DEF SoundOrCorner, Ahead
  <2> QED BY <1>4, <2>8 DEF key_backspace, u, t
<1> QED BY <1>2, <1>3, <1>4

-----------------------------------------------------------------------------
(* It holds when the first program starts, and every step keeps it.       *)
LEMMA InitInv == Init => Inv
<1> SUFFICES ASSUME Init PROVE Inv
  OBVIOUS
<1> DEFINE f == [i \in Cells |-> NUL]
<1>1. screen = [cell |-> f, x |-> 0, y |-> 0, hw |-> 0]
  BY DEF Init
<1>2. f \in [Cells -> Kinds] /\ \A i \in Cells : f[i] = NUL
  BY DEF Kinds
<1> HIDE DEF f
<1>3. 0 \in 0..NumCols /\ 0 \in 0..(NumRows - 1) /\ NumCols * 0 + 0 = 0
  BY ConsoleAssumption
<1>4. screen = Drawn(f, 0, 0)
  BY <1>1, <1>3 DEF Drawn
<1>5. Sound(screen)
  BY <1>2, <1>3, <1>4, Drawing DEF Free
<1> QED BY <1>5 DEF Inv, Sound, SoundOrCorner

(* All routines but a backspace in the corner draw the cursor at the place. *)
LEMMA SoundSuffices == \A s : Sound(s) => SoundOrCorner(s)
BY DEF Sound, SoundOrCorner

LEMMA NextInv == Inv /\ [Next]_vars => Inv'
<1> SUFFICES ASSUME Inv, [Next]_vars PROVE SoundOrCorner(screen')
  BY DEF Inv
<1>1. screen \in Screens /\ Ahead(screen)
  BY DEF Inv, SoundOrCorner
<1>2. CASE screen' = screen
  BY <1>2 DEF Inv
<1>3. ASSUME NEW c \in Chars, KeyChar(c) PROVE SoundOrCorner(screen')
  <2>1. c \in Kinds
    BY ConsoleAssumption DEF Kinds, Letter, Space
  <2>2. Sound(putc(endline(screen), c))
    BY <1>1, <2>1, Endlines, Putc DEF Sound
  <2> QED BY <1>3, <2>2, SoundSuffices DEF KeyChar
<1>4. CASE KeyTab
  BY <1>1, <1>4, Tabs, SoundSuffices DEF KeyTab
<1>5. CASE KeyBackspace
  BY <1>1, <1>5, Backspaces DEF KeyBackspace
<1>6. CASE KeyEnter
  BY <1>1, <1>6, Enters, AfterRow, SoundSuffices DEF KeyEnter
<1>7. CASE KeyClear
  <2> DEFINE f == [i \in Cells |-> IF i = Past THEN screen.cell[i] ELSE NUL]
  <2>1. Past \in Cells /\ Past >= Pos(screen)
    BY <1>1, PlaceInside DEF Cells
  <2>2. Free(screen.cell, Past)
    BY <1>1, <2>1 DEF Ahead
  <2>3. f \in [Cells -> Kinds] /\ \A i \in Cells : Free(f, i)
    BY <2>2 DEF Kinds, Free
  <2>4. screen' = Drawn(f, 0, 0)
    BY <1>7 DEF KeyClear, clear
  <2> HIDE DEF f
  <2>5. 0 \in 0..NumCols /\ 0 \in 0..(NumRows - 1)
    BY ConsoleAssumption
  <2> QED BY <2>3, <2>4, <2>5, Drawing, SoundSuffices
<1>8. ASSUME NEW newline \in BOOLEAN, Write(newline) PROVE SoundOrCorner(screen')
  <2>1. Sound(endline(screen)) /\ endline(screen).x < NumCols
    BY <1>1, Endlines
  <2>2. CASE newline
    <3>1. Sound(key_enter(endline(screen)))
      BY <2>1, Enters, AfterRow DEF Sound
    <3> QED BY <1>8, <2>2, <3>1, SoundSuffices DEF Write
  <2>3. CASE ~newline
    <3>1. Sound(putc(endline(screen), Printed))
      BY <2>1, Putc DEF Sound, Kinds
    <3> QED BY <1>8, <2>3, <3>1, SoundSuffices DEF Write
  <2> QED BY <2>2, <2>3
<1>9. ASSUME NEW n \in MessageLengths, NEW m \in MessageLengths, Exception(n, m)
      PROVE SoundOrCorner(screen')
  <2>1. n \in Nat /\ m \in Nat
    BY ConsoleAssumption
  <2>2. Sound(key_enter(puts(screen, n)))
    BY <1>1, <2>1, Prints
  <2>3. Sound(key_enter(puts(key_enter(puts(screen, n)), m)))
    BY <2>1, <2>2, Prints DEF Sound
  <2> QED BY <1>9, <2>3, SoundSuffices DEF Exception
<1>10. CASE Refusal
  <2> DEFINE s == add_newline_if_line_not_empty(screen)
  <2>1. s \in Screens /\ Ahead(s)
    BY <1>1, Enters, AfterRow DEF add_newline_if_line_not_empty, Sound
  <2>2. screen' = key_enter(puts(s, 1))
    BY <1>10 DEF Refusal
  <2> HIDE DEF s
  <2> QED BY <2>1, <2>2, Prints, SoundSuffices
<1>11. QED
  BY <1>2, <1>3, <1>4, <1>5, <1>6, <1>7, <1>8, <1>9, <1>10
     DEF Next, vars, KeyCtrlC, ReadStarts, ReadReturns

(* Whatever is typed, printed, scrolled or erased, nothing that was typed *)
(* or printed lies ahead, and the cursor is drawn at the place.           *)
THEOREM InvCorrect == Spec => []Inv
BY InitInv, NextInv, PTL DEF Spec

(* The next character always has a place on the screen, and the cursor is  *)
(* drawn there, for a screen and a tab of any size.                        *)
THEOREM CursorCorrect == Spec => []CursorAtPlace
<1>1. Inv => CursorAtPlace
  BY Fields DEF Inv, SoundOrCorner, CursorAtPlace
<1> QED BY <1>1, InvCorrect, PTL

(* Text is never written over but by a message of the kernel, which may go  *)
(* on at the start of its own row.                                         *)
THEOREM NothingAheadCorrect == Spec => []NothingAhead
<1>1. Inv => NothingAhead
  BY DEF Inv, SoundOrCorner, Ahead, NothingAhead, Free
<1> QED BY <1>1, InvCorrect, PTL

-----------------------------------------------------------------------------
(* What was printed lies behind what was typed.                            *)

Untyped == {Printed, Message}
Nonempty(s, i) == {j \in Cells : i < j /\ j < Pos(s) /\ s.cell[j] # NUL}

\* At least k characters come after anything that was not typed.
Behind(s, k) ==
  \A i \in Cells :
    i < Pos(s) /\ s.cell[i] \in Untyped => Cardinality(Nonempty(s, i)) >= k

\* t is s with n times the character c put at its place.
Extended(s, t, n, c) ==
  /\ Pos(t) = Pos(s) + n
  /\ \A j \in Cells : j < Pos(s) => t.cell[j] = s.cell[j]
  /\ \A j \in Cells : j >= Pos(s) /\ j < Pos(t) => t.cell[j] = c

\* t is s with the character before its place erased, and the empty cells before
\* that one passed over.
Erased(s, t) ==
  /\ Pos(t) < Pos(s)
  /\ \A j \in Cells : j < Pos(t) \/ j >= Pos(s) => t.cell[j] = s.cell[j]
  /\ \A j \in Cells : j >= Pos(t) /\ j < Pos(s) - 1 => s.cell[j] = NUL
  /\ Pos(s) > 1 /\ s.cell[Pos(s) - 2] # NUL => Pos(t) = Pos(s) - 1

\* t is s with its row left; up is by how many cells the screen was scrolled.
Entered(s, t, up) ==
  /\ Pos(t) + up = NumCols * s.y + NumCols
  /\ \A j \in Cells : j < Pos(t) => j + up \in Cells /\ t.cell[j] = s.cell[j + up]
  /\ up > 0 => Pos(t) = NumCols * (NumRows - 1)

(* The characters before the place can be counted.                         *)
LEMMA Countable ==
  ASSUME NEW s, NEW i
  PROVE  IsFiniteSet(Nonempty(s, i)) /\ Cardinality(Nonempty(s, i)) \in Nat
<1>1. IsFiniteSet(Cells) /\ Nonempty(s, i) \in SUBSET Cells
  <2>1. IsFiniteSet(0..Past)
    BY Rows, FS_Interval
  <2> QED BY <2>1 DEF Cells, Nonempty
<1>2. IsFiniteSet(Nonempty(s, i))
  BY <1>1, FS_Subset
<1> QED BY <1>2, FS_CardinalityType

(* No line is behind anything, and every screen ends with no line.         *)
LEMMA NoLine ==
  ASSUME NEW s \in Screens, NEW line
  PROVE  Behind(s, 0) /\ EndsWith(s, 0, line)
<1>1. Behind(s, 0)
  BY Countable DEF Behind
<1> QED BY <1>1, PlaceInside DEF EndsWith

(* The first column of a row is that of no other row.                      *)
LEMMA RowStartsApart ==
  ASSUME NEW y \in 0..(NumRows - 1), NEW i \in RowStarts,
         i > NumCols * y, i < NumCols * y + NumCols
  PROVE  FALSE
<1>1. PICK r \in 1..NumRows : i = NumCols * r
  BY DEF RowStarts
<1>2. NumCols \in Nat /\ y \in Nat /\ r \in Nat /\ NumCols * (y + 1) = NumCols * y + NumCols
  BY Rows, ConsoleAssumption
<1>3. CASE r <= y
  <2>1. PICK d \in Nat : y = r + d
    <3>1. y - r \in Nat /\ y = r + (y - r)
      BY <1>2, <1>3
    <3> QED BY <3>1
  <2>2. NumCols * y = NumCols * r + NumCols * d /\ NumCols * d \in Nat /\ NumCols * r \in Nat
    BY <1>2, <2>1
  <2> QED BY <1>1, <2>2
<1>4. CASE r >= y + 1
  <2>1. PICK d \in Nat : r = (y + 1) + d
    <3>1. r - (y + 1) \in Nat /\ r = (y + 1) + (r - (y + 1))
      BY <1>2, <1>4
    <3> QED BY <3>1
  <2>2. NumCols * r = NumCols * (y + 1) + NumCols * d /\ NumCols * d \in Nat
        /\ NumCols * (y + 1) \in Nat
    BY <1>2, <2>1
  <2> QED BY <1>1, <1>2, <2>2
<1> QED BY <1>2, <1>3, <1>4

(* Leaving a row moves the place, and all text with it when it scrolls.    *)
LEMMA Entering ==
  ASSUME NEW s \in Screens
  PROVE  \E up \in {0, NumCols} : Entered(s, key_enter(s), up)
<1>1. /\ s.cell \in [Cells -> Kinds] /\ s.y \in 0..(NumRows - 1) /\ NumRows \in Nat
      /\ NumCols \in Nat /\ Past \in Nat
  BY Fields, ConsoleAssumption, Rows
<1>2. CASE s.y = NumRows - 1
  <2> DEFINE t == key_enter(s)
  <2>1. t = Drawn(RowsUp(s.cell), 0, NumRows - 1)
    BY <1>2 DEF key_enter, scroll_screen
  <2>2. t.cell = RowsUp(s.cell) /\ Pos(t) = NumCols * (NumRows - 1) + 0
    BY <2>1 DEF Drawn, Pos
  <2> HIDE DEF t
  <2>3. Pos(t) = Past - NumCols /\ Pos(t) = NumCols * (NumRows - 1)
        /\ Pos(t) + NumCols = NumCols * s.y + NumCols
    BY <1>1, <1>2, <2>2, Rows
  <2>4. ASSUME NEW j \in Cells, j < Pos(t)
        PROVE  j + NumCols \in Cells /\ t.cell[j] = s.cell[j + NumCols]
    BY <1>1, <2>2, <2>3, <2>4 DEF RowsUp, Cells
  <2> QED BY <2>3, <2>4 DEF Entered, t
<1>3. CASE s.y # NumRows - 1
  <2> DEFINE t == key_enter(s)
  <2>1. t = Drawn(s.cell, 0, s.y + 1)
    BY <1>3 DEF key_enter
  <2>2. t.cell = s.cell /\ Pos(t) = NumCols * (s.y + 1) + 0
    BY <2>1 DEF Drawn, Pos
  <2> HIDE DEF t
  <2>3. Pos(t) + 0 = NumCols * s.y + NumCols
    BY <1>1, <2>2, Rows
  <2>4. ASSUME NEW j \in Cells
        PROVE  j + 0 \in Cells /\ t.cell[j] = s.cell[j + 0]
    BY <1>1, <2>2 DEF Cells
  <2> QED BY <2>3, <2>4 DEF Entered, t
<1> QED BY <1>2, <1>3

(* Text that reaches the edge goes on in the next row.                     *)
LEMMA EnteringEnds ==
  ASSUME NEW s \in Screens, NEW t \in Screens, NEW up \in {0, NumCols}, Entered(s, t, up),
         s.x = NumCols,
         NEW n \in Nat, n <= NumCols * (NumRows - 1), NEW line, EndsWith(s, n, line)
  PROVE  EndsWith(t, n, line)
<1>1. /\ Pos(s) \in Nat /\ Pos(t) \in Nat /\ up \in Nat /\ NumCols \in Nat /\ NumCols > 0
      /\ Pos(s) = Pos(t) + up /\ Pos(s) <= Past /\ Past \in Nat
  <2>1. Pos(s) = NumCols * s.y + NumCols
    BY DEF Pos
  <2> QED BY <2>1, PlaceInside, Rows DEF Entered, Cells
<1>2. n <= Pos(t)
  BY <1>1 DEF Entered, EndsWith
<1>3. ASSUME NEW i \in 1..n PROVE t.cell[Pos(t) - n + i - 1] = line[i]
  <2>1. /\ Pos(t) - n + i - 1 \in Cells /\ Pos(t) - n + i - 1 < Pos(t)
        /\ (Pos(t) - n + i - 1) + up = Pos(s) - n + i - 1
    BY <1>1, <1>2 DEF Cells
  <2>2. t.cell[Pos(t) - n + i - 1] = s.cell[Pos(s) - n + i - 1]
    BY <2>1 DEF Entered
  <2> QED BY <2>2 DEF EndsWith
<1> QED BY <1>2, <1>3 DEF EndsWith

(* Leaving a row passes over nothing that was printed, unless the row is    *)
(* one that was just begun.                                                *)
LEMMA EnteringBehind ==
  ASSUME NEW s \in Screens, Ahead(s), s.x > 0,
         NEW t \in Screens, NEW up \in {0, NumCols}, Entered(s, t, up),
         NEW k \in Nat, Behind(s, k)
  PROVE  Behind(t, k)
<1>1. /\ Pos(s) \in Nat /\ Pos(t) \in Nat /\ up \in Nat /\ NumCols \in Nat
      /\ s.x \in 0..NumCols /\ s.y \in 0..(NumRows - 1) /\ NumCols * s.y \in Nat
      /\ Pos(s) = NumCols * s.y + s.x /\ Pos(s) <= Pos(t) + up /\ Past \in Nat
  BY PlaceInside, Rows, Fields DEF Entered, Pos
<1> SUFFICES ASSUME NEW i \in Cells, i < Pos(t), t.cell[i] \in Untyped
             PROVE  Cardinality(Nonempty(t, i)) >= k
  BY DEF Behind
<1>2. i \in Nat /\ i + up \in Cells /\ t.cell[i] = s.cell[i + up]
  BY <1>1 DEF Entered, Cells
<1>3. i + up < Pos(s)
  <2> SUFFICES ASSUME i + up >= Pos(s) PROVE FALSE
    BY <1>1, <1>2
  <2>1. i + up \in RowStarts
    BY <1>2 DEF Ahead, Free, Untyped, NUL, Printed, Message
  <2>2. i + up > NumCols * s.y /\ i + up < NumCols * s.y + NumCols
    BY <1>1, <1>2 DEF Entered
  <2> QED BY <1>1, <2>1, <2>2, RowStartsApart
<1>4. Cardinality(Nonempty(s, i + up)) >= k
  BY <1>2, <1>3 DEF Behind
<1> DEFINE S == Nonempty(s, i + up)
           T == Nonempty(t, i)
           f == [j \in S |-> j - up]
<1>5. ASSUME NEW j \in S PROVE j \in Nat /\ j - up \in T
  <2>1. j \in Nat /\ i + up < j /\ j < Pos(s) /\ s.cell[j] # NUL
    BY <1>1 DEF Nonempty, Cells
  <2>2. j - up \in Cells /\ j - up < Pos(t) /\ i < j - up /\ (j - up) + up = j
    BY <1>1, <1>2, <2>1, PlaceInside DEF Cells
  <2>3. t.cell[j - up] = s.cell[j]
    BY <2>2 DEF Entered
  <2> QED BY <2>1, <2>2, <2>3 DEF Nonempty
<1>6. f \in Injection(S, T)
  <2> HIDE DEF S, T
  <2>1. f \in [S -> T]
    BY <1>5
  <2>2. \A a, b \in S : f[a] = f[b] => a = b
    BY <1>1, <1>5
  <2> QED BY <2>1, <2>2 DEF Injection, IsInjective
<1>7. IsFiniteSet(S) /\ IsFiniteSet(T) /\ Cardinality(S) \in Nat /\ Cardinality(T) \in Nat
  BY Countable
<1> HIDE DEF S, T, f
<1>8. Cardinality(S) <= Cardinality(T)
  BY <1>6, <1>7, FS_Injection
<1> QED BY <1>4, <1>7, <1>8 DEF S, T

(* Typing adds to the line that ends at the place.                         *)
LEMMA ExtendedEnds ==
  ASSUME NEW s \in Screens, NEW t \in Screens, NEW m \in Nat, NEW c, Extended(s, t, m, c),
         NEW n \in Nat, NEW line, NEW longer, EndsWith(s, n, line),
         \A i \in 1..n : longer[i] = line[i],
         \A i \in 1..(n + m) : i > n => longer[i] = c
  PROVE  EndsWith(t, n + m, longer)
<1>1. Pos(s) \in Nat /\ Pos(t) \in Nat /\ Pos(t) = Pos(s) + m /\ n <= Pos(s) /\ Past \in Nat
      /\ Pos(t) <= Past
  BY PlaceInside, Rows DEF Extended, EndsWith, Cells
<1>2. ASSUME NEW i \in 1..(n + m)
      PROVE  t.cell[Pos(t) - (n + m) + i - 1] = longer[i]
  <2> DEFINE j == Pos(t) - (n + m) + i - 1
  <2>1. j \in Cells /\ j = Pos(s) - n + i - 1 /\ j < Pos(t)
    BY <1>1 DEF Cells
  <2>2. CASE i <= n
    <3>1. j < Pos(s) /\ i \in 1..n
      BY <1>1, <2>1, <2>2
    <3>2. t.cell[j] = s.cell[j]
      BY <2>1, <3>1 DEF Extended
    <3>3. s.cell[j] = line[i]
      BY <2>1, <3>1 DEF EndsWith
    <3> HIDE DEF j
    <3> QED BY <3>1, <3>2, <3>3 DEF j
  <2>3. CASE i > n
    <3>1. j >= Pos(s)
      BY <1>1, <2>1, <2>3
    <3>2. t.cell[j] = c
      BY <2>1, <3>1 DEF Extended
    <3> HIDE DEF j
    <3> QED BY <2>3, <3>2 DEF j
  <2> QED BY <2>2, <2>3
<1> QED BY <1>1, <1>2 DEF EndsWith

(* What is typed comes after what was printed.                             *)
LEMMA ExtendedBehind ==
  ASSUME NEW s \in Screens, NEW t \in Screens, NEW m \in Nat, NEW c \in {Letter, Space},
         Extended(s, t, m, c), NEW k \in Nat, Behind(s, k)
  PROVE  Behind(t, k + m)
<1>1. Pos(s) \in Nat /\ Pos(t) \in Nat /\ Pos(t) = Pos(s) + m /\ Past \in Nat /\ Pos(t) <= Past
      /\ c # NUL /\ c \notin Untyped
  BY PlaceInside, Rows DEF Extended, Cells, Letter, Space, NUL, Untyped, Printed, Message
<1> SUFFICES ASSUME NEW i \in Cells, i < Pos(t), t.cell[i] \in Untyped
             PROVE  Cardinality(Nonempty(t, i)) >= k + m
  BY DEF Behind
<1>2. i \in Nat /\ i < Pos(s) /\ s.cell[i] \in Untyped
  <2>1. i \in Nat
    BY Rows DEF Cells
  <2>2. ~(i >= Pos(s))
    BY <1>1 DEF Extended
  <2> QED BY <1>1, <2>1, <2>2 DEF Extended
<1> DEFINE S == Nonempty(s, i)
           T == Nonempty(t, i)
           new == Pos(s)..(Pos(s) + m - 1)
<1>3. Cardinality(S) >= k
  BY <1>2 DEF Behind
<1>4. S \cup new \subseteq T /\ S \cap new = {}
  <2>1. ASSUME NEW j \in S PROVE j \in T /\ j \notin new
    <3>1. j \in Cells /\ j \in Nat /\ i < j /\ j < Pos(s) /\ s.cell[j] # NUL
      BY Rows DEF Nonempty, Cells
    <3>2. j < Pos(t) /\ t.cell[j] = s.cell[j]
      BY <1>1, <3>1 DEF Extended
    <3> QED BY <1>1, <3>1, <3>2 DEF Nonempty
  <2>2. ASSUME NEW j \in new PROVE j \in T
    <3>1. j \in Cells /\ i < j /\ j >= Pos(s) /\ j < Pos(t)
      BY <1>1, <1>2 DEF Cells
    <3>2. t.cell[j] = c
      BY <3>1 DEF Extended
    <3> QED BY <1>1, <3>1, <3>2 DEF Nonempty
  <2> HIDE DEF S, T, new
  <2> QED BY <2>1, <2>2
<1>5. /\ IsFiniteSet(S) /\ IsFiniteSet(T) /\ Cardinality(S) \in Nat /\ Cardinality(T) \in Nat
  BY Countable
<1>6. IsFiniteSet(new) /\ Cardinality(new) = m
  <2>1. IsFiniteSet(new) /\ Cardinality(new) =
          IF Pos(s) > Pos(s) + m - 1 THEN 0 ELSE (Pos(s) + m - 1) - Pos(s) + 1
    <3> DEFINE a == Pos(s)
               b == Pos(s) + m - 1
    <3>1. a \in Int /\ b \in Int
      BY <1>1
    <3> HIDE DEF a, b
    <3>2. IsFiniteSet(a..b) /\ Cardinality(a..b) = IF a > b THEN 0 ELSE b - a + 1
      BY <3>1, FS_Interval
    <3> QED BY <3>2 DEF a, b
  <2> HIDE DEF new
  <2> QED BY <1>1, <2>1
<1> HIDE DEF S, T, new
<1>7. Cardinality(S \cup new) = Cardinality(S) + m
  <2>1. Cardinality(S \cap new) = 0
    BY <1>4, FS_EmptySet
  <2>2. Cardinality(S \cup new) = Cardinality(S) + Cardinality(new) - Cardinality(S \cap new)
    BY <1>5, <1>6, FS_Union
  <2> QED BY <1>5, <1>6, <2>1, <2>2
<1>8. Cardinality(S \cup new) <= Cardinality(T)
  BY <1>4, <1>5, FS_Subset
<1> QED BY <1>3, <1>5, <1>7, <1>8 DEF T

(* A backspace takes the last character of the line that ends at the place. *)
LEMMA ErasedEnds ==
  ASSUME NEW s \in Screens, NEW t \in Screens, Erased(s, t),
         NEW n \in Nat, n > 0, NEW line, \A i \in 1..n : line[i] # NUL,
         EndsWith(s, n, line)
  PROVE  EndsWith(t, n - 1, line)
<1>1. Pos(s) \in Nat /\ Pos(t) \in Nat /\ n <= Pos(s) /\ Past \in Nat /\ Pos(s) <= Past
  BY PlaceInside, Rows DEF EndsWith, Cells
<1>2. CASE n = 1
  BY <1>2, NoLine
<1>3. CASE n > 1
  <2>1. n - 1 \in 1..n /\ Pos(s) - n + (n - 1) - 1 = Pos(s) - 2
    BY <1>1, <1>3
  <2>2. s.cell[Pos(s) - n + (n - 1) - 1] = line[n - 1] /\ line[n - 1] # NUL
    BY <2>1 DEF EndsWith
  <2>3. s.cell[Pos(s) - 2] # NUL
    BY <2>1, <2>2
  <2>4. Pos(t) = Pos(s) - 1
    BY <1>1, <1>3, <2>3 DEF Erased
  <2>5. ASSUME NEW i \in 1..(n - 1) PROVE t.cell[Pos(t) - (n - 1) + i - 1] = line[i]
    <3>1. /\ i \in 1..n /\ Pos(t) - (n - 1) + i - 1 = Pos(s) - n + i - 1
          /\ Pos(s) - n + i - 1 \in Cells /\ Pos(s) - n + i - 1 < Pos(t)
      BY <1>1, <2>4 DEF Cells
    <3>2. s.cell[Pos(s) - n + i - 1] = line[i]
      BY <3>1 DEF EndsWith
    <3>3. t.cell[Pos(s) - n + i - 1] = s.cell[Pos(s) - n + i - 1]
      BY <3>1 DEF Erased
    <3> QED BY <3>1, <3>2, <3>3
  <2> QED BY <1>1, <2>4, <2>5 DEF EndsWith
<1> QED BY <1>2, <1>3

(* It takes a character that was typed, and the others stay behind what     *)
(* was printed.                                                             *)
LEMMA ErasedBehind ==
  ASSUME NEW s \in Screens, NEW t \in Screens, Erased(s, t),
         NEW k \in Nat, k > 0, Behind(s, k)
  PROVE  /\ Behind(t, k - 1)
         /\ \A i \in Cells : s.cell[i] \in Untyped => t.cell[i] = s.cell[i]
<1>1. /\ Pos(s) \in Nat /\ Pos(t) \in Nat /\ Pos(t) < Pos(s) /\ Cells \subseteq Nat
      /\ NUL \notin Untyped
  BY PlaceInside, Rows DEF Erased, Cells, NUL, Untyped, Printed, Message
<1>2. ASSUME NEW i \in Cells, i < Pos(t), t.cell[i] \in Untyped
      PROVE  Cardinality(Nonempty(t, i)) >= k - 1
  <2> DEFINE S == Nonempty(s, i)
             T == Nonempty(t, i)
  <2>1. s.cell[i] \in Untyped /\ i < Pos(s) /\ i \in Nat
    BY <1>1, <1>2 DEF Erased
  <2>2. Cardinality(S) >= k
    BY <2>1 DEF Behind
  <2>3. S \subseteq T \cup {Pos(s) - 1}
    <3> SUFFICES ASSUME NEW j \in S, j # Pos(s) - 1 PROVE j \in T
      OBVIOUS
    <3>1. j \in Cells /\ j \in Nat /\ i < j /\ j < Pos(s) /\ s.cell[j] # NUL
      BY <1>1 DEF Nonempty
    <3>2. j < Pos(t)
      BY <1>1, <3>1 DEF Erased
    <3>3. t.cell[j] = s.cell[j]
      BY <3>1, <3>2 DEF Erased
    <3> QED BY <3>1, <3>2, <3>3 DEF Nonempty
  <2>4. IsFiniteSet(T) /\ Cardinality(S) \in Nat /\ Cardinality(T) \in Nat
    BY Countable
  <2> HIDE DEF S, T
  <2>5. /\ IsFiniteSet(T \cup {Pos(s) - 1})
        /\ Cardinality(T \cup {Pos(s) - 1}) <= Cardinality(T) + 1
        /\ Cardinality(T \cup {Pos(s) - 1}) \in Nat
    <3>1. /\ IsFiniteSet(T \cup {Pos(s) - 1})
          /\ Cardinality(T \cup {Pos(s) - 1}) =
               IF Pos(s) - 1 \in T THEN Cardinality(T) ELSE Cardinality(T) + 1
      BY <2>4, FS_AddElement
    <3> QED BY <2>4, <3>1
  <2>6. Cardinality(S) <= Cardinality(T \cup {Pos(s) - 1})
    BY <2>3, <2>5, FS_Subset
  <2> QED BY <2>2, <2>4, <2>5, <2>6 DEF T
<1>3. ASSUME NEW i \in Cells, s.cell[i] \in Untyped
      PROVE  t.cell[i] = s.cell[i]
  <2>1. CASE i < Pos(t) \/ i >= Pos(s)
    BY <2>1 DEF Erased
  <2>2. CASE i >= Pos(t) /\ i < Pos(s) - 1
    BY <1>1, <1>3, <2>2 DEF Erased
  <2>3. CASE i = Pos(s) - 1
    <3>1. Nonempty(s, i) = {}
      <4>1. \A j \in Cells : ~(i < j /\ j < Pos(s))
        BY <1>1, <2>3
      <4> QED BY <4>1 DEF Nonempty
    <3>2. Cardinality(Nonempty(s, i)) = 0
      BY <3>1, FS_EmptySet
    <3> QED BY <1>1, <1>3, <2>3, <3>2 DEF Behind
  <2> QED BY <1>1, <2>1, <2>2, <2>3
<1> QED BY <1>2, <1>3 DEF Behind

(* A full row is left without changing the text or where it ends.          *)
LEMMA EndlineKeeps ==
  ASSUME NEW s \in Screens, Ahead(s)
  PROVE  /\ \A k \in Nat : Behind(s, k) => Behind(endline(s), k)
         /\ \A n \in Nat : \A line :
              n <= NumCols * (NumRows - 1) /\ EndsWith(s, n, line) => EndsWith(endline(s), n, line)
<1>1. endline(s) \in Screens
  BY Endlines DEF Sound
<1>2. CASE s.x = NumCols
  <2>1. endline(s) = key_enter(s) /\ s.x > 0
    BY <1>2, Rows DEF endline
  <2>2. PICK up \in {0, NumCols} : Entered(s, endline(s), up)
    BY <2>1, Entering
  <2>3. ASSUME NEW k \in Nat, Behind(s, k) PROVE Behind(endline(s), k)
    BY <1>1, <2>1, <2>2, <2>3, EnteringBehind
  <2>4. ASSUME NEW n \in Nat, NEW line, n <= NumCols * (NumRows - 1), EndsWith(s, n, line)
        PROVE  EndsWith(endline(s), n, line)
    BY <1>1, <1>2, <2>2, <2>4, EnteringEnds
  <2> QED BY <2>3, <2>4
<1>3. CASE s.x # NumCols
  <2>1. endline(s).cell = s.cell /\ Pos(endline(s)) = Pos(s)
    BY <1>3 DEF endline, Drawn, Pos
  <2> QED BY <2>1 DEF Behind, Nonempty, EndsWith
<1> QED BY <1>2, <1>3

(* putc() adds one character.                                              *)
LEMMA PutcExtends ==
  ASSUME NEW s \in Screens, s.x < NumCols, NEW c \in Kinds
  PROVE  Extended(s, putc(s, c), 1, c)
<1> DEFINE f == Filled(s.cell, {Pos(s)}, c)
           t == putc(s, c)
<1>1. /\ s.cell \in [Cells -> Kinds] /\ s.x \in 0..NumCols /\ s.y \in 0..(NumRows - 1)
      /\ Pos(s) \in Nat /\ Pos(s) \in Cells /\ Pos(s) = NumCols * s.y + s.x
      /\ NumCols * s.y \in Nat /\ NumCols \in Nat /\ Cells \subseteq Nat
  BY Fields, PlaceInside, Rows DEF Pos, Cells
<1>2. f[Pos(s)] = c /\ \A i \in Cells : i # Pos(s) => f[i] = s.cell[i]
  BY <1>1, Filling
<1>3. Column(s.x, 1) = s.x + 1
  BY <1>1 DEF Column
<1>4. t = Drawn(f, s.x + 1, s.y)
  BY <1>3 DEF putc
<1> HIDE DEF f, t
<1>5. t.cell = f /\ Pos(t) = NumCols * s.y + (s.x + 1)
  BY <1>4 DEF Drawn, Pos
<1>6. Pos(t) = Pos(s) + 1
  BY <1>1, <1>5
<1>7. \A j \in Cells : j >= Pos(s) /\ j < Pos(t) => j = Pos(s)
  BY <1>1, <1>6
<1>8. \A j \in Cells : j < Pos(s) => j # Pos(s)
  BY <1>1
<1>9. Extended(s, t, 1, c)
  BY <1>2, <1>5, <1>6, <1>7, <1>8 DEF Extended
<1> QED BY <1>9 DEF t

(* A tab adds its spaces, after a new row if it jumps.                     *)
LEMMA TabExtends ==
  ASSUME NEW s \in Screens, Ahead(s), NEW t, t = IF Jumps(s) THEN key_enter(s) ELSE s
  PROVE  t \in Screens /\ Extended(t, key_tab(s), TabWidth, Space)
<1> DEFINE places == Pos(t)..(Pos(t) + TabWidth - 1)
           f == Filled(t.cell, places, Space)
           u == key_tab(s)
<1>1. t \in Screens
  BY Enters, AfterRow DEF Sound
<1>2. u = Drawn(f, t.x + TabWidth, t.y)
  BY DEF key_tab
<1>3. /\ t.cell \in [Cells -> Kinds] /\ t.x \in 0..NumCols
      /\ Pos(t) \in Nat /\ Pos(t) = NumCols * t.y + t.x /\ NumCols * t.y \in Nat
      /\ TabWidth \in Nat /\ Space \in Kinds /\ Cells \subseteq Nat
  <2>1. t.cell \in [Cells -> Kinds] /\ t.x \in 0..NumCols /\ t.y \in 0..(NumRows - 1)
    BY <1>1, Fields
  <2>2. Pos(t) \in Nat
    BY <1>1, PlaceInside
  <2>3. Pos(t) = NumCols * t.y + t.x
    BY DEF Pos
  <2>4. NumCols * t.y \in Nat
    BY <2>1, Rows
  <2>5. TabWidth \in Nat
    BY ConsoleAssumption
  <2>6. Space \in Kinds
    BY DEF Kinds
  <2>7. Cells \subseteq Nat
    BY Rows DEF Cells
  <2> QED BY <2>1, <2>2, <2>3, <2>4, <2>5, <2>6, <2>7
<1>4. /\ \A i \in places \cap Cells : f[i] = Space
      /\ \A i \in Cells \ places : f[i] = t.cell[i]
  <2> HIDE DEF places
  <2> QED BY <1>3, Filling
<1> HIDE DEF f, u
<1>5. u.cell = f /\ Pos(u) = NumCols * t.y + (t.x + TabWidth)
  BY <1>2 DEF Drawn, Pos
<1>6. Pos(u) = Pos(t) + TabWidth
  BY <1>3, <1>5
<1>7. ASSUME NEW j \in Cells PROVE /\ j < Pos(t) => j \notin places
                                   /\ j >= Pos(t) /\ j < Pos(u) => j \in places
  BY <1>3, <1>6
<1> HIDE DEF places
<1>8. Extended(t, u, TabWidth, Space)
  BY <1>4, <1>5, <1>6, <1>7 DEF Extended
<1> QED BY <1>1, <1>8 DEF u

(* Where erasing stops: the cells it passes over are empty.                *)
LEMMA StopsBehindText ==
  ASSUME NEW s, NEW row, NEW x \in 0..(NumCols - 1)
  PROVE  /\ Stop(s, row, x) \in 0..x
         /\ \A i \in 0..x : i >= Stop(s, row, x) /\ i < x => IsEmpty(s, row, i)
         /\ x > 0 /\ ~IsEmpty(s, row, x - 1) => Stop(s, row, x) = x
<1> DEFINE stops == {i \in 1..x : i = 1 \/ ~IsEmpty(s, row, i - 1)}
           st == Stop(s, row, x)
<1>1. x \in Nat /\ st \in 0..x
  BY Rows, Stops
<1>2. CASE x = 0
  BY <1>1, <1>2
<1>3. CASE x # 0
  <2>1. stops \in SUBSET (0..x) /\ 1 \in stops
    BY <1>1, <1>3
  <2>2. st = CHOOSE i \in stops : \A j \in stops : j <= i
    BY <1>3 DEF Stop
  <2> HIDE DEF st
  <2>3. st \in stops /\ \A j \in stops : j <= st
    <3> HIDE DEF stops
    <3>1. \E i \in stops : \A j \in stops : j <= i
      BY <1>1, <2>1, Largest
    <3> QED BY <2>2, <3>1
  <2>4. ASSUME NEW i \in 0..x, i >= st, i < x PROVE IsEmpty(s, row, i)
    <3>1. i + 1 \in 1..x /\ ~(i + 1 <= st) /\ i + 1 - 1 = i /\ st \in 1..x
      BY <1>1, <2>3, <2>4
    <3>2. i + 1 \notin stops
      <4> HIDE DEF stops
      <4> QED BY <2>3, <3>1
    <3> QED BY <3>1, <3>2
  <2>5. ASSUME ~IsEmpty(s, row, x - 1) PROVE st = x
    <3>1. x \in stops
      BY <1>1, <1>3, <2>5
    <3>2. x <= st
      <4> HIDE DEF stops
      <4> QED BY <2>3, <3>1
    <3> QED BY <1>1, <3>2
  <2> QED BY <1>1, <2>4, <2>5 DEF st
<1> QED BY <1>2, <1>3

(* Erasing takes one character and passes over empty cells.                *)
LEMMA ErasingErases ==
  ASSUME NEW s \in Screens, NEW row \in 0..(NumRows - 1), NEW x \in 0..(NumCols - 1),
         Pos(s) = NumCols * row + x + 1
  PROVE  Erased(s, EraseFrom(s, row, x))
<1> DEFINE st == Stop(s, row, x)
           places == (NumCols * row + st)..(NumCols * row + x)
           f == Filled(s.cell, places, NUL)
           t == EraseFrom(s, row, x)
<1>1. /\ st \in 0..x
      /\ \A i \in 0..x : i >= st /\ i < x => s.cell[NumCols * row + i] = NUL
      /\ x > 0 /\ s.cell[NumCols * row + (x - 1)] # NUL => st = x
  BY StopsBehindText DEF IsEmpty
<1>2. t = Drawn(f, st, row)
  BY DEF EraseFrom
<1> HIDE DEF st
<1>3. /\ s.cell \in [Cells -> Kinds] /\ NUL \in Kinds
      /\ NumCols * row \in Nat /\ NumCols \in Nat /\ x \in Nat /\ st \in Nat /\ st <= x
      /\ Cells \subseteq Nat
  BY <1>1, Fields, Rows DEF Kinds, Cells
<1>4. \A i \in Cells \ places : f[i] = s.cell[i]
  <2> HIDE DEF places
  <2>1. s.cell \in [Cells -> Kinds] /\ NUL \in Kinds
    BY <1>3
  <2> QED BY <2>1, Filling
<1> HIDE DEF f, t
<1>5. t.cell = f /\ Pos(t) = NumCols * row + st
  BY <1>2 DEF Drawn, Pos
<1>6. Pos(t) < Pos(s)
  BY <1>3, <1>5
<1>7. ASSUME NEW j \in Cells, j < Pos(t) \/ j >= Pos(s) PROVE t.cell[j] = s.cell[j]
  <2>1. j \notin places
    BY <1>3, <1>5, <1>7
  <2> HIDE DEF places
  <2> QED BY <1>4, <1>5, <2>1
<1>8. ASSUME NEW j \in Cells, j >= Pos(t), j < Pos(s) - 1 PROVE s.cell[j] = NUL
  <2>1. PICK i \in 0..x : j = NumCols * row + i /\ i >= st /\ i < x
    <3>1. j - NumCols * row \in 0..x /\ j = NumCols * row + (j - NumCols * row)
          /\ j - NumCols * row >= st /\ j - NumCols * row < x
      BY <1>3, <1>5, <1>8
    <3> QED BY <3>1
  <2> QED BY <1>1, <2>1
<1>9. ASSUME Pos(s) > 1, s.cell[Pos(s) - 2] # NUL PROVE Pos(t) = Pos(s) - 1
  <2>1. CASE x > 0
    <3>1. NumCols * row + (x - 1) = Pos(s) - 2
      BY <1>3
    <3> QED BY <1>1, <1>3, <1>5, <1>9, <2>1, <3>1
  <2>2. CASE ~(x > 0)
    BY <1>3, <1>5, <2>2
  <2> QED BY <2>1, <2>2
<1>10. Erased(s, t)
  BY <1>6, <1>7, <1>8, <1>9 DEF Erased
<1> QED BY <1>10 DEF t

(* So does a backspace, but in the corner, where nothing is erased.         *)
LEMMA BackspaceErases ==
  ASSUME NEW s \in Screens, Ahead(s)
  PROVE  \/ Erased(s, key_backspace(s))
         \/ Pos(s) = 0 /\ Pos(key_backspace(s)) = 1 /\ s.cell[0] = NUL
            /\ \A i \in Cells : key_backspace(s).cell[i] = s.cell[i]
<1>1. /\ s.x \in 0..NumCols /\ s.y \in 0..(NumRows - 1) /\ NumCols \in Nat /\ NumCols > 1
      /\ Pos(s) = NumCols * s.y + s.x /\ NumCols * s.y \in Nat /\ s.cell \in [Cells -> Kinds]
  BY Fields, Rows DEF Pos
<1>2. CASE s.x > 0
  <2>1. s.x - 1 \in 0..(NumCols - 1) /\ Pos(s) = NumCols * s.y + (s.x - 1) + 1
    BY <1>1, <1>2
  <2> QED BY <1>1, <1>2, <2>1, ErasingErases DEF key_backspace
<1>3. CASE ~(s.x > 0) /\ s.y > 0
  <2>1. /\ s.y - 1 \in 0..(NumRows - 1) /\ NumCols - 1 \in 0..(NumCols - 1)
        /\ Pos(s) = NumCols * (s.y - 1) + (NumCols - 1) + 1
    BY <1>1, <1>3, Rows, ConsoleAssumption
  <2> QED BY <1>3, <2>1, ErasingErases DEF key_backspace
<1>4. CASE ~(s.x > 0) /\ ~(s.y > 0)
  <2> DEFINE f == Filled(s.cell, {Pos(s)}, NUL)
             t == [cell |-> f, x |-> 1, y |-> 0, hw |-> NumCols * 0 + 1]
             u == [t EXCEPT !.hw = 0]
  <2>1. s.x = 0 /\ s.y = 0 /\ Pos(s) = 0 /\ Column(0, 1) = 1 /\ NUL \in Kinds /\ 0 \in Cells
    BY <1>1, <1>4, PlaceInside DEF Column, Kinds
  <2>2. key_backspace(s) = u
    BY <2>1 DEF key_backspace, putc, Drawn
  <2>3. u.cell = f /\ u.x = 1 /\ u.y = 0
    OBVIOUS
  <2> HIDE DEF u
  <2>4. Pos(u) = 1
    BY <1>1, <2>3 DEF Pos
  <2>5. 0 \notin RowStarts
    <3> SUFFICES ASSUME NEW r \in 1..NumRows, 0 = NumCols * r PROVE FALSE
      BY DEF RowStarts
    <3>1. r \in Nat /\ r > 0
      BY ConsoleAssumption
    <3> QED BY <1>1, <3>1
  <2>6. s.cell[0] = NUL
    BY <2>1, <2>5 DEF Ahead, Free
  <2>7. \A i \in Cells : f[i] = s.cell[i]
    BY <1>1, <2>1, <2>6, Filling
  <2> QED BY <2>1, <2>2, <2>3, <2>4, <2>6, <2>7
<1> QED BY <1>2, <1>3, <1>4

-----------------------------------------------------------------------------
(* The line that is being typed                                            *)

\* The buffer holds what was typed, as far as there was room.
BufOK ==
  /\ kb_buf \in Seq({Letter, Space}) /\ kb_buf_num \in Nat
  /\ kb_buf_num < KB_BUFFER + TabWidth
  /\ Len(kb_buf) = IF kb_buf_num <= KB_BUFFER THEN kb_buf_num ELSE KB_BUFFER

LineInv ==
  /\ BufOK
  /\ "output" \notin since => Behind(screen, kb_buf_num)
  /\ EchoMatches

(* What did not fit in the buffer is spaces.                               *)
LEMMA Padded ==
  ASSUME NEW b \in Seq({Letter, Space}), NEW n \in Nat, Len(b) <= n,
         NEW w, w = b \o [i \in 1..(n - Len(b)) |-> Space], NEW i \in 1..n
  PROVE  /\ w[i] = IF i <= Len(b) THEN b[i] ELSE Space
         /\ w[i] # NUL
<1> DEFINE pad == [j \in 1..(n - Len(b)) |-> Space]
<1>1. Len(b) \in Nat /\ n - Len(b) \in Nat /\ DOMAIN b = 1..Len(b)
  BY LenProperties
<1>2. pad \in Seq({Letter, Space}) /\ Len(pad) = n - Len(b)
  <2>1. PICK k \in Nat : k = n - Len(b)
    BY <1>1
  <2>2. [j \in 1..k |-> Space] \in Seq({Letter, Space}) /\ Len([j \in 1..k |-> Space]) = k
    OBVIOUS
  <2> QED BY <2>1, <2>2
<1>3. \A j \in 1..(n - Len(b)) : pad[j] = Space
  OBVIOUS
<1>4. w = b \o pad
  OBVIOUS
<1> HIDE DEF pad
<1>5. i \in 1..(Len(b) + Len(pad))
  BY <1>1, <1>2
<1>6. w[i] = IF i <= Len(b) THEN b[i] ELSE pad[i - Len(b)]
  <2>1. b \in Seq({Letter, Space}) /\ pad \in Seq({Letter, Space})
    BY <1>2
  <2>2. \A j \in 1..(Len(b) + Len(pad)) :
          (b \o pad)[j] = IF j <= Len(b) THEN b[j] ELSE pad[j - Len(b)]
    BY ONLY <2>1, ConcatProperties
  <2> QED BY <1>4, <1>5, <2>2
<1>7. w[i] = IF i <= Len(b) THEN b[i] ELSE Space
  <2>1. i > Len(b) => i - Len(b) \in 1..(n - Len(b))
    BY <1>1
  <2> QED BY <1>1, <1>3, <1>6, <2>1
<1>8. i <= Len(b) => b[i] \in {Letter, Space}
  BY <1>1
<1> QED BY <1>7, <1>8 DEF Letter, Space, NUL

(* The line, as it is typed.                                               *)
LEMMA TypedIs ==
  ASSUME BufOK
  PROVE  \A i \in 1..kb_buf_num :
           /\ Typed[i] = IF i <= KB_BUFFER THEN kb_buf[i] ELSE Space
           /\ Typed[i] # NUL
<1> SUFFICES ASSUME NEW i \in 1..kb_buf_num
             PROVE  Typed[i] = (IF i <= KB_BUFFER THEN kb_buf[i] ELSE Space) /\ Typed[i] # NUL
  OBVIOUS
<1>1. /\ kb_buf \in Seq({Letter, Space}) /\ kb_buf_num \in Nat /\ Len(kb_buf) <= kb_buf_num
      /\ i <= Len(kb_buf) <=> i <= KB_BUFFER
  BY ConsoleAssumption DEF BufOK
<1> DEFINE w == Typed
<1>2. w = kb_buf \o [j \in 1..(kb_buf_num - Len(kb_buf)) |-> Space]
  BY DEF Typed
<1> HIDE DEF w
<1>3. w[i] = (IF i <= Len(kb_buf) THEN kb_buf[i] ELSE Space) /\ w[i] # NUL
  BY <1>1, <1>2, Padded
<1> QED BY <1>1, <1>3 DEF w

(* The same in the next state.                                             *)
LEMMA TypedIsNext ==
  (BufOK => \A i \in 1..kb_buf_num :
              /\ Typed[i] = IF i <= KB_BUFFER THEN kb_buf[i] ELSE Space
              /\ Typed[i] # NUL)'
<1>1. BufOK => \A i \in 1..kb_buf_num :
                 /\ Typed[i] = IF i <= KB_BUFFER THEN kb_buf[i] ELSE Space
                 /\ Typed[i] # NUL
  BY TypedIs
<1> QED BY <1>1, PTL

(* Typing makes the line longer, also beyond what the buffer holds.        *)
LEMMA Adding ==
  ASSUME BufOK, HasRoom, NEW c \in {Letter, Space}, NEW n \in 1..TabWidth, n = 1 \/ c = Space,
         kb_buf_add(c, n)
  PROVE  /\ BufOK'
         /\ kb_buf_num' = kb_buf_num + n
         /\ \A i \in 1..kb_buf_num : Typed'[i] = Typed[i]
         /\ \A i \in 1..(kb_buf_num + n) : i > kb_buf_num => Typed'[i] = c
<1> DEFINE m == IF kb_buf_num + n <= KB_BUFFER THEN kb_buf_num + n ELSE KB_BUFFER
           new == [i \in 1..n |-> c]
           w == kb_buf \o new
<1>1. /\ kb_buf \in Seq({Letter, Space}) /\ kb_buf_num \in Nat /\ n \in Nat
      /\ Len(kb_buf) = kb_buf_num /\ kb_buf_num < KB_BUFFER /\ KB_BUFFER \in Nat
      /\ TabWidth \in Nat /\ n <= TabWidth
  BY ConsoleAssumption DEF BufOK, HasRoom
<1>2. kb_buf' = SubSeq(w, 1, m) /\ kb_buf_num' = kb_buf_num + n
  BY DEF kb_buf_add
<1>3. new \in Seq({Letter, Space}) /\ Len(new) = n /\ \A i \in 1..n : new[i] = c
  <2>1. new \in [1..n -> {Letter, Space}] /\ \A i \in 1..n : new[i] = c
    OBVIOUS
  <2> HIDE DEF new
  <2> QED BY <1>1, <2>1
<1> HIDE DEF new
<1>4. /\ w \in Seq({Letter, Space}) /\ Len(w) = kb_buf_num + n
      /\ \A i \in 1..(kb_buf_num + n) :
           w[i] = IF i <= kb_buf_num THEN kb_buf[i] ELSE new[i - kb_buf_num]
  BY <1>1, <1>3, ConcatProperties
<1>5. \A i \in 1..(kb_buf_num + n) : w[i] = IF i <= kb_buf_num THEN kb_buf[i] ELSE c
  <2>1. \A i \in 1..(kb_buf_num + n) : i > kb_buf_num => i - kb_buf_num \in 1..n
    BY <1>1
  <2> QED BY <1>1, <1>3, <1>4, <2>1
<1> HIDE DEF w
<1>6. m \in Nat /\ m <= kb_buf_num + n /\ kb_buf_num < m /\ m <= KB_BUFFER
  BY <1>1
<1> HIDE DEF m
<1>7. /\ kb_buf' \in Seq({Letter, Space}) /\ Len(kb_buf') = m
      /\ \A i \in 1..m : kb_buf'[i] = w[i]
  <2>1. 1 \in 1..(Len(w) + 1) /\ m \in 0..Len(w)
    BY <1>1, <1>4, <1>6
  <2>2. /\ SubSeq(w, 1, m) \in Seq({Letter, Space})
        /\ Len(SubSeq(w, 1, m)) = IF 1 <= m THEN m - 1 + 1 ELSE 0
        /\ \A i \in 1..(m - 1 + 1) : SubSeq(w, 1, m)[i] = w[1 + i - 1]
    BY <1>4, <2>1, SubSeqProperties
  <2>3. m - 1 + 1 = m /\ \A i \in 1..m : 1 + i - 1 = i
    BY <1>6
  <2> QED BY <1>1, <1>2, <1>6, <2>2, <2>3
<1>8. BufOK'
  BY <1>1, <1>2, <1>6, <1>7 DEF BufOK, m
<1>9. ASSUME NEW i \in 1..(kb_buf_num + n)
      PROVE  Typed'[i] = IF i <= kb_buf_num THEN kb_buf[i] ELSE c
  <2>1. Typed'[i] = IF i <= KB_BUFFER THEN kb_buf'[i] ELSE Space
    BY <1>2, <1>8, TypedIsNext
  <2>2. CASE i <= m
    <3>1. i \in 1..m /\ i <= KB_BUFFER
      BY <1>1, <1>6, <2>2
    <3> QED BY <1>5, <1>7, <2>1, <3>1
  <2>3. CASE ~(i <= m)
    <3>1. i > KB_BUFFER /\ n # 1 /\ ~(i <= kb_buf_num)
      BY <1>1, <1>6, <2>3 DEF m
    <3> QED BY <1>1, <2>1, <3>1
  <2> QED BY <2>2, <2>3
<1>10. ASSUME NEW i \in 1..kb_buf_num PROVE Typed[i] = kb_buf[i]
  BY <1>1, TypedIs
<1>11. \A i \in 1..kb_buf_num : i \in 1..(kb_buf_num + n) /\ i <= kb_buf_num
  BY <1>1
<1>12. \A i \in 1..(kb_buf_num + n) : i > kb_buf_num => ~(i <= kb_buf_num)
  BY <1>1
<1> QED BY <1>2, <1>8, <1>9, <1>10, <1>11, <1>12

(* A backspace makes the line shorter by its last character.               *)
LEMMA Removing ==
  ASSUME BufOK, KeyBackspace
  PROVE  /\ BufOK'
         /\ kb_buf_num > 0 /\ kb_buf_num' = kb_buf_num - 1
         /\ \A i \in 1..(kb_buf_num - 1) : Typed'[i] = Typed[i]
<1>1. /\ kb_buf \in Seq({Letter, Space}) /\ kb_buf_num \in Nat /\ kb_buf_num > 0
      /\ kb_buf_num < KB_BUFFER + TabWidth /\ KB_BUFFER \in Nat /\ TabWidth \in Nat
      /\ kb_buf_num' = kb_buf_num - 1
  BY ConsoleAssumption DEF BufOK, KeyBackspace
<1>2. /\ kb_buf' \in Seq({Letter, Space})
      /\ Len(kb_buf') = IF kb_buf_num' <= KB_BUFFER THEN kb_buf_num' ELSE KB_BUFFER
      /\ \A i \in 1..Len(kb_buf') : kb_buf'[i] = kb_buf[i]
  <2>1. CASE kb_buf_num <= KB_BUFFER
    <3> DEFINE l == Len(kb_buf)
    <3>1. kb_buf' = SubSeq(kb_buf, 1, l - 1)
      BY <2>1 DEF KeyBackspace, Front
    <3>2. l = kb_buf_num
      BY <2>1 DEF BufOK
    <3> HIDE DEF l
    <3>3. 1 \in 1..(Len(kb_buf) + 1) /\ l - 1 \in 0..Len(kb_buf)
      BY <1>1, <3>2 DEF l
    <3>4. /\ SubSeq(kb_buf, 1, l - 1) \in Seq({Letter, Space})
          /\ Len(SubSeq(kb_buf, 1, l - 1)) = IF 1 <= l - 1 THEN (l - 1) - 1 + 1 ELSE 0
          /\ \A i \in 1..((l - 1) - 1 + 1) : SubSeq(kb_buf, 1, l - 1)[i] = kb_buf[1 + i - 1]
      BY <1>1, <3>3, SubSeqProperties
    <3>5. (l - 1) - 1 + 1 = l - 1 /\ \A i \in 1..(l - 1) : 1 + i - 1 = i
      BY <1>1, <3>2
    <3>6. Len(kb_buf') = l - 1 /\ kb_buf' \in Seq({Letter, Space})
      BY <1>1, <3>1, <3>2, <3>4, <3>5
    <3> QED BY <1>1, <2>1, <3>1, <3>2, <3>4, <3>5, <3>6
  <2>2. CASE ~(kb_buf_num <= KB_BUFFER)
    BY <1>1, <2>2 DEF KeyBackspace, BufOK
  <2> QED BY <2>1, <2>2
<1>3. BufOK'
  BY <1>1, <1>2 DEF BufOK
<1>4. ASSUME NEW i \in 1..(kb_buf_num - 1) PROVE Typed'[i] = Typed[i]
  <2>1. i \in 1..kb_buf_num /\ i \in 1..kb_buf_num'
    BY <1>1
  <2>2. i <= KB_BUFFER => i \in 1..Len(kb_buf')
    BY <1>1, <1>2
  <2> QED BY <1>2, <1>3, <2>1, <2>2, TypedIs, TypedIsNext
<1> QED BY <1>1, <1>3, <1>4

-----------------------------------------------------------------------------
(* The line is on the screen, behind what was printed                      *)

(* In the beginning there is no line.                                      *)
LEMMA InitLine == Init => LineInv
<1> SUFFICES ASSUME Init PROVE LineInv
  OBVIOUS
<1>1. kb_buf = <<>> /\ kb_buf_num = 0
  BY DEF Init
<1>2. screen \in Screens
  BY InitInv DEF Inv, SoundOrCorner
<1>3. kb_buf \in Seq({Letter, Space}) /\ Len(kb_buf) = 0
  BY <1>1
<1>4. BufOK
  BY <1>1, <1>3, ConsoleAssumption DEF BufOK
<1> QED BY <1>1, <1>2, <1>4, NoLine DEF LineInv, EchoMatches

(* A line that begins again is on every screen.                            *)
LEMMA LineBegins ==
  ASSUME screen' \in Screens, kb_buf' = <<>>, kb_buf_num' = 0
  PROVE  LineInv'
<1>1. kb_buf' \in Seq({Letter, Space}) /\ Len(kb_buf') = 0
  OBVIOUS
<1>2. BufOK'
  BY <1>1, ConsoleAssumption DEF BufOK
<1>3. Behind(screen', kb_buf_num') /\ EndsWith(screen', kb_buf_num', Typed')
  BY NoLine
<1> QED BY <1>2, <1>3 DEF LineInv, EchoMatches

(* What is printed when there is no line comes before it; when there is     *)
(* one, the history says so.                                               *)
LEMMA LineDisturbed ==
  ASSUME LineInv, screen' \in Screens, UNCHANGED <<kb_buf, kb_buf_num>>,
         kb_buf_num > 0 => "output" \in since'
  PROVE  LineInv'
<1>1. BufOK'
  BY DEF LineInv, BufOK
<1>2. CASE kb_buf_num = 0
  <2>1. Behind(screen', kb_buf_num') /\ EndsWith(screen', kb_buf_num', Typed')
    BY <1>2, NoLine
  <2> QED BY <1>1, <2>1 DEF LineInv, EchoMatches
<1>3. CASE kb_buf_num # 0
  <2>1. "output" \in since'
    BY <1>3 DEF LineInv, BufOK
  <2> QED BY <1>1, <2>1 DEF LineInv, EchoMatches
<1> QED BY <1>2, <1>3

(* Characters are typed on a screen that the line is on.                    *)
LEMMA LineTyped ==
  ASSUME BufOK, HasRoom, NEW c \in {Letter, Space}, NEW n \in 1..TabWidth, n = 1 \/ c = Space,
         kb_buf_add(c, n),
         NEW s \in Screens, screen' \in Screens, Extended(s, screen', n, c),
         "output" \notin since' => Behind(s, kb_buf_num),
         since' = {} => EndsWith(s, kb_buf_num, Typed)
  PROVE  LineInv'
<1>1. /\ BufOK' /\ kb_buf_num' = kb_buf_num + n
      /\ \A i \in 1..kb_buf_num : Typed'[i] = Typed[i]
      /\ \A i \in 1..(kb_buf_num + n) : i > kb_buf_num => Typed'[i] = c
  BY Adding
<1>2. kb_buf_num \in Nat /\ n \in Nat
  BY ConsoleAssumption DEF BufOK
<1>3. "output" \notin since' => Behind(screen', kb_buf_num')
  BY <1>1, <1>2, ExtendedBehind
<1>4. since' = {} => EndsWith(screen', kb_buf_num', Typed')
  BY <1>1, <1>2, ExtendedEnds
<1> QED BY <1>1, <1>3, <1>4 DEF LineInv, EchoMatches

(* A letter or a space is put behind the line, on a new row if it is full.  *)
LEMMA LineChar ==
  ASSUME Inv, LineInv, screen' \in Screens, NEW c \in Chars, KeyChar(c)
  PROVE  LineInv'
<1> DEFINE s == endline(screen)
<1>1. /\ screen \in Screens /\ Ahead(screen) /\ BufOK /\ HasRoom /\ kb_buf_add(c, 1)
      /\ c \in {Letter, Space} /\ c \in Kinds /\ 1 \in 1..TabWidth /\ since' = since
      /\ screen' = putc(s, c)
  BY ConsoleAssumption
     DEF Inv, SoundOrCorner, LineInv, KeyChar, Letter, Space, Kinds
<1>2. s \in Screens /\ s.x < NumCols
  BY <1>1, Endlines DEF Sound
<1>3. Extended(s, screen', 1, c)
  BY <1>1, <1>2, PutcExtends
<1>4. kb_buf_num \in Nat /\ kb_buf_num <= NumCols * (NumRows - 1)
  <2>1. NumCols * (NumRows - 1) \in Int /\ KB_BUFFER + TabWidth <= NumCols * (NumRows - 1)
    BY Rows, ConsoleAssumption
  <2>2. kb_buf_num < KB_BUFFER /\ kb_buf_num \in Nat /\ KB_BUFFER \in Nat /\ TabWidth \in Nat
    BY <1>1, ConsoleAssumption DEF HasRoom, BufOK
  <2> HIDE DEF s
  <2> QED BY <2>1, <2>2
<1>5. /\ "output" \notin since' => Behind(s, kb_buf_num)
      /\ since' = {} => EndsWith(s, kb_buf_num, Typed)
  BY <1>1, <1>4, EndlineKeeps DEF LineInv, EchoMatches
<1> HIDE DEF s
<1> QED BY <1>1, <1>2, <1>3, <1>5, LineTyped

(* A tab is put behind the line; when it jumps to a new row, the history     *)
(* says so, unless the line is full or empty.                               *)
LEMMA LineTab ==
  ASSUME Inv, LineInv, screen' \in Screens, KeyTab
  PROVE  LineInv'
<1> DEFINE t == IF Jumps(screen) THEN key_enter(screen) ELSE screen
<1>1. /\ screen \in Screens /\ Ahead(screen) /\ BufOK /\ HasRoom /\ kb_buf_add(Space, TabWidth)
      /\ TabWidth \in 1..TabWidth /\ screen' = key_tab(screen)
  BY ConsoleAssumption DEF Inv, SoundOrCorner, LineInv, KeyTab
<1>2. t \in Screens /\ Extended(t, screen', TabWidth, Space)
  BY <1>1, TabExtends
<1>3. kb_buf_num \in Nat /\ kb_buf_num <= NumCols * (NumRows - 1)
  <2>1. NumCols * (NumRows - 1) \in Int /\ KB_BUFFER + TabWidth <= NumCols * (NumRows - 1)
    BY Rows, ConsoleAssumption
  <2>2. kb_buf_num < KB_BUFFER /\ kb_buf_num \in Nat /\ KB_BUFFER \in Nat /\ TabWidth \in Nat
    BY <1>1, ConsoleAssumption DEF HasRoom, BufOK
  <2> HIDE DEF t
  <2> QED BY <2>1, <2>2
<1>4. since \subseteq since'
  BY DEF KeyTab, Disturbed
<1>5. /\ "output" \notin since' => Behind(t, kb_buf_num)
      /\ since' = {} => EndsWith(t, kb_buf_num, Typed)
  <2>1. CASE ~Jumps(screen)
    BY <1>4, <2>1 DEF LineInv, EchoMatches
  <2>2. CASE Jumps(screen)
    <3>1. t = key_enter(screen) /\ screen.x > 0 /\ screen.x \in 0..NumCols
      BY <1>1, <2>2, Fields, ConsoleAssumption DEF Jumps
    <3>2. PICK up \in {0, NumCols} : Entered(screen, t, up)
      BY <1>1, <3>1, Entering
    <3> HIDE DEF t
    <3>3. "output" \notin since' => Behind(t, kb_buf_num)
      BY <1>1, <1>2, <1>3, <1>4, <3>1, <3>2, EnteringBehind DEF LineInv
    <3>4. CASE screen.x = NumCols
      <4>1. since' = {} => EndsWith(screen, kb_buf_num, Typed)
        BY <1>4 DEF LineInv, EchoMatches
      <4>2. since' = {} => EndsWith(t, kb_buf_num, Typed)
        BY <1>1, <1>2, <1>3, <3>2, <3>4, <4>1, EnteringEnds
      <4> QED BY <3>3, <4>2
    <3>5. CASE screen.x # NumCols /\ kb_buf_num = 0
      BY <1>2, <3>3, <3>5, NoLine
    <3>6. CASE screen.x # NumCols /\ kb_buf_num # 0
      <4>1. screen.x < NumCols
        BY <3>1, <3>6, Rows
      <4>2. since' # {}
        BY <2>2, <3>6, <4>1 DEF KeyTab, Disturbed
      <4> QED BY <3>3, <4>2
    <3> QED BY <3>4, <3>5, <3>6
  <2> QED BY <2>1, <2>2
<1> HIDE DEF t
<1>6. Space \in {Letter, Space}
  OBVIOUS
<1> QED BY <1>1, <1>2, <1>5, <1>6, LineTyped

(* A backspace takes the last character of the line from the screen.        *)
LEMMA LineErased ==
  ASSUME Inv, LineInv, screen' \in Screens, KeyBackspace
  PROVE  LineInv'
<1>1. /\ screen \in Screens /\ Ahead(screen) /\ BufOK /\ screen' = key_backspace(screen)
      /\ kb_buf_num \in Nat
      /\ since' = IF kb_buf_num = 1 THEN {} ELSE since
  BY DEF Inv, SoundOrCorner, LineInv, KeyBackspace, BufOK
<1>2. /\ BufOK' /\ kb_buf_num > 0 /\ kb_buf_num' = kb_buf_num - 1
      /\ \A i \in 1..(kb_buf_num - 1) : Typed'[i] = Typed[i]
  BY <1>1, Removing
<1>3. CASE kb_buf_num = 1
  <2>1. Behind(screen', kb_buf_num') /\ EndsWith(screen', kb_buf_num', Typed')
    BY <1>2, <1>3, NoLine
  <2> QED BY <1>2, <2>1 DEF LineInv, EchoMatches
<1>4. CASE kb_buf_num # 1 /\ Erased(screen, screen')
  <2>1. "output" \notin since' => Behind(screen', kb_buf_num')
    BY <1>1, <1>2, <1>4, ErasedBehind DEF LineInv
  <2>2. ASSUME since' = {} PROVE EndsWith(screen', kb_buf_num - 1, Typed)
    <3>1. EndsWith(screen, kb_buf_num, Typed)
      BY <1>1, <1>4, <2>2 DEF LineInv, EchoMatches
    <3>2. \A i \in 1..kb_buf_num : Typed[i] # NUL
      BY <1>1, TypedIs
    <3> QED BY <1>1, <1>2, <1>4, <3>1, <3>2, ErasedEnds
  <2>3. since' = {} => EndsWith(screen', kb_buf_num', Typed')
    BY <1>2, <2>2 DEF EndsWith
  <2> QED BY <1>2, <2>1, <2>3 DEF LineInv, EchoMatches
<1>5. CASE /\ kb_buf_num # 1
           /\ Pos(screen) = 0 /\ Pos(screen') = 1 /\ screen.cell[0] = NUL
           /\ \A i \in Cells : screen'.cell[i] = screen.cell[i]
  <2>1. since' # {}
    <3>1. ~EndsWith(screen, kb_buf_num, Typed)
      BY <1>2, <1>5, <1>1 DEF EndsWith
    <3> QED BY <1>1, <1>5, <3>1 DEF LineInv, EchoMatches
  <2>2. Behind(screen', kb_buf_num')
    <3> SUFFICES ASSUME NEW i \in Cells, i < 1 PROVE screen'.cell[i] \notin Untyped
      BY <1>5 DEF Behind
    <3>1. i = 0
      BY Rows DEF Cells
    <3> QED BY <1>5, <3>1 DEF Untyped, NUL, Printed, Message
  <2> QED BY <1>2, <2>1, <2>2 DEF LineInv, EchoMatches
<1> QED BY <1>1, <1>3, <1>4, <1>5, BackspaceErases

(* Ctrl+L clears the screen: nothing printed is left before the place, and  *)
(* the history says that a line that was there is gone.                    *)
LEMMA LineCleared ==
  ASSUME Inv, LineInv, screen' \in Screens, KeyClear
  PROVE  LineInv'
<1>1. BufOK' /\ kb_buf_num' = kb_buf_num /\ kb_buf_num \in Nat
  BY DEF LineInv, BufOK, KeyClear, keyVars
<1>2. Pos(screen') = 0
  BY Rows, ConsoleAssumption DEF KeyClear, Drawn, Pos
<1>3. Behind(screen', kb_buf_num')
  BY <1>2, Rows DEF Behind, Cells
<1>4. since' = {} => EndsWith(screen', kb_buf_num', Typed')
  <2>1. CASE kb_buf_num = 0
    BY <1>1, <2>1, NoLine
  <2>2. CASE kb_buf_num # 0
    BY <2>2 DEF KeyClear, Disturbed
  <2> QED BY <2>1, <2>2
<1> QED BY <1>1, <1>3, <1>4 DEF LineInv, EchoMatches

(* Every step keeps it.                                                    *)
LEMMA NextLine == Inv /\ LineInv /\ [Next]_vars => LineInv'
<1> SUFFICES ASSUME Inv, LineInv, [Next]_vars PROVE LineInv'
  OBVIOUS
<1>1. screen' \in Screens
  BY NextInv DEF Inv, SoundOrCorner
<1>2. ASSUME UNCHANGED <<screen, kb_buf, kb_buf_num, since>> PROVE LineInv'
  BY <1>2 DEF LineInv, BufOK, EchoMatches, Typed
<1>3. ASSUME Disturbed("output"), UNCHANGED keyVars PROVE LineInv'
  <2>1. kb_buf_num > 0 => "output" \in since'
    BY <1>3 DEF Disturbed
  <2> QED BY <1>1, <1>3, <2>1, LineDisturbed DEF keyVars
<1>4. ASSUME NEW c \in Chars, KeyChar(c) PROVE LineInv'
  BY <1>1, <1>4, LineChar
<1>5. CASE KeyTab
  BY <1>1, <1>5, LineTab
<1>6. CASE KeyBackspace
  BY <1>1, <1>6, LineErased
<1>7. CASE KeyEnter
  BY <1>1, <1>7, LineBegins DEF KeyEnter
<1>8. CASE KeyClear
  BY <1>1, <1>8, LineCleared
<1>9. CASE KeyCtrlC
  BY <1>1, <1>9, LineBegins DEF KeyCtrlC
<1>10. ASSUME NEW newline \in BOOLEAN, Write(newline) PROVE LineInv'
  BY <1>3, <1>10 DEF Write
<1>11. ASSUME NEW n \in MessageLengths, NEW m \in MessageLengths, Exception(n, m) PROVE LineInv'
  BY <1>3, <1>11 DEF Exception
<1>12. CASE Refusal
  BY <1>3, <1>12 DEF Refusal
<1>13. CASE ReadStarts \/ ReadReturns
  BY <1>2, <1>13 DEF ReadStarts, ReadReturns
<1>14. CASE UNCHANGED vars
  BY <1>2, <1>14 DEF vars, keyVars
<1> QED BY <1>4, <1>5, <1>6, <1>7, <1>8, <1>9, <1>10, <1>11, <1>12, <1>13, <1>14 DEF Next

(* The buffer agrees with the count, what was printed stays behind the      *)
(* line, and the line is on the screen.                                    *)
THEOREM LineCorrect == Spec => []LineInv
<1>1. Init => Inv /\ LineInv
  BY InitInv, InitLine
<1>2. (Inv /\ LineInv) /\ [Next]_vars => (Inv /\ LineInv)'
  BY NextInv, NextLine
<1> QED BY <1>1, <1>2, PTL DEF Spec

(* The user sees the line that will be read, for rows, tabs and buffers of  *)
(* any size: only output, Ctrl+L or a jumping tab part the two.             *)
THEOREM EchoCorrect == Spec => []EchoMatches
<1>1. LineInv => EchoMatches
  BY DEF LineInv
<1> QED BY <1>1, LineCorrect, PTL

(* Backspace never erases what a program or the kernel printed before the   *)
(* line began.                                                             *)
THEOREM OutputKeptCorrect == Spec => OutputKept
<1>1. ASSUME Inv, LineInv, KeyBackspace, "output" \notin since,
             NEW i \in Cells, screen.cell[i] \in {Printed, Message}, screen' \in Screens
      PROVE  screen'.cell[i] = screen.cell[i]
  <2>1. /\ screen \in Screens /\ Ahead(screen) /\ screen' = key_backspace(screen)
        /\ kb_buf_num \in Nat /\ kb_buf_num > 0 /\ Behind(screen, kb_buf_num)
    BY <1>1 DEF Inv, SoundOrCorner, LineInv, KeyBackspace, BufOK
  <2>2. CASE Erased(screen, screen')
    BY <1>1, <2>1, <2>2, ErasedBehind DEF Untyped
  <2>3. CASE \A j \in Cells : screen'.cell[j] = screen.cell[j]
    BY <1>1, <2>3
  <2> QED BY <2>1, <2>2, <2>3, BackspaceErases
<1>2. Inv /\ LineInv /\ [Next]_vars =>
        [KeyBackspace /\ "output" \notin since =>
           \A i \in Cells : screen.cell[i] \in {Printed, Message} =>
             screen'.cell[i] = screen.cell[i]]_vars
  <2>1. Inv /\ [Next]_vars => screen' \in Screens
    BY NextInv DEF Inv, SoundOrCorner
  <2> QED BY <1>1, <2>1
<1> QED BY <1>2, InvCorrect, LineCorrect, PTL DEF Spec, OutputKept
=============================================================================
