------------------------------- MODULE Blink -------------------------------
(***************************************************************************)
(* The blinking characters of the fish program: the assembly of blink.S    *)
(* and the memory allocator and the text overlay of fish.c.                *)
(*                                                                         *)
(* A blinker lives in a slot of a static array, which the library links    *)
(* into a list, and is drawn at a place of the screen.  The program first  *)
(* lays two text files over each other (add_frames(), a step per pair of   *)
(* bytes) and then calls the library: any call at any time, of which the   *)
(* sequence in main() is one.                                              *)
(***************************************************************************)
EXTENDS Integers, Functions, SequencesExt

CONSTANTS
  NumSlots,      \* elements of blink_array; 80*25 in the code
  NumPlaces,     \* places on the screen; 80*25 in the code
  Columns,       \* places in a row; 80 in the code
  Offset,        \* the column of the screen where the text begins; 40 in the code
  FrameLength,   \* on_length and off_length in add_frames(); 15 in the code
  Word,          \* countdowns are taken modulo Word; 2^16 in the code
  LocationWord,  \* and locations modulo LocationWord; 2^16 in the code too
  Chars,         \* characters
  Space, NL,     \* a blank and the end of a line
  Texts,         \* the contents the two files may have
  Added,         \* bound: the blinkers that are added once the texts are on the screen
  Asked          \* bound: the places for which remove and sync are called

Visible(char) == char \notin {Space, NL}

\* Where row r and column k of the text are on the screen.
Location(r, k) == r * Columns + k + Offset

\* The ends of line before position i of a text, and the row and the column of
\* what is there.
Breaks(t, i) == {j \in 1..(i - 1) : t[j] = NL}
RowOf(t, i) == Cardinality(Breaks(t, i))
LastBreak(t, i) == Max({0} \cup Breaks(t, i))
ColOf(t, i) == i - 1 - LastBreak(t, i)

\* The assumption on the texts: no character has location 0 as a word, which would
\* mark its slot as free while it is linked.  In the code the first text of which
\* one has, with lines that fit the screen, has more than 2400 rows; fish opens
\* two files of the image, which have at most 25.
ASSUME BlinkAssumption ==
  /\ NumSlots \in Nat \ {0} /\ NumPlaces \in Nat \ {0}
  /\ Columns \in Nat \ {0} /\ Offset \in 1..(Columns - 1)
  /\ Word \in Nat /\ Word % 2 = 0 /\ FrameLength \in 0..(Word - 1)
  /\ LocationWord \in Nat \ {0} /\ NumPlaces <= LocationWord
  /\ Space \in Chars /\ NL \in Chars \ {Space, "0"} /\ Texts \subseteq Seq(Chars)
  /\ Added \subseteq [location : 1..(NumPlaces - 1), on_char : Chars, off_char : Chars,
                     on_length : 0..(Word - 1), off_length : 0..(Word - 1)]
  /\ \A t \in Texts : \A i \in DOMAIN t :
       Visible(t[i]) => Location(RowOf(t, i), ColOf(t, i)) % LocationWord # 0

VARIABLES
  blink_array,     \* the slots; location 0 marks a free one
  mp1_list_head,   \* the slot of the newest blinker, or NULL
  screen,          \* the character at each place
  drawn,           \* history: the slot whose character was drawn last at each
                   \* place, if it was not drawn by a sync
  pc,              \* "frames" while add_frames() runs, then "overlaid", then "main"
  text, pos,       \* the two files, and how much of each has been read
  c, eof,          \* the last bytes read, and which files have ended
  row, col

libVars == <<blink_array, mp1_list_head, screen, drawn>>
frameVars == <<pc, text, pos, c, eof, row, col>>
vars == <<libVars, frameVars>>

NULL == 0
NUL == "\\0"
Slots == 1..NumSlots
Places == 0..(NumPlaces - 1)
Both == {0, 1}

\* What memset() leaves.
Free == [location |-> 0, on_char |-> NUL, off_char |-> NUL, on_length |-> 0,
         off_length |-> 0, countdown |-> 0, status |-> 0, next |-> NULL]

-----------------------------------------------------------------------------
(* The allocator                                                           *)

\* Mutant: a blinker that is off passes for a free slot.
FreeWhenOff(p) == blink_array[p].status = 0

IsFree(p) == blink_array[p].location = 0

\* The first free slot, or NULL.
mp1_malloc == LET free == {p \in Slots : IsFree(p)}
              IN  IF free = {} THEN NULL ELSE Min(free)

-----------------------------------------------------------------------------
(* The list                                                                *)

\* Every slot is in a list once at most.
Lists == UNION {Injection(1..n, Slots) : n \in 0..NumSlots}

\* One finds the slots of l, and no others, from head on.
IsList(array, head, l) ==
  /\ head = IF l = <<>> THEN NULL ELSE l[1]
  /\ \A i \in DOMAIN l : array[l[i]].next = IF i = Len(l) THEN NULL ELSE l[i + 1]

\* The slots from the head on.
List == CHOOSE l \in Lists : IsList(blink_array, mp1_list_head, l)

\* Where in the list the blinkers of a place are.
At(list, l) == {i \in DOMAIN list : blink_array[list[i]].location = l}

\* Mutant: the search goes on and finds the oldest.
FindOldest(l) == LET list == List
                 IN  IF At(list, l) = {} THEN NULL ELSE list[Max(At(list, l))]

\* The newest blinker of a place, or NULL.
mp1_find_helper(l) == LET list == List
                      IN  IF At(list, l) = {} THEN NULL ELSE list[Min(At(list, l))]

\* The blinker in slot p is drawn, as its status says when by is p.
mp1_poke(p, char, by) ==
  /\ screen' = [screen EXCEPT ![blink_array'[p].location] = char]
  /\ drawn' = [drawn EXCEPT ![blink_array'[p].location] = by]

\* The blinker b in its slot, before that which is next.
Linked(b, next) ==
  [location |-> b.location, on_char |-> b.on_char, off_char |-> b.off_char,
   on_length |-> b.on_length, off_length |-> b.off_length,
   countdown |-> b.on_length, status |-> 1, next |-> next]

\* The blinker gets a slot and becomes the head of the list, unless its place
\* does not exist or no slot is free.
mp1_ioctl_add(b) ==
  IF b.location >= NumPlaces \/ mp1_malloc = NULL THEN UNCHANGED libVars
  ELSE /\ blink_array' = [blink_array EXCEPT ![mp1_malloc] = Linked(b, mp1_list_head)]
       /\ mp1_list_head' = mp1_malloc
       /\ mp1_poke(mp1_malloc, b.on_char, mp1_malloc)

\* The pointer to slot p, the head or the next of another slot, skips it; p is
\* freed.  What it drew stays on the screen.
mp1_ioctl_remove(l) ==
  LET p == mp1_find_helper(l)
  IN  IF p = NULL THEN UNCHANGED libVars
      ELSE LET after == blink_array[p].next
           IN  /\ mp1_list_head' = IF p = mp1_list_head THEN after ELSE mp1_list_head
               /\ blink_array' = [q \in Slots |->
                    IF q = p THEN Free
                    ELSE IF blink_array[q].next = p THEN [blink_array[q] EXCEPT !.next = after]
                    ELSE blink_array[q]]
               /\ UNCHANGED <<screen, drawn>>

\* The blinker at l2 gets the lengths, the countdown and the status of the one
\* at l1.  Its off_char is drawn whatever the status is: TESTB never sets the
\* flags that the CMOVL after it looks at.
mp1_ioctl_sync(l1, l2) ==
  LET first == mp1_find_helper(l1)
      second == mp1_find_helper(l2)
      b == blink_array[first]
  IN  IF first = NULL \/ second = NULL THEN UNCHANGED libVars
      ELSE /\ blink_array' = [blink_array EXCEPT ![second] =
                [@ EXCEPT !.on_length = b.on_length, !.off_length = b.off_length,
                          !.countdown = b.countdown, !.status = b.status]]
           /\ mp1_poke(second, blink_array[second].off_char, NULL)
           /\ UNCHANGED mp1_list_head

-----------------------------------------------------------------------------
(* The tick                                                                *)

Decremented(n) == (n - 1) % Word

\* JG compares as signed words.
IsPositive(n) == n \in 1..((Word \div 2) - 1)

TurnsOver(b) == ~IsPositive(Decremented(b.countdown))

\* Mutant: the status is cleared where it should be flipped.
TickedStaysOff(b) ==
  IF ~TurnsOver(b) THEN [b EXCEPT !.countdown = Decremented(@)]
  ELSE [b EXCEPT !.status = 0,
                 !.countdown = IF b.status = 1 THEN b.off_length ELSE b.on_length]

Ticked(b) ==
  IF ~TurnsOver(b) THEN [b EXCEPT !.countdown = Decremented(@)]
  ELSE [b EXCEPT !.status = 1 - @,
                 !.countdown = IF b.status = 1 THEN b.off_length ELSE b.on_length]

\* Every blinker is counted down, the newest first; of two that turn over at
\* one place the character of the older one stays.
mp1_rtc_tasklet ==
  LET list == List
      turning(l) == {i \in At(list, l) : TurnsOver(blink_array[list[i]])}
      last(l) == list[Max(turning(l))]
      b(l) == blink_array[last(l)]
  IN  /\ blink_array' = [p \in Slots |-> IF p \in ToSet(list) THEN Ticked(blink_array[p])
                                                              ELSE blink_array[p]]
      /\ screen' = [l \in Places |->
                      IF turning(l) = {} THEN screen[l]
                      ELSE IF b(l).status = 1 THEN b(l).off_char ELSE b(l).on_char]
      /\ drawn' = [l \in Places |-> IF turning(l) = {} THEN drawn[l] ELSE last(l)]
      /\ UNCHANGED mp1_list_head

-----------------------------------------------------------------------------
(* add_frames()                                                            *)

\* The next byte of file f, unless its line or the file has ended.
AtEnd(f) == pos[f] = Len(text[f])

\* Mutant: a file whose line has ended goes on with its next line.
WaitsAtEnd(f) == AtEnd(f)

\* A file whose line has ended waits for the other; one that has ended for good
\* gives empty lines.
Waits(f) == c[f] = NL \/ AtEnd(f)
NextByte(f) == IF Waits(f) THEN NL ELSE text[f][pos[f] + 1]
Ends(f) == eof[f] \/ (c[f] # NL /\ AtEnd(f))

Shown(char) == IF char = NL THEN Space ELSE char

\* The location is stored in an unsigned short.
FrameBlinker(char0, char1, r, k) ==
  [location |-> Location(r, k) % LocationWord, on_char |-> Shown(char0), off_char |-> Shown(char1),
   on_length |-> FrameLength, off_length |-> FrameLength]

\* One pass of the inner loop; at the end of both lines, of the outer one too.
\* The initial '0' of c is neither a blank nor an end.
FrameByte ==
  LET byte == [f \in Both |-> NextByte(f)]
      ended == [f \in Both |-> Ends(f)]
  IN  /\ pc = "frames"
      /\ pos' = [f \in Both |-> IF Waits(f) THEN pos[f] ELSE pos[f] + 1]
      /\ eof' = ended /\ UNCHANGED text
      /\ IF byte[0] = NL /\ byte[1] = NL
         THEN /\ c' = [f \in Both |-> IF ended[f] THEN NL ELSE "0"]
              /\ row' = row + 1 /\ col' = 0
              /\ pc' = IF ended[0] /\ ended[1] THEN "overlaid" ELSE "frames"
              /\ UNCHANGED libVars
         ELSE /\ c' = byte /\ col' = col + 1 /\ UNCHANGED <<row, pc>>
              /\ IF Visible(byte[0]) \/ Visible(byte[1])
                 THEN mp1_ioctl_add(FrameBlinker(byte[0], byte[1], row, col))
                 ELSE UNCHANGED libVars

\* The files are closed and the frame of add_frames() is popped.
FramesReturn ==
  /\ pc = "overlaid" /\ pc' = "main"
  /\ text' = [f \in Both |-> <<>>] /\ pos' = [f \in Both |-> 0] /\ c' = [f \in Both |-> "0"]
  /\ eof' = [f \in Both |-> FALSE] /\ row' = 0 /\ col' = 0
  /\ UNCHANGED libVars

-----------------------------------------------------------------------------
Init ==
  /\ blink_array = [p \in Slots |-> Free] /\ mp1_list_head = NULL
  /\ screen = [l \in Places |-> Space] /\ drawn = [l \in Places |-> NULL]
  /\ pc = "frames" /\ text \in [Both -> Texts] /\ pos = [f \in Both |-> 0]
  /\ c = [f \in Both |-> "0"] /\ eof = [f \in Both |-> FALSE]
  /\ row = 0 /\ col = 0

AddCall == pc = "main" /\ (\E b \in Added : mp1_ioctl_add(b)) /\ UNCHANGED frameVars
RemoveCall == pc = "main" /\ (\E l \in Asked : mp1_ioctl_remove(l)) /\ UNCHANGED frameVars
SyncCall == pc = "main" /\ (\E l1, l2 \in Asked : mp1_ioctl_sync(l1, l2)) /\ UNCHANGED frameVars
RtcRead == pc = "main" /\ mp1_rtc_tasklet /\ UNCHANGED frameVars

Next == FrameByte \/ FramesReturn \/ AddCall \/ RemoveCall \/ SyncCall \/ RtcRead

Spec == Init /\ [][Next]_vars

-----------------------------------------------------------------------------
(* Properties                                                              *)

\* The list holds the slots in use, each once, and ends: no slot is handed out
\* while it is linked, none that was freed is still linked, none is lost.
ListHoldsUsed ==
  \E l \in Lists :
    /\ IsList(blink_array, mp1_list_head, l)
    /\ ToSet(l) = {p \in Slots : ~IsFree(p)}

\* The character in row r and column k of a text, a blank outside its lines.
CharAt(t, r, k) ==
  LET at == {i \in DOMAIN t : t[i] # NL /\ RowOf(t, i) = r /\ ColOf(t, i) = k}
  IN  IF at = {} THEN Space ELSE t[CHOOSE i \in at : TRUE]

\* The two texts laid over each other, where either has something to show and
\* the screen has a place for it.
Overlay ==
  LET width == Columns - Offset
      cell(r, k) == <<Location(r, k), CharAt(text[0], r, k), CharAt(text[1], r, k)>>
  IN  {x \in {cell(r, k) : r \in 0..(NumPlaces \div Columns), k \in 0..(width - 1)} :
         x[1] < NumPlaces /\ (x[2] # Space \/ x[3] # Space)}

\* No line of a text is longer than the screen is wide where the text begins.
LinesFit(t) == \A i, j \in DOMAIN t : j - i >= Columns - Offset => \E n \in i..j : t[n] = NL

\* Every character of a text has a location that fits the word; rows may go on
\* below the screen, to row 818 in the code.
RowsFit(t) == \A i \in DOMAIN t : Visible(t[i]) => Location(RowOf(t, i), ColOf(t, i)) < LocationWord

\* Once both files have been read, whichever ended or broke its lines first, the
\* blinkers are the overlay of the two texts: if there is a slot for each of its
\* places, the lines fit the screen, and the locations fit the word.
FramesAgree ==
  /\ pc = "overlaid"
  /\ Cardinality(Overlay) <= NumSlots
  /\ \A f \in Both : LinesFit(text[f]) /\ RowsFit(text[f])
  => /\ Len(List) = Cardinality(Overlay)
     /\ Overlay = {<<blink_array[p].location, blink_array[p].on_char, blink_array[p].off_char>> :
                     p \in ToSet(List)}

\* A character drawn for a blinker that is still there is the one its status
\* says, until a sync draws it: slots that are freed and used again, and
\* several blinkers at a place, do not change that.
DrawnAsMarked ==
  \A l \in Places : LET p == drawn[l] IN
    p # NULL /\ blink_array[p].location = l =>
      screen[l] = IF blink_array[p].status = 1 THEN blink_array[p].on_char
                                               ELSE blink_array[p].off_char

-----------------------------------------------------------------------------
(* The refinement mapping by which linked slots implement BlinkerList      *)

\* The ticks for which a length lasts: those which are negative as words, and 0,
\* end with the first tick; the least one is not negative after DECW.
Lasts(n) == IF n \in 1..(Word \div 2) THEN n ELSE 1

Calls == Added \cup [location : 1..(NumPlaces - 1), on_char : Chars \ {NL}, off_char : Chars \ {NL},
                    on_length : {FrameLength}, off_length : {FrameLength}]

\* The blinker in a slot.
InSlot(b) == [location |-> b.location, on_char |-> b.on_char, off_char |-> b.off_char,
              on |-> b.status = 1, lasts |-> <<Lasts(b.on_length), Lasts(b.off_length)>>,
              left |-> Lasts(b.countdown)]

Blinkers == INSTANCE BlinkerList WITH
  Capacity <- NumSlots, Blinkers <- Calls,
  blinkers <- LET list == List IN [i \in DOMAIN list |-> InSlot(blink_array[list[i]])]

\* The slots and pointers behave as a list, newest first, in which every blinker
\* is counted down once by each tick and turns over after its own length.
ImplementsBlinkers == Blinkers!Spec
=============================================================================
