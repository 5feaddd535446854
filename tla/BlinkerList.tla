---------------------------- MODULE BlinkerList ----------------------------
(***************************************************************************)
(* What the blinker library promises its program: a list of blinkers, the  *)
(* newest first, each of which turns over after its own number of ticks.   *)
(* There are no slots, pointers or words here.                             *)
(***************************************************************************)
EXTENDS Integers, SequencesExt

CONSTANTS Capacity,   \* how many blinkers there is room for
          Blinkers,   \* what may be added: the fields a program fills in
          Lasts(_)    \* the ticks for which a length given by a program lasts

VARIABLE blinkers     \* the list; left is the number of ticks until a blinker turns over

Init == blinkers = <<>>

New(b) == [location |-> b.location, on_char |-> b.on_char, off_char |-> b.off_char,
           on |-> TRUE, lasts |-> <<Lasts(b.on_length), Lasts(b.off_length)>>,
           left |-> Lasts(b.on_length)]

\* The positions of the newest blinker of each place.
Newest(bs) == {i \in DOMAIN bs : \A j \in 1..(i - 1) : bs[j].location # bs[i].location}

WithOneMore(bs) == IF Len(bs) < Capacity THEN {<<New(b)>> \o bs : b \in Blinkers} ELSE {}

Add == blinkers' \in WithOneMore(blinkers)

WithoutOne(bs) == {RemoveAt(bs, i) : i \in Newest(bs)}

\* The newest blinker of a place goes.
Drop == blinkers' \in WithoutOne(blinkers)

InRhythm(b, first) ==
  [b EXCEPT !.on = first.on, !.left = first.left, !.lasts = first.lasts]

WithOneInRhythm(bs) ==
  {[bs EXCEPT ![j] = InRhythm(bs[j], bs[i])] : i \in Newest(bs), j \in Newest(bs)}

\* The newest blinker of one place takes over the rhythm of that of another.
Follow == blinkers' \in WithOneInRhythm(blinkers)

Ticked(b) ==
  IF b.left > 1 THEN [b EXCEPT !.left = @ - 1]
  ELSE [b EXCEPT !.on = ~@, !.left = IF b.on THEN b.lasts[2] ELSE b.lasts[1]]

TickedAll(bs) == [i \in DOMAIN bs |-> Ticked(bs[i])]

\* A tick reaches every blinker once.
Tick == blinkers' = TickedAll(blinkers)

Next == Tick \/ Follow \/ Drop \/ Add

Spec == Init /\ [][Next]_blinkers
=============================================================================
