------------------------------ MODULE MCBlink ------------------------------
(***************************************************************************)
(* The blinkers on a small screen: files that break and end their lines    *)
(* before, with and after one another, and a blinker that is added later.  *)
(***************************************************************************)
EXTENDS Blink

\* The last one ends in a row whose location comes back to place 3 of the screen.
MCTexts == {<<>>, <<"x", "n">>, <<" ", "x">>, <<"n", "x">>, <<"x", "n", " ", "x">>,
            <<"n", "n", "n", "x">>}

\* With words of two bits one length is the least negative one, which is not
\* negative after DECW, and the other is negative.
MCAdded == {[location |-> 1, on_char |-> "I", off_char |-> "M", on_length |-> 2, off_length |-> 3]}
=============================================================================
