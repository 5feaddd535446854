------------------------ MODULE TerminalInputProofs ------------------------
(***************************************************************************)
(* The types of the keyboard's state, the bound on the character count and *)
(* the read flag; and, for a patient user, that terminal_read() implements *)
(* the lines of LineDiscipline, statement by statement, between any timer  *)
(* interrupts.  For line buffers, tabs and alphabets of any size.          *)
(***************************************************************************)
EXTENDS TerminalInput, SequenceTheorems, WellFoundedInduction, TLAPS

\* The terminals that are shown, asked for and run are terminals in use.
UsedOnly == /\ terminal_curr \in Used /\ terminal_on_display_curr \in Used
            /\ terminal_on_display_next \in Used

PCs == {"user", "reset_full", "set_flag", "test_enter", "test_shown",
        "clear_flag", "copy", "clear_buf", "take_enter"}

Lined == \A t \in Used : user_buf[t] = NoLine \/ \A i \in DOMAIN user_buf[t] : user_buf[t][i] \in Chars

Buffers == [1..KB_BUFFER -> Chars \cup {Nul}]

\* The flags, but for those of other terminals, are what the statement says.
Flagged(t) ==
  /\ pc[t] \in {"test_enter", "test_shown"} => t \in terminal_read_flag
  /\ pc[t] \in {"copy", "clear_buf", "take_enter"} => t \notin terminal_read_flag

Inv == /\ TypeOK /\ UsedOnly /\ TypingFollowsRead
       /\ DOMAIN user_buf = Used

(* The natural numbers are well ordered.                                  *)
LEMMA LeastNat ==
  ASSUME NEW S, S \subseteq Nat, S # {}
  PROVE  \E k \in S : \A j \in S : k <= j
<1> DEFINE R == OpToRel(<, Nat)
<1>1. PICK k \in S : \A j \in S : ~ (<<j, k>> \in R)
  BY NatLessThanWellFounded, WFMin
<1>2. \A j \in S : ~ (j < k)
  BY <1>1 DEF OpToRel
<1> QED BY <1>2

(* A string has an end: the first empty place, or that of the buffer.      *)
LEMMA Texts ==
  ASSUME NEW b \in Buffers
  PROVE  \A i \in DOMAIN Text(b) : Text(b)[i] \in Chars
<1> DEFINE ends == {n \in 0..KB_BUFFER : n = KB_BUFFER \/ b[n + 1] = Nul}
           IsEnd(n) == (\A i \in 1..n : b[i] # Nul) /\ (n = KB_BUFFER \/ b[n + 1] = Nul)
           end == CHOOSE n \in 0..KB_BUFFER : IsEnd(n)
<1>1. KB_BUFFER \in Nat
  BY InputAssumption
<1>2. PICK n \in ends : \A m \in ends : n <= m
  <2>1. ends \subseteq Nat /\ KB_BUFFER \in ends
    BY <1>1
  <2> HIDE DEF ends
  <2> QED BY <2>1, LeastNat
<1>3. IsEnd(n)
  <2> SUFFICES ASSUME NEW i \in 1..n, b[i] = Nul PROVE FALSE
    OBVIOUS
  <2>1. i - 1 \in 0..KB_BUFFER /\ (i - 1) + 1 = i /\ i - 1 < n
    BY <1>1
  <2>2. i - 1 \in ends
    BY <2>1
  <2> HIDE DEF ends
  <2>3. n <= i - 1
    BY <1>2, <2>2
  <2>4. i \in Int /\ n \in Int
    <3>1. n \in 0..KB_BUFFER
      BY DEF ends
    <3> QED BY <1>1, <3>1
  <2> QED BY ONLY <2>1, <2>3, <2>4
<1>4. end \in 0..KB_BUFFER /\ IsEnd(end)
  BY <1>3
<1>5. \A i \in 1..end : b[i] \in Chars
  BY <1>1, <1>4 DEF Buffers
<1>6. Text(b) = SubSeq(b, 1, end)
  BY DEF Text
<1>7. Text(b) = [i \in 1..end |-> b[i]]
  <2> HIDE DEF end
  <2> QED BY <1>6, <1>4, <1>1 DEF Buffers
<1> HIDE DEF end
<1> QED BY <1>5, <1>7

(* It holds when the first program starts, and every step keeps it.       *)
LEMMA InitInv == Init => Inv
<1> SUFFICES ASSUME Init PROVE Inv
  OBVIOUS
<1> USE InputAssumption DEF Init
<1>1. SwitchTypeOK /\ UsedOnly
  BY DEF SwitchInit, SwitchTypeOK, UsedOnly, Terminals
<1>2. kb_buf \in [Used -> Buffers] /\ kb_buf_num \in [Used -> 0..(KB_BUFFER + TabWidth - 1)]
  BY DEF Empty, Buffers
<1>3. /\ pc \in [Used -> PCs] /\ DOMAIN user_buf = Used
      /\ \A t \in Used : user_buf[t] = NoLine /\ pc[t] = "user"
  BY DEF PCs
<1>4. TypeOK
  BY <1>1, <1>2, <1>3 DEF TypeOK, Buffers, PCs
<1> QED BY <1>1, <1>3, <1>4 DEF Inv, TypingFollowsRead

(* What is echoed and removed.                                             *)
LEMMA Buffering ==
  ASSUME TypeOK, NEW t \in Used
  PROVE  /\ \A c \in Chars, n \in {1, TabWidth} :
              kb_buf_num[t] < KB_BUFFER /\ kb_buf_add(t, c, n)
                => /\ kb_buf' \in [Used -> Buffers]
                   /\ kb_buf_num' \in [Used -> 0..(KB_BUFFER + TabWidth - 1)]
         /\ kb_buf_num[t] > 0 /\ kb_buf_remove_last_char(t)
                => /\ kb_buf' \in [Used -> Buffers]
                   /\ kb_buf_num' \in [Used -> 0..(KB_BUFFER + TabWidth - 1)]
         /\ kb_buf \in [Used -> Buffers]
         /\ kb_buf_num \in [Used -> 0..(KB_BUFFER + TabWidth - 1)]
<1>1. /\ kb_buf \in [Used -> Buffers] /\ kb_buf_num \in [Used -> 0..(KB_BUFFER + TabWidth - 1)]
      /\ KB_BUFFER \in Nat \ {0} /\ TabWidth \in Nat \ {0}
  BY InputAssumption DEF TypeOK, Buffers
<1> DEFINE m == kb_buf_num[t]
<1>2. m \in 0..(KB_BUFFER + TabWidth - 1) /\ kb_buf[t] \in Buffers
  BY <1>1
<1>3. ASSUME NEW c \in Chars, NEW n \in {1, TabWidth}, m < KB_BUFFER, kb_buf_add(t, c, n)
      PROVE  /\ kb_buf' \in [Used -> Buffers]
             /\ kb_buf_num' \in [Used -> 0..(KB_BUFFER + TabWidth - 1)]
  <2> DEFINE line == [i \in 1..KB_BUFFER |-> IF i > m /\ i <= m + n THEN c ELSE kb_buf[t][i]]
  <2>1. line \in Buffers
    <3> HIDE DEF m
    <3> QED BY <1>2 DEF Buffers
  <2>2. kb_buf' = [kb_buf EXCEPT ![t] = line] /\ kb_buf_num' = [kb_buf_num EXCEPT ![t] = m + n]
    BY <1>3 DEF kb_buf_add
  <2>3. m + n \in 0..(KB_BUFFER + TabWidth - 1)
    BY <1>1, <1>2, <1>3
  <2> HIDE DEF line, m
  <2> QED BY <1>1, <2>1, <2>2, <2>3
<1>4. ASSUME m > 0, kb_buf_remove_last_char(t)
      PROVE  /\ kb_buf' \in [Used -> Buffers]
             /\ kb_buf_num' \in [Used -> 0..(KB_BUFFER + TabWidth - 1)]
  <2>1. m - 1 \in 0..(KB_BUFFER + TabWidth - 1)
    BY <1>1, <1>2, <1>4
  <2>2. kb_buf_num' = [kb_buf_num EXCEPT ![t] = m - 1]
        /\ (kb_buf' = [kb_buf EXCEPT ![t] = [kb_buf[t] EXCEPT ![m] = Nul]] \/ kb_buf' = kb_buf)
    BY <1>4 DEF kb_buf_remove_last_char
  <2>3. [kb_buf[t] EXCEPT ![m] = Nul] \in Buffers
    <3> HIDE DEF m
    <3> QED BY <1>2 DEF Buffers
  <2> HIDE DEF m
  <2> QED BY <1>1, <2>1, <2>2, <2>3
<1> HIDE DEF m
<1> QED BY <1>1, <1>3, <1>4 DEF m

(* A statement of the read that runs: nothing but the fields it writes.     *)
LEMMA Statement ==
  ASSUME Inv, NEW here \in PCs, NEW there \in PCs, At(here, there)
  PROVE  /\ pc' \in [Used -> PCs] /\ terminal_curr \in Used
         /\ pc[terminal_curr] = here /\ pc'[terminal_curr] = there
         /\ \A t \in Used : t # terminal_curr => pc'[t] = pc[t]
BY DEF Inv, UsedOnly, TypeOK, At, PCs

LEMMA NextInv == Inv /\ [Next]_vars => Inv'
<1> SUFFICES ASSUME Inv, [Next]_vars PROVE Inv'
  OBVIOUS
<1> USE DEF PCs
<1>1. /\ terminal_curr \in Used /\ shown \in Used /\ terminal_on_display_next \in Used
      /\ Used \subseteq Terminals /\ started \subseteq Terminals /\ active \subseteq {2, 3}
      /\ kb_buf \in [Used -> Buffers] /\ kb_buf_num \in [Used -> 0..(KB_BUFFER + TabWidth - 1)]
      /\ enter_flag \subseteq Used /\ terminal_read_flag \subseteq Used
      /\ kb_exit_flag \subseteq Used
      /\ pc \in [Used -> PCs] /\ Lined /\ DOMAIN user_buf = Used
      /\ \A t \in Used : Flagged(t)
      /\ KB_BUFFER \in Nat \ {0} /\ TabWidth \in Nat \ {0} /\ Space \in Chars /\ Nul \notin Chars
  BY InputAssumption
     DEF Inv, TypeOK, SwitchTypeOK, UsedOnly, TypingFollowsRead, Flagged, Lined, Buffers, shown
\* What the invariant is made of.
<1> DEFINE Switch == /\ terminal_curr' \in Used /\ terminal_on_display_curr' \in Used
                     /\ terminal_on_display_next' \in Used /\ started' \subseteq Terminals
                     /\ active' \subseteq {2, 3}
           Lines1 == /\ kb_buf' \in [Used -> Buffers]
                     /\ kb_buf_num' \in [Used -> 0..(KB_BUFFER + TabWidth - 1)]
           Flags == /\ enter_flag' \subseteq Used /\ terminal_read_flag' \subseteq Used
                    /\ kb_exit_flag' \subseteq Used
           Reads == pc' \in [Used -> PCs] /\ \A t \in Used : Flagged(t)'
           Given == Lined' /\ DOMAIN user_buf' = Used
<1>2. Switch /\ Lines1 /\ Flags /\ Reads /\ Given => Inv'
  BY <1>1 DEF Inv, TypeOK, SwitchTypeOK, UsedOnly, TypingFollowsRead, Flagged, Lined, Buffers, Terminals
<1>3. UNCHANGED switchVars => Switch
  BY <1>1 DEF switchVars, shown
<1>4. UNCHANGED <<kb_buf, kb_buf_num>> => Lines1
  BY <1>1
<1>5. UNCHANGED <<terminal_read_flag, pc>> => Reads
  BY <1>1 DEF Flagged
<1>6. UNCHANGED user_buf => Given
  BY <1>1 DEF Lined
<1>7. UNCHANGED <<enter_flag, terminal_read_flag, kb_exit_flag>> => Flags
  BY <1>1
<1> HIDE DEF Switch, Lines1, Flags, Reads, Given
<1>8. CASE UNCHANGED vars
  BY <1>2, <1>3, <1>4, <1>5, <1>6, <1>7, <1>8 DEF vars, inputVars, keyVars
<1>9. ASSUME NEW c \in Chars, KeyChar(c) PROVE Inv'
  <2>1. Lines1
    BY <1>1, <1>9, Buffering DEF Inv, KeyChar, HasRoom, Lines1
  <2> QED BY <2>1, <1>2, <1>3, <1>5, <1>6, <1>7, <1>9 DEF KeyChar
<1>10. CASE KeyTab
  <2>1. Lines1
    BY <1>1, <1>10, Buffering DEF Inv, KeyTab, HasRoom, Lines1
  <2> QED BY <2>1, <1>2, <1>3, <1>5, <1>6, <1>7, <1>10 DEF KeyTab
<1>11. CASE KeyBackspace
  <2>1. Lines1
    BY <1>1, <1>11, Buffering DEF Inv, KeyBackspace, Lines1
  <2> QED BY <2>1, <1>2, <1>3, <1>5, <1>6, <1>7, <1>11 DEF KeyBackspace
<1>12. CASE KeyEnter
  <2>1. Lines1 /\ Flags
    BY <1>1, <1>12 DEF KeyEnter, Lines1, Flags
  <2> QED BY <2>1, <1>2, <1>3, <1>5, <1>6, <1>12 DEF KeyEnter
\* A program that is halted is in user mode, and so is the next one.
<1>13. ASSUME NEW t \in Used, Killed(t), UNCHANGED terminal_read_flag PROVE Reads /\ Given
  <2>1. /\ pc' = [pc EXCEPT ![t] = "user"] /\ user_buf' = [user_buf EXCEPT ![t] = NoLine]
        /\ terminal_read_flag' = terminal_read_flag
    BY <1>13 DEF Killed
  <2>2. Reads
    BY <1>1, <2>1 DEF Reads, Flagged
  <2>3. Given
    BY <1>1, <2>1 DEF Given, Lined
  <2> QED BY <2>2, <2>3
<1>14. CASE KeyCtrlC
  <2>1. Empty \in Buffers
    BY DEF Empty, Buffers
  <2>2. Lines1 /\ Flags
    BY <1>1, <1>14, <2>1 DEF KeyCtrlC, Lines1, Flags
  <2>3. Reads /\ Given
    <3>1. CASE terminal_curr = shown
      BY <1>1, <1>13, <1>14, <3>1 DEF KeyCtrlC
    <3>2. CASE terminal_curr # shown
      BY <1>5, <1>6, <1>14, <3>2 DEF KeyCtrlC
    <3> QED BY <3>1, <3>2
  <2> QED BY <1>2, <1>3, <1>14, <2>2, <2>3 DEF KeyCtrlC
<1>15. ASSUME NEW t \in Used, Request(t), UNCHANGED inputVars PROVE Inv'
  <2>1. t \in 1..3
    BY <1>1 DEF Terminals
  <2>2. active' \subseteq {2, 3}
    BY <1>1, <1>15, <2>1 DEF Request
  <2>3. Switch
    BY <1>1, <1>15, <2>2 DEF Request, Switch, shown
  <2> QED BY <2>3, <1>2, <1>4, <1>5, <1>6, <1>7, <1>15 DEF inputVars, keyVars
<1>16. CASE ResetEnter
  <2>1. Reads
    BY <1>16, <1>1, Statement DEF ResetEnter, Reads, Flagged
  <2>2. Flags
    BY <1>1, <1>16 DEF ResetEnter, Flags
  <2> QED BY <1>2, <1>3, <1>4, <1>6, <1>16, <2>1, <2>2 DEF ResetEnter
<1>17. CASE ResetFull
  <2>1. Reads
    BY <1>17, <1>1, Statement DEF ResetFull, Reads, Flagged
  <2>2. Flags
    BY <1>1, <1>17 DEF ResetFull, Flags
  <2> QED BY <1>2, <1>3, <1>4, <1>6, <1>17, <2>1, <2>2 DEF ResetFull
<1>18. CASE RefuseBuffer
  <2>1. Reads
    BY <1>18, <1>1, Statement DEF RefuseBuffer, Reads, Flagged, keyVars
  <2> QED BY <1>2, <1>3, <1>4, <1>6, <1>7, <1>18, <2>1 DEF RefuseBuffer, keyVars
<1>19. CASE SetReadFlag
  <2>1. Reads
    BY <1>19, <1>1, Statement DEF SetReadFlag, Reads, Flagged
  <2>2. Flags
    BY <1>1, <1>19 DEF SetReadFlag, Flags
  <2> QED BY <1>2, <1>3, <1>4, <1>6, <1>19, <2>1, <2>2 DEF SetReadFlag
<1>20. CASE TestEnter
  <2>1. Reads
    BY <1>20, <1>1, Statement DEF TestEnter, Reads, Flagged, keyVars
  <2> QED BY <1>2, <1>3, <1>4, <1>6, <1>7, <1>20, <2>1 DEF TestEnter, keyVars
<1>21. CASE TestShown
  <2>1. Reads
    <3> DEFINE there == IF terminal_curr = shown THEN "clear_flag" ELSE "test_enter"
    <3>1. there \in PCs /\ At("test_shown", there) /\ UNCHANGED terminal_read_flag
      BY <1>21 DEF TestShown, keyVars
    <3> QED BY <1>1, <3>1, Statement DEF Reads, Flagged
  <2> QED BY <1>2, <1>3, <1>4, <1>6, <1>7, <1>21, <2>1 DEF TestShown, keyVars
<1>22. CASE ClearReadFlag
  <2>1. Reads
    BY <1>22, <1>1, Statement DEF ClearReadFlag, Reads, Flagged
  <2>2. Flags
    BY <1>1, <1>22 DEF ClearReadFlag, Flags
  <2> QED BY <1>2, <1>3, <1>4, <1>6, <1>22, <2>1, <2>2 DEF ClearReadFlag
<1>23. CASE CopyLine
  <2>1. Reads
    BY <1>23, <1>1, Statement DEF CopyLine, Reads, Flagged, keyVars
  <2>2. Given
    <3>1. user_buf' = [user_buf EXCEPT ![terminal_curr] = Text(kb_buf[shown])]
      BY <1>23 DEF CopyLine
    <3>2. \A i \in DOMAIN Text(kb_buf[shown]) : Text(kb_buf[shown])[i] \in Chars
      BY <1>1, Texts
    <3> DEFINE line == Text(kb_buf[shown])
    <3> HIDE DEF line
    <3> QED BY <1>1, <3>1, <3>2 DEF Given, Lined, line
  <2> QED BY <1>2, <1>3, <1>4, <1>7, <1>23, <2>1, <2>2 DEF CopyLine, keyVars
<1>24. CASE ClearBuffer
  <2>1. Reads
    BY <1>24, <1>1, Statement DEF ClearBuffer, Reads, Flagged
  <2>2. Lines1
    <3>1. Empty \in Buffers
      BY DEF Empty, Buffers
    <3> QED BY <1>1, <1>24, <3>1 DEF ClearBuffer, Lines1
  <2> QED BY <1>2, <1>3, <1>6, <1>7, <1>24, <2>1, <2>2 DEF ClearBuffer
<1>25. CASE TakeEnter
  <2>1. Reads
    BY <1>25, <1>1, Statement DEF TakeEnter, Reads, Flagged
  <2>2. Flags /\ Given
    BY <1>1, <1>25 DEF TakeEnter, Flags, Given, Lined
  <2> QED BY <1>2, <1>3, <1>4, <1>25, <2>1, <2>2 DEF TakeEnter
<1>26. ASSUME NEW n \in Used, PitGoTo(n) PROVE Inv'
  <2>1. Switch
    BY <1>1, <1>26 DEF PitGoTo, GoTo, Switch, shown
  <2>2. Flags
    BY <1>1, <1>26 DEF PitGoTo, Flags
  <2>3. Reads /\ Given
    <3>1. CASE n \in kb_exit_flag
      BY <1>13, <1>26, <3>1 DEF PitGoTo
    <3>2. CASE n \notin kb_exit_flag
      BY <1>5, <1>6, <1>26, <3>2 DEF PitGoTo
    <3> QED BY <3>1, <3>2
  <2> QED BY <1>2, <1>4, <1>26, <2>1, <2>2, <2>3 DEF PitGoTo
<1>27. ASSUME NEW n \in Used, PitRefuse(n) PROVE Inv'
  <2>1. Switch
    BY <1>1, <1>27 DEF PitRefuse, Refuse, Switch, shown
  <2> QED BY <2>1, <1>2, <1>4, <1>5, <1>6, <1>7, <1>27 DEF PitRefuse, inputVars, keyVars
<1>28. QED
  BY <1>8, <1>9, <1>10, <1>11, <1>12, <1>14, <1>15, <1>16, <1>17, <1>18, <1>19, <1>20,
     <1>21, <1>22, <1>23, <1>24, <1>25, <1>26, <1>27 DEF Next, Typing, ReadStep, KeyAltFn

(* Types, the flags of typing and the statements of the reads agree in     *)
(* every state, for any buffer and tab.                                    *)
THEOREM InvCorrect == Spec => []Inv
BY InitInv, NextInv, PTL DEF Spec

(* The count of characters stays within a tab of the capacity, and what a  *)
(* program gets is text, for buffers and tabs of any size.                 *)
THEOREM TypeCorrect == Spec => []TypeOK
<1>1. Inv => TypeOK
  BY DEF Inv
<1> QED BY <1>1, InvCorrect, PTL

(* A terminal accepts typing exactly while its program waits for a line.   *)
THEOREM TypingCorrect == Spec => []TypingFollowsRead
<1>1. Inv => TypingFollowsRead
  BY DEF Inv
<1> QED BY <1>1, InvCorrect, PTL

-----------------------------------------------------------------------------
(* Lines in buffers                                                        *)

Counts == 0..(KB_BUFFER + TabWidth - 1)

\* The first n places of a buffer hold characters, the others none.
Filled(b, n) == \A i \in 1..KB_BUFFER : b[i] = Nul <=> i > n

\* The line in a buffer in which n characters have been counted.
LineIn(b, n) == SubSeq(b, 1, Kept(n))

(* What that line is.                                                      *)
LEMMA LineIs ==
  ASSUME NEW b \in Buffers, NEW n \in Nat
  PROVE  /\ Kept(n) \in 0..KB_BUFFER
         /\ LineIn(b, n) \in Seq(Chars \cup {Nul}) /\ Len(LineIn(b, n)) = Kept(n)
         /\ LineIn(b, n) = [i \in 1..Kept(n) |-> b[i]]
<1> DEFINE k == Kept(n)
           s == LineIn(b, n)
           S == Chars \cup {Nul}
<1>1. KB_BUFFER \in Nat /\ k \in 0..KB_BUFFER /\ k \in Nat
  BY InputAssumption DEF Kept
<1> HIDE DEF k
<1>2. \A i \in 1..k : b[i] \in S
  BY <1>1 DEF Buffers
<1>3. s = SubSeq(b, 1, k)
  BY DEF LineIn, k
<1>4. s \in Seq(S) /\ Len(s) = k /\ \A i \in 1..k : s[i] = b[i]
  <2>1. 1 \in Int /\ k \in Int
    BY <1>1
  <2>2. /\ s \in Seq(S) /\ Len(s) = (IF 1 <= k THEN k - 1 + 1 ELSE 0)
        /\ \A i \in 1..(k - 1 + 1) : s[i] = b[1 + i - 1]
    <3> HIDE DEF s, S
    <3> QED BY <1>2, <1>3, <2>1, SubSeqProperties
  <2> HIDE DEF s
  <2>3. k - 1 + 1 = k /\ \A i \in 1..k : 1 + i - 1 = i
    BY <1>1
  <2>4. Len(s) = k
    BY <1>1, <2>2, <2>3
  <2>5. \A i \in 1..k : s[i] = b[1 + i - 1]
    BY <2>2, <2>3
  <2> QED BY <2>2, <2>3, <2>4, <2>5
<1> HIDE DEF s, S
<1>5. s = [i \in 1..k |-> b[i]]
  BY <1>4, LenProperties
<1> QED BY <1>1, <1>4, <1>5 DEF k, s, S

(* A line is what its characters are.                                      *)
LEMMA SameLine ==
  ASSUME NEW b \in Buffers, NEW n \in Nat, NEW s \in Seq(Chars \cup {Nul}),
         Len(s) = Kept(n), \A i \in 1..Kept(n) : s[i] = b[i]
  PROVE  s = LineIn(b, n)
<1>1. /\ LineIn(b, n) \in Seq(Chars \cup {Nul}) /\ Len(LineIn(b, n)) = Kept(n)
      /\ \A i \in 1..Kept(n) : LineIn(b, n)[i] = b[i]
  BY LineIs
<1> QED BY <1>1, SeqEqual

(* The string in a buffer is the line that was typed into it.              *)
LEMMA TextIs ==
  ASSUME NEW b \in Buffers, NEW n \in Nat, Filled(b, n)
  PROVE  Text(b) = LineIn(b, n) /\ Text(b) # NoLine
<1> DEFINE k == Kept(n)
           IsEnd(m) == (\A i \in 1..m : b[i] # Nul) /\ (m = KB_BUFFER \/ b[m + 1] = Nul)
           end == CHOOSE m \in 0..KB_BUFFER : IsEnd(m)
<1>1. KB_BUFFER \in Nat /\ k \in 0..KB_BUFFER /\ k <= n /\ (k = KB_BUFFER \/ k = n)
  BY InputAssumption DEF Kept
<1> HIDE DEF k
<1>2. IsEnd(k)
  BY <1>1 DEF Filled
<1>3. ASSUME NEW m \in 0..KB_BUFFER, IsEnd(m) PROVE m = k
  <2>1. ~(m < k)
    <3> SUFFICES ASSUME m < k PROVE FALSE
      OBVIOUS
    <3>1. m + 1 \in 1..KB_BUFFER /\ ~(m + 1 > n) /\ m # KB_BUFFER
      BY <1>1
    <3> QED BY <1>3, <3>1 DEF Filled
  <2>2. ~(k < m)
    <3> SUFFICES ASSUME k < m PROVE FALSE
      OBVIOUS
    <3>1. k + 1 \in 1..KB_BUFFER /\ k + 1 > n /\ k + 1 \in 1..m
      BY <1>1
    <3> QED BY <1>3, <3>1 DEF Filled
  <2> QED BY <1>1, <2>1, <2>2
<1>4. end = k
  <2>1. end \in 0..KB_BUFFER /\ IsEnd(end)
    BY <1>1, <1>2
  <2> HIDE DEF end, IsEnd
  <2> QED BY <1>3, <2>1
<1>5. Text(b) = SubSeq(b, 1, k)
  BY <1>4 DEF Text
<1>6. Text(b) = LineIn(b, n)
  BY <1>5 DEF LineIn, k
<1>7. Text(b) # NoLine
  <2> SUFFICES ASSUME Text(b) = NoLine PROVE FALSE
    OBVIOUS
  <2>1. 1 \in DOMAIN NoLine /\ NoLine[1] = Nul /\ Nul \notin Chars
    BY InputAssumption DEF NoLine
  <2> QED BY <2>1, Texts
<1> QED BY <1>6, <1>7

\* A buffer with c in w places after the first n, and k times c.
Added(b, n, c, w) == [i \in 1..KB_BUFFER |-> IF i > n /\ i <= n + w THEN c ELSE b[i]]
Repeated(c, k) == [i \in 1..k |-> c]

(* What is typed comes at the end of the line, as far as there is room.    *)
LEMMA TypedLine ==
  ASSUME NEW b \in Buffers, NEW n \in Nat, Filled(b, n), n < KB_BUFFER,
         NEW c \in Chars, NEW w \in Nat \ {0}
  PROVE  /\ Added(b, n, c, w) \in Buffers /\ Filled(Added(b, n, c, w), n + w)
         /\ Kept(n) = n /\ Kept(n + w) > n
         /\ LineIn(Added(b, n, c, w), n + w) = LineIn(b, n) \o Repeated(c, Kept(n + w) - n)
         /\ w = 1 => LineIn(Added(b, n, c, w), n + w) = Append(LineIn(b, n), c)
<1> DEFINE S == Chars \cup {Nul}
           s == LineIn(b, n)
           k == Kept(n + w)
           more == [i \in 1..(k - n) |-> c]
           b1 == [i \in 1..KB_BUFFER |-> IF i > n /\ i <= n + w THEN c ELSE b[i]]
<1>1. b1 \in Buffers /\ Filled(b1, n + w)
  <2>1. KB_BUFFER \in Nat /\ Nul \notin Chars
    BY InputAssumption
  <2>2. b1 \in Buffers
    BY DEF Buffers
  <2>3. ASSUME NEW i \in 1..KB_BUFFER PROVE b1[i] = Nul <=> i > n + w
    BY <2>1 DEF Filled
  <2> QED BY <2>2, <2>3 DEF Filled
<1>2. /\ KB_BUFFER \in Nat /\ Kept(n) = n /\ k \in 0..KB_BUFFER /\ k > n /\ k <= n + w
      /\ w = 1 => k = n + 1
  BY InputAssumption DEF Kept
<1>3. s \in Seq(S) /\ Len(s) = n /\ \A i \in 1..n : s[i] = b[i]
  <2>1. /\ s \in Seq(S) /\ Len(s) = Kept(n) /\ s = [i \in 1..Kept(n) |-> b[i]]
    BY LineIs
  <2> HIDE DEF s
  <2> QED BY <1>2, <2>1
<1>0. b1 = Added(b, n, c, w) /\ more = Repeated(c, k - n)
  BY DEF Added, Repeated
<1> HIDE DEF s, k
<1>4. \A i \in 1..k : b1[i] = IF i <= n THEN b[i] ELSE c
  BY <1>2
<1>5. more \in Seq(S) /\ Len(more) = k - n /\ \A i \in 1..(k - n) : more[i] = c
  <2>1. k - n \in Nat /\ more \in [1..(k - n) -> S]
    BY <1>2
  <2> QED BY <2>1, LenProperties
<1> HIDE DEF more, b1
<1>6. s \o more = LineIn(b1, n + w)
  <2> DEFINE u == s \o more
  <2>1. /\ u \in Seq(S) /\ Len(u) = Len(s) + Len(more)
        /\ \A i \in 1..(Len(s) + Len(more)) : u[i] = IF i <= Len(s) THEN s[i] ELSE more[i - Len(s)]
    BY <1>3, <1>5, ConcatProperties
  <2> HIDE DEF u
  <2>2. Len(u) = k
    BY <1>2, <1>3, <1>5, <2>1
  <2>3. ASSUME NEW i \in 1..k PROVE u[i] = b1[i]
    <3>1. CASE i <= n
      BY <1>2, <1>3, <1>4, <1>5, <2>1, <3>1
    <3>2. CASE ~(i <= n)
      <4>1. i - n \in 1..(k - n)
        BY <1>2, <3>2
      <4> QED BY <1>2, <1>3, <1>4, <1>5, <2>1, <3>2, <4>1
    <3> QED BY <3>1, <3>2
  <2>4. u = LineIn(b1, n + w)
    <3>1. n + w \in Nat
      OBVIOUS
    <3>2. Len(u) = Kept(n + w)
      BY <2>2 DEF k
    <3>3. \A i \in 1..Kept(n + w) : u[i] = b1[i]
      BY ONLY <2>3 DEF k
    <3> QED BY <1>1, <2>1, <3>1, <3>2, <3>3, SameLine
  <2> QED BY <2>4 DEF u
<1>7. ASSUME w = 1 PROVE Append(s, c) = LineIn(b1, n + w)
  <2> DEFINE u == Append(s, c)
  <2>1. c \in S
    OBVIOUS
  <2>2. /\ u \in Seq(S) /\ Len(u) = Len(s) + 1
        /\ \A i \in 1..Len(s) : u[i] = s[i]
        /\ u[Len(s) + 1] = c
    <3> HIDE DEF S
    <3> QED BY <1>3, <2>1, AppendProperties
  <2> HIDE DEF u
  <2>3. Len(u) = k
    BY <1>2, <1>3, <1>7, <2>2
  <2>4. ASSUME NEW i \in 1..k PROVE u[i] = b1[i]
    BY <1>2, <1>3, <1>4, <1>7, <2>2
  <2>5. u = LineIn(b1, n + w)
    <3>1. n + w \in Nat /\ Len(u) = Kept(n + w) /\ \A i \in 1..Kept(n + w) : u[i] = b1[i]
      BY <2>3, <2>4 DEF k
    <3> QED BY <1>1, <2>2, <3>1, SameLine
  <2> QED BY <2>5 DEF u
<1> QED BY <1>0, <1>1, <1>2, <1>6, <1>7 DEF s, k

(* What is erased was the last, once the rest of a tab is gone.            *)
LEMMA ErasedLine ==
  ASSUME NEW b \in Buffers, NEW n \in Nat \ {0}, Filled(b, n),
         NEW b1, b1 = IF n - 1 < KB_BUFFER THEN [b EXCEPT ![n] = Nul] ELSE b
  PROVE  /\ b1 \in Buffers /\ Filled(b1, n - 1)
         /\ n > KB_BUFFER => LineIn(b1, n - 1) = LineIn(b, n)
         /\ n <= KB_BUFFER => /\ LineIn(b, n) # <<>>
                              /\ LineIn(b1, n - 1) = SubSeq(LineIn(b, n), 1, Len(LineIn(b, n)) - 1)
<1> DEFINE S == Chars \cup {Nul}
           s == LineIn(b, n)
           u == SubSeq(s, 1, Len(s) - 1)
<1>1. KB_BUFFER \in Nat
  BY InputAssumption
<1>2. b1 \in Buffers /\ Filled(b1, n - 1)
  BY <1>1 DEF Buffers, Filled
<1>3. s \in Seq(S) /\ Len(s) = Kept(n) /\ s = [i \in 1..Kept(n) |-> b[i]]
  BY LineIs
<1> HIDE DEF s
<1>4. ASSUME n > KB_BUFFER PROVE LineIn(b1, n - 1) = s
  <2>1. Kept(n - 1) = KB_BUFFER /\ Kept(n) = KB_BUFFER
    BY <1>1, <1>4 DEF Kept
  <2>2. b1 = b
    BY <1>1, <1>4
  <2> QED BY <1>1, <2>1, <2>2 DEF LineIn, s
<1>5. ASSUME n <= KB_BUFFER PROVE s # <<>> /\ LineIn(b1, n - 1) = u
  <2>1. Kept(n) = n /\ Kept(n - 1) = n - 1 /\ n - 1 \in Nat
    BY <1>1, <1>5 DEF Kept
  <2>2. Len(s) = n /\ \A i \in 1..n : s[i] = b[i]
    BY <1>3, <2>1
  <2>3. s # <<>>
    BY <2>2, EmptySeq
  <2>4. u \in Seq(S) /\ Len(u) = n - 1 /\ \A i \in 1..(n - 1) : u[i] = s[i]
    <3>1. 1 \in Int /\ n - 1 \in Int /\ \A i \in 1..(n - 1) : s[i] \in S
      <4> HIDE DEF S
      <4>1. \A i \in 1..n : s[i] \in S
        BY <1>3, <2>2, ElementOfSeq
      <4> QED BY <4>1
    <3>2. u = SubSeq(s, 1, n - 1)
      BY <2>2
    <3> HIDE DEF u, S
    <3>3. /\ u \in Seq(S) /\ Len(u) = (IF 1 <= n - 1 THEN (n - 1) - 1 + 1 ELSE 0)
          /\ \A i \in 1..((n - 1) - 1 + 1) : u[i] = s[1 + i - 1]
      BY <3>1, <3>2, SubSeqProperties
    <3>4. (n - 1) - 1 + 1 = n - 1 /\ \A i \in 1..(n - 1) : 1 + i - 1 = i
      OBVIOUS
    <3>5. Len(u) = n - 1
      BY <2>1, <3>3, <3>4
    <3>6. \A i \in 1..(n - 1) : u[i] = s[1 + i - 1]
      BY <3>3, <3>4
    <3> QED BY <3>3, <3>4, <3>5, <3>6
  <2> HIDE DEF u
  <2>5. \A i \in 1..(n - 1) : u[i] = b1[i]
    BY <1>1, <1>5, <2>2, <2>4 DEF Buffers
  <2>6. u = LineIn(b1, n - 1)
    BY <1>2, <2>1, <2>4, <2>5, SameLine
  <2> QED BY <2>3, <2>6
<1> QED BY <1>2, <1>4, <1>5 DEF s, u


-----------------------------------------------------------------------------
(* A patient user                                                          *)

\* The reader has seen an ENTER, or is taking the line.
Taking(t) == pc[t] \in {"clear_flag", "copy", "clear_buf", "take_enter"}
Testing(t) == pc[t] = "test_shown" \/ Taking(t)

\* While an ENTER waits or is being taken, the display stays where it is and no
\* program is to be halted; only the reader on show takes a line.
OneAtATime ==
  /\ enter_flag \subseteq {shown}
  /\ enter_flag # {} => /\ terminal_on_display_next = shown /\ kb_exit_flag = {}
                        /\ pc[shown] = "test_enter" \/ Testing(shown)
  /\ (\A t \in Used : Testing(t) => terminal_on_display_next = shown /\ kb_exit_flag = {})
  /\ (\A t \in Used : Taking(t) => t = shown)
  /\ Testing(shown) => shown \in enter_flag

\* A buffer holds the characters counted, or, after ENTER, those of the line
\* that is being taken.
BufferOK(t) ==
  \E n \in Nat :
    /\ Filled(kb_buf[t], n)
    /\ t \notin enter_flag => kb_buf_num[t] = n
    /\ t \in enter_flag => kb_buf_num[t] = 0
    /\ pc[t] = "take_enter" => n = 0

\* A program holds a line between the copy and the return.
GivenOK(t) == user_buf[t] = NoLine <=> pc[t] \notin {"clear_buf", "take_enter"}

Buffered == \A t \in Used : BufferOK(t) /\ GivenOK(t)

PatientInv ==
  /\ Inv /\ OneAtATime /\ Buffered
  /\ user_buf = [t \in Used |-> user_buf[t]]

(* What the invariant says, in one place.                                  *)
LEMMA PatientFacts ==
  ASSUME PatientInv
  PROVE  /\ terminal_curr \in Used /\ shown \in Used /\ shown = terminal_on_display_curr
         /\ kb_buf \in [Used -> Buffers] /\ kb_buf_num \in [Used -> Nat]
         /\ pc \in [Used -> PCs] /\ enter_flag \subseteq Used
         /\ user_buf = [t \in Used |-> user_buf[t]]
         /\ Inv /\ OneAtATime /\ Buffered
         /\ KB_BUFFER \in Nat \ {0} /\ TabWidth \in Nat \ {0} /\ Space \in Chars /\ Nul \notin Chars
<1>1. KB_BUFFER \in Nat \ {0} /\ TabWidth \in Nat \ {0} /\ Space \in Chars /\ Nul \notin Chars
  BY InputAssumption
<1>2. 0..(KB_BUFFER + TabWidth - 1) \subseteq Nat
  OBVIOUS
<1> QED BY <1>1, <1>2 DEF PatientInv, Inv, TypeOK, UsedOnly, Buffers, PCs, shown

(* Between two lines it is enough that the kernel has settled.             *)
LEMMA NobodyTesting ==
  ASSUME enter_flag = {}, \A t \in Used : ~Testing(t), shown \in Used
  PROVE  OneAtATime
BY DEF OneAtATime, Testing, Taking

(* The same in the next state.                                             *)
LEMMA NobodyTestingNext ==
  (enter_flag = {} /\ (\A t \in Used : ~Testing(t)) /\ shown \in Used => OneAtATime)'
<1>1. enter_flag = {} /\ (\A t \in Used : ~Testing(t)) /\ shown \in Used => OneAtATime
  BY NobodyTesting
<1> QED BY <1>1, PTL

(* An empty buffer.                                                        *)
LEMMA EmptyIs ==
  /\ Empty \in Buffers /\ Filled(Empty, 0)
  /\ \A b \in Buffers : LineIn(b, 0) = <<>>
<1>1. KB_BUFFER \in Nat \ {0}
  BY InputAssumption
<1>2. Empty \in Buffers /\ Filled(Empty, 0)
  BY <1>1 DEF Empty, Buffers, Filled
<1>3. ASSUME NEW b \in Buffers PROVE LineIn(b, 0) = <<>>
  <2>1. Kept(0) = 0
    BY <1>1 DEF Kept
  <2>2. LineIn(b, 0) \in Seq(Chars \cup {Nul}) /\ Len(LineIn(b, 0)) = 0
    BY <2>1, LineIs
  <2> QED BY <2>2, EmptySeq
<1> QED BY <1>2, <1>3

(* A function that is changed in one place.                                *)
LEMMA OneChanged ==
  ASSUME NEW S, NEW f, f = [t \in S |-> f[t]], NEW g, g = [t \in S |-> g[t]], NEW s \in S,
         NEW v, g[s] = v, \A t \in S : t # s => g[t] = f[t]
  PROVE  g = [f EXCEPT ![s] = v]
OBVIOUS

(* The mapping, as functions of the terminal.                              *)
MappingFacts ==
  /\ Line = [t \in Used |-> Line[t]] /\ Surplus = [t \in Used |-> Surplus[t]]
  /\ Entered = [t \in Used |-> Entered[t]]
  /\ \A t \in Used :
       /\ Line[t] = LineIn(kb_buf[t], kb_buf_num[t])
       /\ Surplus[t] = kb_buf_num[t] - Kept(kb_buf_num[t])
       /\ Entered[t] = IF t \in enter_flag /\ pc[t] \notin {"clear_buf", "take_enter"}
                       THEN Text(kb_buf[t]) ELSE NoLine
  /\ \A t : t \in Reading <=> t \in Used /\ pc[t] \notin {"user", "reset_full", "set_flag"}

LEMMA MappingIs == MappingFacts
BY DEF MappingFacts, Line, Surplus, Entered, Reading, LineIn

LEMMA MappingIsNext == MappingFacts'
BY MappingIs, PTL



\* The line is copied.
Copied(t) == pc[t] \in {"clear_buf", "take_enter"}

\* A step of the reads as the user and the programs see it.
Seen == [Lines!Next]_Lines!vars

\* What the invariant needs of the next state, besides Inv.
Patient == OneAtATime /\ Buffered /\ user_buf = [t \in Used |-> user_buf[t]]

(* The initial state is that of the lines.                                 *)
LEMMA InitPatient == Init => PatientInv /\ Lines!Init
<1> SUFFICES ASSUME Init PROVE PatientInv /\ Lines!Init
  OBVIOUS
<1>1. Inv /\ Empty \in Buffers /\ Filled(Empty, 0) /\ LineIn(Empty, 0) = <<>>
  BY InitInv, EmptyIs
<1>2. /\ kb_buf = [t \in Used |-> Empty] /\ kb_buf_num = [t \in Used |-> 0]
      /\ enter_flag = {} /\ user_buf = [t \in Used |-> NoLine]
      /\ \A t \in Used : pc[t] = "user"
      /\ shown = 1 /\ shown \in Used
  BY InputAssumption DEF Init, SwitchInit, shown
<1>3. OneAtATime
  BY <1>2, NobodyTesting DEF Testing, Taking
<1>4. Buffered /\ user_buf = [t \in Used |-> user_buf[t]]
  BY <1>1, <1>2 DEF Buffered, BufferOK, GivenOK
<1>5. Kept(0) = 0
  BY InputAssumption DEF Kept
<1>6. /\ Line = [t \in Used |-> <<>>] /\ Surplus = [t \in Used |-> 0]
      /\ Entered = [t \in Used |-> NoLine] /\ Reading = {}
  BY <1>1, <1>2, <1>5 DEF Line, Surplus, Entered, Reading, LineIn
<1>7. Lines!Init
  BY <1>2, <1>6 DEF Lines!Init
<1> QED BY <1>1, <1>3, <1>4, <1>7 DEF PatientInv

(* The buffers say the same as long as nobody copies, clears or takes.     *)
LEMMA SameBuffers ==
  ASSUME PatientInv, UNCHANGED <<kb_buf, kb_buf_num, enter_flag, user_buf>>,
         \A t \in Used : (Copied(t)' <=> Copied(t)) /\ (pc'[t] = "take_enter" => pc[t] = "take_enter")
  PROVE  /\ Buffered' /\ user_buf' = [t \in Used |-> user_buf'[t]]
         /\ Line' = Line /\ Surplus' = Surplus /\ Entered' = Entered
<1>1. Buffered /\ user_buf = [t \in Used |-> user_buf[t]]
  BY DEF PatientInv
<1>2. ASSUME NEW t \in Used PROVE BufferOK(t)' /\ GivenOK(t)'
  <2>1. PICK n \in Nat : /\ Filled(kb_buf[t], n)
                         /\ t \notin enter_flag => kb_buf_num[t] = n
                         /\ t \in enter_flag => kb_buf_num[t] = 0
                         /\ pc[t] = "take_enter" => n = 0
    BY <1>1 DEF Buffered, BufferOK
  <2>2. Filled(kb_buf'[t], n)
    BY <2>1
  <2>3. BufferOK(t)'
    BY <2>1, <2>2 DEF BufferOK
  <2>4. GivenOK(t)'
    BY <1>1 DEF Buffered, GivenOK, Copied
  <2> QED BY <2>3, <2>4
<1>3. Line' = Line /\ Surplus' = Surplus
  BY DEF Line, Surplus
<1>4. Entered' = Entered
  <2>1. \A t \in Used : Entered'[t] = Entered[t]
    BY MappingIs, MappingIsNext DEF MappingFacts, Copied
  <2> QED BY <2>1, MappingIs, MappingIsNext DEF MappingFacts
<1> QED BY <1>1, <1>2, <1>3, <1>4 DEF Buffered

(* A statement that leaves the buffers alone.                              *)
LEMMA QuietStatement ==
  ASSUME PatientInv, UNCHANGED <<kb_buf, kb_buf_num, enter_flag, user_buf>>,
         NEW here \in PCs \ {"clear_buf", "take_enter"},
         NEW there \in PCs \ {"clear_buf", "take_enter"}, At(here, there)
  PROVE  /\ Buffered' /\ user_buf' = [t \in Used |-> user_buf'[t]]
         /\ Line' = Line /\ Surplus' = Surplus /\ Entered' = Entered
         /\ terminal_curr \in Used /\ pc[terminal_curr] = here /\ pc'[terminal_curr] = there
         /\ \A t \in Used : t # terminal_curr => pc'[t] = pc[t]
<1>1. /\ terminal_curr \in Used /\ pc[terminal_curr] = here /\ pc'[terminal_curr] = there
      /\ \A t \in Used : t # terminal_curr => pc'[t] = pc[t]
  BY Statement DEF PatientInv
<1>2. \A t \in Used : (Copied(t)' <=> Copied(t)) /\ (pc'[t] = "take_enter" => pc[t] = "take_enter")
  BY <1>1 DEF Copied
<1> QED BY <1>1, <1>2, SameBuffers

(* Nothing seen has changed.                                               *)
LEMMA Unseen ==
  ASSUME Line' = Line, Surplus' = Surplus, Entered' = Entered, user_buf' = user_buf,
         \A t \in Used : t \in Reading' <=> t \in Reading,
         terminal_on_display_curr' = terminal_on_display_curr
  PROVE  Seen
<1>1. Reading' = Reading
  <2>1. \A t : t \in Reading' <=> t \in Reading
    BY MappingIs, MappingIsNext DEF MappingFacts
  <2> QED BY <2>1
<1>2. shown' = shown
  BY DEF shown
<1> QED BY <1>1, <1>2 DEF Seen, Lines!vars

(* The statements that do not touch the line.                              *)
LEMMA BeforeReading ==
  ASSUME PatientInv, (enter_flag = {} /\ ResetEnter) \/ ResetFull \/ RefuseBuffer
  PROVE  Patient' /\ Seen
<1>1. /\ shown \in Used /\ OneAtATime /\ shown = terminal_on_display_curr
  BY PatientFacts
<1>2. UNCHANGED switchVars /\ UNCHANGED <<kb_buf, kb_buf_num, enter_flag, user_buf>>
  BY DEF ResetEnter, ResetFull, RefuseBuffer, keyVars
<1>3. \/ At("user", "reset_full") \/ At("reset_full", "set_flag") \/ At("set_flag", "user")
  BY DEF ResetEnter, ResetFull, RefuseBuffer
<1>4. PICK here \in {"user", "reset_full", "set_flag"}, there \in {"user", "reset_full", "set_flag"} :
        At(here, there)
  BY <1>3
<1>5. /\ Buffered' /\ user_buf' = [t \in Used |-> user_buf'[t]]
      /\ Line' = Line /\ Surplus' = Surplus /\ Entered' = Entered
      /\ terminal_curr \in Used /\ pc[terminal_curr] = here /\ pc'[terminal_curr] = there
      /\ \A t \in Used : t # terminal_curr => pc'[t] = pc[t]
  BY <1>2, <1>4, QuietStatement DEF PCs
<1>6. kb_exit_flag' = kb_exit_flag \/ kb_exit_flag' = {}
  BY DEF ResetEnter, ResetFull, RefuseBuffer, keyVars
<1>7. OneAtATime'
  <2>1. /\ shown' = shown /\ enter_flag' = enter_flag
        /\ terminal_on_display_next' = terminal_on_display_next
    BY <1>2 DEF switchVars, shown
  <2>2. \A t \in Used : (Testing(t)' <=> Testing(t)) /\ (Taking(t)' <=> Taking(t))
    BY <1>4, <1>5 DEF Testing, Taking
  <2>3. pc[shown] = "test_enter" => pc'[shown] = "test_enter"
    BY <1>1, <1>4, <1>5
  <2> QED BY <1>1, <1>6, <2>1, <2>2, <2>3 DEF OneAtATime
<1>8. Seen
  <2>1. \A t \in Used : t \in Reading' <=> t \in Reading
    BY <1>4, <1>5, MappingIs, MappingIsNext DEF MappingFacts
  <2> QED BY <1>2, <1>5, <2>1, Unseen DEF switchVars
<1> QED BY <1>5, <1>7, <1>8 DEF Patient



(* The call begins to wait for a line.                                     *)
LEMMA Starts == ASSUME PatientInv, SetReadFlag PROVE Patient' /\ Lines!Start(terminal_curr)
<1>1. /\ shown \in Used /\ OneAtATime /\ shown = terminal_on_display_curr
  BY PatientFacts
<1>2. /\ UNCHANGED switchVars /\ UNCHANGED <<kb_buf, kb_buf_num, enter_flag, user_buf>>
      /\ UNCHANGED kb_exit_flag /\ At("set_flag", "test_enter")
  BY DEF SetReadFlag
<1>3. /\ Buffered' /\ user_buf' = [t \in Used |-> user_buf'[t]]
      /\ Line' = Line /\ Surplus' = Surplus /\ Entered' = Entered
      /\ terminal_curr \in Used /\ pc[terminal_curr] = "set_flag" /\ pc'[terminal_curr] = "test_enter"
      /\ \A t \in Used : t # terminal_curr => pc'[t] = pc[t]
  BY <1>2, QuietStatement DEF PCs
<1>4. /\ shown' = shown /\ terminal_on_display_next' = terminal_on_display_next
  BY <1>2 DEF switchVars, shown
<1>5. OneAtATime'
  <2>1. \A t \in Used : (Testing(t)' <=> Testing(t)) /\ (Taking(t)' <=> Taking(t))
    BY <1>3 DEF Testing, Taking
  <2>2. pc[shown] = "test_enter" => pc'[shown] = "test_enter"
    BY <1>1, <1>3
  <2> QED BY <1>1, <1>2, <1>4, <2>1, <2>2 DEF OneAtATime
<1>6. terminal_curr \notin Reading /\ Reading' = Reading \cup {terminal_curr}
  <2>1. \A t : t \in Reading' <=> t \in Reading \cup {terminal_curr}
    BY <1>3, MappingIs, MappingIsNext DEF MappingFacts
  <2> QED BY <1>3, <2>1, MappingIs DEF MappingFacts
<1> QED BY <1>2, <1>3, <1>4, <1>5, <1>6 DEF Patient, Lines!Start

(* The waits and the tests.                                                *)
LEMMA Tests ==
  ASSUME PatientInv, TestEnter \/ TestShown \/ ClearReadFlag
  PROVE  Patient' /\ Seen
<1> DEFINE Waits == {"test_enter", "test_shown", "clear_flag", "copy"}
<1>1. /\ shown \in Used /\ OneAtATime /\ shown = terminal_on_display_curr
  BY PatientFacts
<1>2. UNCHANGED switchVars /\ UNCHANGED <<kb_buf, kb_buf_num, enter_flag, kb_exit_flag, user_buf>>
  BY DEF TestEnter, TestShown, ClearReadFlag, keyVars
<1>3. \/ At("test_enter", "test_shown") /\ shown \in enter_flag
      \/ At("test_shown", "clear_flag") /\ terminal_curr = shown
      \/ At("test_shown", "test_enter")
      \/ At("clear_flag", "copy")
  <2>1. CASE TestShown
    <3>1. CASE terminal_curr = shown
      BY <2>1, <3>1 DEF TestShown
    <3>2. CASE terminal_curr # shown
      BY <2>1, <3>2 DEF TestShown
    <3> QED BY <3>1, <3>2
  <2> QED BY <2>1 DEF TestEnter, ClearReadFlag
<1>4. PICK here \in Waits, there \in Waits :
        /\ At(here, there)
        /\ \/ here = "test_enter" /\ there = "test_shown" /\ shown \in enter_flag
           \/ here = "test_shown" /\ there = "clear_flag" /\ terminal_curr = shown
           \/ here = "test_shown" /\ there = "test_enter"
           \/ here = "clear_flag" /\ there = "copy"
  BY <1>3
<1>5. /\ Buffered' /\ user_buf' = [t \in Used |-> user_buf'[t]]
      /\ Line' = Line /\ Surplus' = Surplus /\ Entered' = Entered
      /\ terminal_curr \in Used /\ pc[terminal_curr] = here /\ pc'[terminal_curr] = there
      /\ \A t \in Used : t # terminal_curr => pc'[t] = pc[t]
  BY <1>2, <1>4, QuietStatement DEF PCs
<1>6. /\ shown' = shown /\ terminal_on_display_next' = terminal_on_display_next
  BY <1>2 DEF switchVars, shown
<1>7. OneAtATime'
  <2>1. \A t \in Used : t # terminal_curr => (Testing(t)' <=> Testing(t)) /\ (Taking(t)' <=> Taking(t))
    BY <1>5 DEF Testing, Taking
  <2>2. \A t \in Used : t = terminal_curr =>
          /\ Testing(t)' => Testing(t) \/ shown \in enter_flag
          /\ Taking(t)' => Taking(t) \/ t = shown
          /\ pc'[t] = "test_enter" \/ Testing(t)'
          /\ pc[t] = "test_enter" \/ Testing(t)
    BY <1>4, <1>5 DEF Testing, Taking
  <2>3. shown # terminal_curr => pc'[shown] = pc[shown]
    BY <1>1, <1>5
  <2> QED BY <1>1, <1>2, <1>5, <1>6, <2>1, <2>2, <2>3 DEF OneAtATime
<1>8. \A t \in Used : t \in Reading' <=> t \in Reading
  BY <1>4, <1>5, MappingIs, MappingIsNext DEF MappingFacts
<1> QED BY <1>2, <1>5, <1>7, <1>8, Unseen DEF Patient, switchVars

(* A statement of the reader on show that takes the line.                  *)
LEMMA TakingStatement ==
  ASSUME PatientInv, NEW here \in PCs, NEW there \in PCs, At(here, there),
         here \in {"clear_flag", "copy", "clear_buf", "take_enter"}
  PROVE  /\ terminal_curr = shown /\ shown \in Used /\ enter_flag = {shown}
         /\ pc[shown] = here /\ pc'[shown] = there
         /\ \A t \in Used : t # shown => pc'[t] = pc[t] /\ ~Taking(t)
         /\ kb_buf_num[shown] = 0 /\ kb_exit_flag = {} /\ terminal_on_display_next = shown
<1>1. /\ terminal_curr \in Used /\ pc[terminal_curr] = here /\ pc'[terminal_curr] = there
      /\ \A t \in Used : t # terminal_curr => pc'[t] = pc[t]
  BY Statement DEF PatientInv
<1>2. OneAtATime /\ Buffered /\ shown \in Used
  BY PatientFacts
<1>3. Taking(terminal_curr) /\ Testing(terminal_curr)
  BY <1>1 DEF Taking, Testing
<1>4. terminal_curr = shown /\ (\A t \in Used : t # shown => ~Taking(t))
      /\ enter_flag = {shown} /\ kb_exit_flag = {} /\ terminal_on_display_next = shown
  BY <1>1, <1>2, <1>3 DEF OneAtATime
<1>5. kb_buf_num[shown] = 0
  BY <1>2, <1>4 DEF Buffered, BufferOK
<1> QED BY <1>1, <1>2, <1>4, <1>5

(* Functions and numbers of characters, terminal by terminal.              *)
LEMMA BufferOf ==
  ASSUME PatientInv, NEW t \in Used
  PROVE  /\ kb_buf[t] \in Buffers /\ kb_buf_num[t] \in Nat
         /\ \E n \in Nat : /\ Filled(kb_buf[t], n)
                           /\ t \notin enter_flag => kb_buf_num[t] = n
                           /\ t \in enter_flag => kb_buf_num[t] = 0
                           /\ pc[t] = "take_enter" => n = 0
         /\ user_buf[t] = NoLine <=> pc[t] \notin {"clear_buf", "take_enter"}
BY PatientFacts DEF Buffered, BufferOK, GivenOK

(* The line is copied: the program is about to return with it.             *)
LEMMA Gives == ASSUME PatientInv, CopyLine PROVE Patient' /\ Lines!Give(shown)
<1> DEFINE s == shown
           text == Text(kb_buf[s])
<1>1. /\ UNCHANGED switchVars /\ UNCHANGED <<kb_buf, kb_buf_num, enter_flag, kb_exit_flag>>
      /\ At("copy", "clear_buf") /\ user_buf' = [user_buf EXCEPT ![terminal_curr] = text]
  BY DEF CopyLine, keyVars
<1>2. /\ terminal_curr = s /\ s \in Used /\ enter_flag = {s} /\ kb_exit_flag = {}
      /\ terminal_on_display_next = s
      /\ pc[s] = "copy" /\ pc'[s] = "clear_buf" /\ kb_buf_num[s] = 0
      /\ \A t \in Used : t # s => pc'[t] = pc[t] /\ ~Taking(t)
  BY <1>1, TakingStatement DEF PCs
<1>3. /\ s' = s /\ terminal_on_display_next' = terminal_on_display_next
  BY <1>1 DEF switchVars, shown
<1>4. user_buf = [t \in Used |-> user_buf[t]]
  BY PatientFacts
<1>5. text # NoLine
  BY <1>2, BufferOf, TextIs
<1> HIDE DEF text
<1>6. /\ user_buf'[s] = text /\ \A t \in Used : t # s => user_buf'[t] = user_buf[t]
      /\ user_buf' = [t \in Used |-> user_buf'[t]]
  BY <1>1, <1>2, <1>4
<1>7. Buffered'
  <2>1. ASSUME NEW t \in Used PROVE BufferOK(t)'
    <3>1. PICK n \in Nat : /\ Filled(kb_buf[t], n)
                           /\ t \notin enter_flag => kb_buf_num[t] = n
                           /\ t \in enter_flag => kb_buf_num[t] = 0
                           /\ pc[t] = "take_enter" => n = 0
      BY BufferOf
    <3>2. pc'[t] = "take_enter" => pc[t] = "take_enter"
      BY <1>2
    <3>3. Filled(kb_buf'[t], n)
      BY <1>1, <3>1
    <3> QED BY <1>1, <3>1, <3>2, <3>3 DEF BufferOK
  <2>2. ASSUME NEW t \in Used PROVE GivenOK(t)'
    BY <1>2, <1>5, <1>6, BufferOf DEF GivenOK
  <2> QED BY <2>1, <2>2 DEF Buffered
<1>8. OneAtATime'
  <2>1. \A t \in Used : t # s => ~Taking(t)'
    BY <1>2 DEF Taking
  <2>2. Testing(s)'
    BY <1>2, <1>3 DEF Testing, Taking
  <2> QED BY <1>1, <1>2, <1>3, <2>1, <2>2 DEF OneAtATime
<1>9. Line' = Line /\ Surplus' = Surplus
  BY <1>1 DEF Line, Surplus
<1>10. /\ Entered[s] = text /\ Entered'[s] = NoLine
       /\ \A t \in Used : t # s => Entered'[t] = Entered[t]
  BY <1>1, <1>2, MappingIs, MappingIsNext DEF MappingFacts, text
<1>11. Entered' = [Entered EXCEPT ![s] = NoLine]
  BY <1>2, <1>10, OneChanged, MappingIs, MappingIsNext DEF MappingFacts
<1>12. s \in Reading /\ Reading' = Reading
  <2>1. \A t : t \in Reading' <=> t \in Reading
    BY <1>2, MappingIs, MappingIsNext DEF MappingFacts
  <2> QED BY <1>2, <2>1, MappingIs DEF MappingFacts
<1>13. Lines!Give(s)
  <2>1. user_buf' = [user_buf EXCEPT ![s] = Entered[s]]
    BY <1>1, <1>2, <1>10
  <2> QED BY <1>3, <1>5, <1>9, <1>10, <1>11, <1>12, <2>1 DEF Lines!Give
<1> QED BY <1>6, <1>7, <1>8, <1>13 DEF Patient

(* The buffer is cleared: nothing of the line was left in it for the user.  *)
LEMMA Clears == ASSUME PatientInv, ClearBuffer PROVE Patient' /\ Seen
<1> DEFINE s == shown
<1>1. /\ UNCHANGED switchVars
      /\ UNCHANGED <<kb_buf_num, enter_flag, kb_exit_flag, user_buf>>
      /\ At("clear_buf", "take_enter") /\ kb_buf' = [kb_buf EXCEPT ![s] = Empty]
  BY DEF ClearBuffer
<1>2. /\ terminal_curr = s /\ s \in Used /\ enter_flag = {s} /\ kb_exit_flag = {}
      /\ terminal_on_display_next = s
      /\ pc[s] = "clear_buf" /\ pc'[s] = "take_enter" /\ kb_buf_num[s] = 0
      /\ \A t \in Used : t # s => pc'[t] = pc[t] /\ ~Taking(t)
  BY <1>1, TakingStatement DEF PCs
<1>3. /\ s' = s /\ terminal_on_display_next' = terminal_on_display_next
      /\ terminal_on_display_curr' = terminal_on_display_curr
  BY <1>1 DEF switchVars, shown
<1>4. /\ user_buf = [t \in Used |-> user_buf[t]] /\ kb_buf \in [Used -> Buffers]
  BY PatientFacts
<1>5. /\ kb_buf'[s] = Empty /\ \A t \in Used : t # s => kb_buf'[t] = kb_buf[t]
  BY <1>1, <1>2, <1>4
<1>6. Buffered'
  <2>1. ASSUME NEW t \in Used, t # s PROVE BufferOK(t)'
    <3>1. PICK n \in Nat : /\ Filled(kb_buf[t], n)
                           /\ t \notin enter_flag => kb_buf_num[t] = n
                           /\ t \in enter_flag => kb_buf_num[t] = 0
                           /\ pc[t] = "take_enter" => n = 0
      BY BufferOf
    <3>2. pc'[t] = "take_enter" => pc[t] = "take_enter"
      BY <1>2, <2>1
    <3>3. Filled(kb_buf'[t], n)
      BY <1>5, <2>1, <3>1
    <3> QED BY <1>1, <3>1, <3>2, <3>3 DEF BufferOK
  <2>2. BufferOK(s)'
    <3>1. Filled(kb_buf'[s], 0)
      BY <1>5, EmptyIs
    <3>2. kb_buf_num'[s] = 0 /\ 0 \in Nat
      BY <1>1, <1>2
    <3> QED BY <1>1, <1>2, <1>3, <3>1, <3>2 DEF BufferOK
  <2>3. ASSUME NEW t \in Used PROVE GivenOK(t)'
    BY <1>1, <1>2, BufferOf DEF GivenOK
  <2>4. ASSUME NEW t \in Used PROVE BufferOK(t)'
    <3>1. CASE t # s
      BY <2>1, <3>1
    <3>2. CASE t = s
      BY <1>3, <2>2, <3>2
    <3> QED BY <3>1, <3>2
  <2> QED BY <2>3, <2>4 DEF Buffered
<1>7. OneAtATime'
  <2>1. \A t \in Used : t # s => ~Taking(t)'
    BY <1>2 DEF Taking
  <2>2. Testing(s)'
    BY <1>2, <1>3 DEF Testing, Taking
  <2> QED BY <1>1, <1>2, <1>3, <2>1, <2>2 DEF OneAtATime
<1>8. Line' = Line
  <2>1. Line[s] = <<>> /\ Line'[s] = <<>>
    BY <1>1, <1>2, <1>4, <1>5, EmptyIs, MappingIs, MappingIsNext DEF MappingFacts
  <2>2. \A t \in Used : t # s => Line'[t] = Line[t]
    BY <1>1, <1>5, MappingIs, MappingIsNext DEF MappingFacts
  <2>3. \A t \in Used : Line'[t] = Line[t]
    BY <2>1, <2>2
  <2> QED BY <2>3, MappingIs, MappingIsNext DEF MappingFacts
<1>9. Surplus' = Surplus
  BY <1>1 DEF Surplus
<1>10. Entered' = Entered
  <2>1. \A t \in Used : Entered'[t] = Entered[t]
    BY <1>1, <1>2, <1>5, MappingIs, MappingIsNext DEF MappingFacts
  <2> QED BY <2>1, MappingIs, MappingIsNext DEF MappingFacts
<1>11. \A t \in Used : t \in Reading' <=> t \in Reading
  BY <1>2, MappingIs, MappingIsNext DEF MappingFacts
<1> QED BY <1>1, <1>3, <1>4, <1>6, <1>7, <1>8, <1>9, <1>10, <1>11, Unseen DEF Patient



(* The ENTER is taken and the read returns.                                *)
LEMMA Returns == ASSUME PatientInv, TakeEnter PROVE Patient' /\ Lines!Return(shown)
<1> DEFINE s == shown
<1>1. /\ UNCHANGED switchVars /\ UNCHANGED <<kb_buf, kb_buf_num, kb_exit_flag>>
      /\ At("take_enter", "user") /\ enter_flag' = enter_flag \ {s}
      /\ user_buf' = [user_buf EXCEPT ![terminal_curr] = NoLine]
  BY DEF TakeEnter
<1>2. /\ terminal_curr = s /\ s \in Used /\ enter_flag = {s} /\ kb_exit_flag = {}
      /\ terminal_on_display_next = s
      /\ pc[s] = "take_enter" /\ pc'[s] = "user" /\ kb_buf_num[s] = 0
      /\ \A t \in Used : t # s => pc'[t] = pc[t] /\ ~Taking(t)
  BY <1>1, TakingStatement DEF PCs
<1>3. /\ s' = s /\ terminal_on_display_next' = terminal_on_display_next
  BY <1>1 DEF switchVars, shown
<1>4. enter_flag' = {}
  BY <1>1, <1>2
<1>5. user_buf = [t \in Used |-> user_buf[t]]
  BY PatientFacts
<1>6. /\ user_buf'[s] = NoLine /\ \A t \in Used : t # s => user_buf'[t] = user_buf[t]
      /\ user_buf' = [t \in Used |-> user_buf'[t]]
      /\ user_buf' = [user_buf EXCEPT ![s] = NoLine]
  BY <1>1, <1>2, <1>5
<1>7. Buffered'
  <2>1. ASSUME NEW t \in Used PROVE BufferOK(t)'
    <3>1. PICK n \in Nat : /\ Filled(kb_buf[t], n)
                           /\ t \notin enter_flag => kb_buf_num[t] = n
                           /\ t \in enter_flag => kb_buf_num[t] = 0
                           /\ pc[t] = "take_enter" => n = 0
      BY BufferOf
    <3>2. kb_buf_num[t] = n
      BY <1>2, <3>1
    <3>3. pc'[t] # "take_enter"
      BY <1>2 DEF Taking
    <3>4. Filled(kb_buf'[t], n)
      BY <1>1, <3>1
    <3> QED BY <1>1, <1>4, <3>2, <3>3, <3>4 DEF BufferOK
  <2>2. ASSUME NEW t \in Used PROVE GivenOK(t)'
    BY <1>2, <1>6, BufferOf DEF GivenOK
  <2> QED BY <2>1, <2>2 DEF Buffered
<1>8. OneAtATime'
  <2>1. \A t \in Used : ~Taking(t)'
    BY <1>2 DEF Taking
  <2>2. \A t : t = s => ~Testing(t)'
    BY <1>2, <2>1 DEF Testing
  <2> QED BY <1>1, <1>2, <1>3, <1>4, <2>1, <2>2 DEF OneAtATime
<1>9. Line' = Line /\ Surplus' = Surplus
  BY <1>1 DEF Line, Surplus
<1>10. Entered' = Entered
  <2>1. \A t \in Used : Entered'[t] = NoLine /\ Entered[t] = NoLine
    BY <1>2, <1>4, MappingIs, MappingIsNext DEF MappingFacts
  <2>2. \A t \in Used : Entered'[t] = Entered[t]
    BY <2>1
  <2> QED BY <2>2, MappingIs, MappingIsNext DEF MappingFacts
<1>11. Reading' = Reading \ {s}
  <2>1. \A t : t \in Reading' <=> t \in Reading \ {s}
    BY <1>2, MappingIs, MappingIsNext DEF MappingFacts
  <2> QED BY <2>1
<1>12. user_buf[s] # NoLine
  BY <1>2, BufferOf
<1> QED BY <1>3, <1>6, <1>7, <1>8, <1>9, <1>10, <1>11, <1>12 DEF Patient, Lines!Return

(* A patient user finds nobody taking a line.                              *)
LEMMA SettledFacts ==
  ASSUME PatientInv, Settled
  PROVE  /\ shown \in Used /\ enter_flag = {} /\ kb_exit_flag = {}
         /\ terminal_on_display_next = shown
         /\ (\A t \in Used : ~Testing(t) /\ pc[t] \notin {"clear_buf", "take_enter"})
         /\ \A t \in Used : /\ kb_buf[t] \in Buffers /\ kb_buf_num[t] \in Nat
                            /\ Filled(kb_buf[t], kb_buf_num[t])
                            /\ Entered[t] = NoLine /\ user_buf[t] = NoLine
<1>1. /\ enter_flag = {} /\ kb_exit_flag = {} /\ terminal_on_display_next = shown
      /\ \A t \in Used : pc[t] \in {"user", "test_enter"}
  BY DEF Settled
<1>2. \A t \in Used : ~Testing(t) /\ pc[t] \notin {"clear_buf", "take_enter"}
  BY <1>1 DEF Testing, Taking
<1>3. ASSUME NEW t \in Used PROVE /\ kb_buf[t] \in Buffers /\ kb_buf_num[t] \in Nat
                                  /\ Filled(kb_buf[t], kb_buf_num[t])
                                  /\ Entered[t] = NoLine /\ user_buf[t] = NoLine
  <2>1. PICK n \in Nat : Filled(kb_buf[t], n) /\ kb_buf_num[t] = n
    BY <1>1, BufferOf
  <2>2. Filled(kb_buf[t], kb_buf_num[t])
    BY <2>1
  <2>3. Entered[t] = NoLine
    BY <1>1, MappingIs DEF MappingFacts
  <2> QED BY <1>2, <2>2, <2>3, BufferOf
<1> QED BY <1>1, <1>2, <1>3, PatientFacts

(* The line on show is edited: what the buffer and its count become.       *)
LEMMA Edited ==
  ASSUME PatientInv, Settled, NEW b, NEW n \in Nat, b \in Buffers, Filled(b, n),
         kb_buf' = [kb_buf EXCEPT ![shown] = b], kb_buf_num' = [kb_buf_num EXCEPT ![shown] = n],
         UNCHANGED <<switchVars, enter_flag, terminal_read_flag, kb_exit_flag, pc, user_buf>>
  PROVE  /\ Patient'
         /\ Line' = [Line EXCEPT ![shown] = LineIn(b, n)]
         /\ Surplus' = [Surplus EXCEPT ![shown] = n - Kept(n)]
         /\ Entered' = Entered /\ Reading' = Reading /\ shown' = shown /\ user_buf' = user_buf
<1> DEFINE s == shown
<1>1. /\ s \in Used /\ enter_flag = {} /\ kb_exit_flag = {} /\ terminal_on_display_next = s
      /\ (\A t \in Used : ~Testing(t) /\ pc[t] \notin {"clear_buf", "take_enter"})
      /\ \A t \in Used : Filled(kb_buf[t], kb_buf_num[t]) /\ user_buf[t] = NoLine
  BY SettledFacts
<1>2. /\ kb_buf \in [Used -> Buffers] /\ kb_buf_num \in [Used -> Nat]
      /\ user_buf = [t \in Used |-> user_buf[t]]
  BY PatientFacts
<1>3. s' = s /\ enter_flag' = {} /\ pc' = pc /\ user_buf' = user_buf
  BY <1>1 DEF switchVars, shown
<1>4. /\ kb_buf'[s] = b /\ kb_buf_num'[s] = n
      /\ \A t \in Used : t # s => kb_buf'[t] = kb_buf[t] /\ kb_buf_num'[t] = kb_buf_num[t]
  BY <1>1, <1>2
<1>5. \A t \in Used : kb_buf_num'[t] \in Nat
  BY <1>2, <1>4
<1>6. Buffered'
  <2>1. ASSUME NEW t \in Used PROVE Filled(kb_buf'[t], kb_buf_num'[t])
    <3>1. CASE t = s
      BY <1>4, <3>1
    <3>2. CASE t # s
      <4>1. Filled(kb_buf[t], kb_buf_num[t])
        BY <1>1
      <4> QED BY <1>4, <3>2, <4>1
    <3> QED BY <3>1, <3>2
  <2>2. ASSUME NEW t \in Used PROVE BufferOK(t)'
    <3>1. Filled(kb_buf'[t], kb_buf_num'[t]) /\ kb_buf_num'[t] \in Nat /\ pc'[t] # "take_enter"
          /\ t \notin enter_flag'
      BY <1>1, <1>3, <1>5, <2>1
    <3> QED BY <3>1 DEF BufferOK
  <2>3. ASSUME NEW t \in Used PROVE GivenOK(t)'
    BY <1>1, <1>3 DEF GivenOK
  <2> QED BY <2>2, <2>3 DEF Buffered
<1>7. OneAtATime'
  <2>1. s' \in Used /\ \A t \in Used : ~Testing(t)'
    BY <1>1, <1>3 DEF Testing, Taking
  <2> QED BY <1>3, <2>1, NobodyTestingNext
<1>8. Line' = [Line EXCEPT ![s] = LineIn(b, n)]
  <2>1. Line'[s] = LineIn(b, n) /\ \A t \in Used : t # s => Line'[t] = Line[t]
    BY <1>1, <1>4, MappingIs, MappingIsNext DEF MappingFacts
  <2> QED BY <1>1, <2>1, OneChanged, MappingIs, MappingIsNext DEF MappingFacts
<1>9. Surplus' = [Surplus EXCEPT ![s] = n - Kept(n)]
  <2>1. Surplus'[s] = n - Kept(n) /\ \A t \in Used : t # s => Surplus'[t] = Surplus[t]
    BY <1>1, <1>4, MappingIs, MappingIsNext DEF MappingFacts
  <2> QED BY <1>1, <2>1, OneChanged, MappingIs, MappingIsNext DEF MappingFacts
<1>10. Entered' = Entered
  <2>1. \A t \in Used : Entered'[t] = NoLine /\ Entered[t] = NoLine
    BY <1>1, <1>3, MappingIs, MappingIsNext DEF MappingFacts
  <2>2. \A t \in Used : Entered'[t] = Entered[t]
    BY <2>1
  <2> QED BY <2>2, MappingIs, MappingIsNext DEF MappingFacts
<1>11. Reading' = Reading
  BY <1>3 DEF Reading
<1> QED BY <1>2, <1>3, <1>6, <1>7, <1>8, <1>9, <1>10, <1>11 DEF Patient



(* The terminal on show waits for a line: it can be edited.                *)
LEMMA Editing ==
  ASSUME PatientInv, Settled, pc[shown] = "test_enter"
  PROVE  /\ Lines!Editable(shown) /\ shown \in Used
         /\ Line[shown] = LineIn(kb_buf[shown], kb_buf_num[shown])
         /\ Surplus[shown] = kb_buf_num[shown] - Kept(kb_buf_num[shown])
<1>1. shown \in Used /\ Entered[shown] = NoLine /\ user_buf[shown] = NoLine
  BY SettledFacts
<1>2. /\ shown \in Reading
      /\ Line[shown] = LineIn(kb_buf[shown], kb_buf_num[shown])
      /\ Surplus[shown] = kb_buf_num[shown] - Kept(kb_buf_num[shown])
  BY <1>1, MappingIs DEF MappingFacts
<1> QED BY <1>1, <1>2 DEF Lines!Editable

(* Characters typed into the line on show.                                 *)
LEMMA Adding ==
  ASSUME PatientInv, Settled, pc[shown] = "test_enter", HasRoom,
         NEW c \in Chars, NEW w \in Nat \ {0}, kb_buf_add(shown, c, w),
         UNCHANGED <<switchVars, enter_flag, terminal_read_flag, kb_exit_flag, pc, user_buf>>
  PROVE  /\ Patient' /\ Lines!Editable(shown) /\ shown \in Used
         /\ Len(Line[shown]) = kb_buf_num[shown] /\ kb_buf_num[shown] < KB_BUFFER
         /\ kb_buf_num[shown] \in Nat /\ Surplus[shown] = 0
         /\ Line' = [Line EXCEPT ![shown] =
                       Line[shown] \o Repeated(c, Kept(kb_buf_num[shown] + w) - kb_buf_num[shown])]
         /\ w = 1 => Line' = [Line EXCEPT ![shown] = Append(Line[shown], c)]
         /\ Surplus' = [Surplus EXCEPT ![shown] = (kb_buf_num[shown] + w) - Kept(kb_buf_num[shown] + w)]
         /\ Entered' = Entered /\ Reading' = Reading /\ shown' = shown /\ user_buf' = user_buf
<1> DEFINE s == shown
<1>1. PICK b, m : b = kb_buf[s] /\ m = kb_buf_num[s]
  OBVIOUS
<1>2. /\ Lines!Editable(s) /\ s \in Used
      /\ Line[s] = LineIn(b, m) /\ Surplus[s] = m - Kept(m)
  BY <1>1, Editing
<1>3. b \in Buffers /\ m \in Nat /\ Filled(b, m) /\ m < KB_BUFFER
  BY <1>1, <1>2, SettledFacts DEF HasRoom
<1>4. PICK b1 : b1 = Added(b, m, c, w)
  OBVIOUS
<1>5. PICK n : n = m + w
  OBVIOUS
<1>6. kb_buf' = [kb_buf EXCEPT ![s] = b1] /\ kb_buf_num' = [kb_buf_num EXCEPT ![s] = n]
  BY <1>1, <1>4, <1>5 DEF kb_buf_add, Added
<1>7. /\ b1 \in Buffers /\ Filled(b1, n) /\ n \in Nat
      /\ Kept(m) = m /\ Kept(n) > m
      /\ LineIn(b1, n) = LineIn(b, m) \o Repeated(c, Kept(n) - m)
      /\ w = 1 => LineIn(b1, n) = Append(LineIn(b, m), c)
  <2>1. /\ b1 \in Buffers /\ Filled(b1, m + w)
        /\ Kept(m) = m /\ Kept(m + w) > m
        /\ LineIn(b1, m + w) = LineIn(b, m) \o Repeated(c, Kept(m + w) - m)
        /\ w = 1 => LineIn(b1, m + w) = Append(LineIn(b, m), c)
    BY ZenonT(40), <1>3, <1>4, TypedLine
  <2> QED BY <1>3, <1>5, <2>1
<1>8. /\ Patient'
      /\ Line' = [Line EXCEPT ![s] = LineIn(b1, n)]
      /\ Surplus' = [Surplus EXCEPT ![s] = n - Kept(n)]
      /\ Entered' = Entered /\ Reading' = Reading /\ shown' = shown /\ user_buf' = user_buf
  BY <1>6, <1>7, Edited
<1>9. Len(Line[s]) = m /\ Surplus[s] = 0
  <2>1. Len(LineIn(b, m)) = Kept(m)
    BY <1>3, LineIs
  <2> QED BY <1>2, <1>3, <1>7, <2>1
<1>10. Line' = [Line EXCEPT ![s] = Line[s] \o Repeated(c, Kept(n) - m)]
  BY <1>2, <1>7, <1>8
<1>11. w = 1 => Line' = [Line EXCEPT ![s] = Append(Line[s], c)]
  BY <1>2, <1>7, <1>8
<1>12. Surplus' = [Surplus EXCEPT ![s] = (kb_buf_num[s] + w) - Kept(kb_buf_num[s] + w)]
  BY <1>1, <1>5, <1>8
<1>13. Kept(n) - m = Kept(kb_buf_num[s] + w) - kb_buf_num[s]
  BY <1>1, <1>5
<1>14. Line' = [Line EXCEPT ![s] =
                  Line[s] \o Repeated(c, Kept(kb_buf_num[s] + w) - kb_buf_num[s])]
  BY ONLY <1>10, <1>13
<1> QED BY <1>1, <1>2, <1>3, <1>8, <1>9, <1>11, <1>12, <1>14

LEMMA Types ==
  ASSUME PatientInv, Settled, pc[shown] = "test_enter", NEW c \in Chars, KeyChar(c)
  PROVE  Patient' /\ shown \in Used /\ Lines!Type(shown, c)
<1> DEFINE s == shown
           m == kb_buf_num[s]
<1>1. HasRoom /\ kb_buf_add(s, c, 1) /\ 1 \in Nat \ {0}
      /\ UNCHANGED <<switchVars, enter_flag, terminal_read_flag, kb_exit_flag, pc, user_buf>>
  BY DEF KeyChar
<1>2. /\ Patient' /\ Lines!Editable(s) /\ s \in Used
      /\ Len(Line[s]) = m /\ m < KB_BUFFER /\ m \in Nat /\ Surplus[s] = 0
      /\ Line' = [Line EXCEPT ![s] = Append(Line[s], c)]
      /\ Surplus' = [Surplus EXCEPT ![s] = (m + 1) - Kept(m + 1)]
      /\ Entered' = Entered /\ Reading' = Reading /\ shown' = shown /\ user_buf' = user_buf
  BY <1>1, Adding
<1> HIDE DEF m
<1>3. (m + 1) - Kept(m + 1) = 0
  BY <1>2, InputAssumption DEF Kept
<1>4. Surplus' = Surplus
  BY <1>2, <1>3, MappingIs DEF MappingFacts
<1> QED BY <1>2, <1>4 DEF Lines!Type

LEMMA Tabs ==
  ASSUME PatientInv, Settled, pc[shown] = "test_enter", KeyTab
  PROVE  Patient' /\ shown \in Used /\ Lines!Tab(shown)
<1> DEFINE s == shown
           m == kb_buf_num[s]
<1>1. HasRoom /\ kb_buf_add(s, Space, TabWidth) /\ TabWidth \in Nat \ {0} /\ Space \in Chars
      /\ UNCHANGED <<switchVars, enter_flag, terminal_read_flag, kb_exit_flag, pc, user_buf>>
  BY InputAssumption DEF KeyTab
<1>2. /\ Patient' /\ Lines!Editable(s) /\ s \in Used
      /\ Len(Line[s]) = m /\ m < KB_BUFFER /\ m \in Nat
      /\ Line' = [Line EXCEPT ![s] = Line[s] \o Repeated(Space, Kept(m + TabWidth) - m)]
      /\ Surplus' = [Surplus EXCEPT ![s] = (m + TabWidth) - Kept(m + TabWidth)]
      /\ Entered' = Entered /\ Reading' = Reading /\ shown' = shown /\ user_buf' = user_buf
  BY <1>1, Adding
<1> HIDE DEF m
<1> DEFINE fit == IF m + TabWidth <= KB_BUFFER THEN TabWidth ELSE KB_BUFFER - m
<1>3. Kept(m + TabWidth) - m = fit /\ (m + TabWidth) - Kept(m + TabWidth) = TabWidth - fit
  BY <1>1, <1>2, InputAssumption DEF Kept
<1>4. /\ Line' = [Line EXCEPT ![s] = Line[s] \o [i \in 1..fit |-> Space]]
      /\ Surplus' = [Surplus EXCEPT ![s] = TabWidth - fit]
  <2> HIDE DEF fit
  <2> QED BY <1>2, <1>3 DEF Repeated
<1> QED BY <1>2, <1>4 DEF Lines!Tab

LEMMA Erases ==
  ASSUME PatientInv, Settled, pc[shown] = "test_enter", KeyBackspace
  PROVE  Patient' /\ shown \in Used /\ Lines!Erase(shown)
<1> DEFINE s == shown
           m == kb_buf_num[s]
           b == kb_buf[s]
           b1 == IF m - 1 < KB_BUFFER THEN [b EXCEPT ![m] = Nul] ELSE b
<1>1. /\ Lines!Editable(s) /\ s \in Used
      /\ Line[s] = LineIn(b, m) /\ Surplus[s] = m - Kept(m)
  BY Editing
<1>2. b \in Buffers /\ m \in Nat \ {0} /\ Filled(b, m) /\ KB_BUFFER \in Nat
      /\ kb_buf \in [Used -> Buffers]
  BY <1>1, SettledFacts, PatientFacts DEF KeyBackspace
<1>3. /\ kb_buf_num' = [kb_buf_num EXCEPT ![s] = m - 1]
      /\ kb_buf' = IF m - 1 < KB_BUFFER THEN [kb_buf EXCEPT ![s][m] = Nul] ELSE kb_buf
      /\ UNCHANGED <<switchVars, enter_flag, terminal_read_flag, kb_exit_flag, pc, user_buf>>
  BY DEF KeyBackspace, kb_buf_remove_last_char
<1>4. kb_buf' = [kb_buf EXCEPT ![s] = b1]
  <2>1. CASE m - 1 < KB_BUFFER
    BY <1>3, <2>1
  <2>2. CASE ~(m - 1 < KB_BUFFER)
    <3>1. kb_buf' = kb_buf /\ b1 = kb_buf[s]
      BY <1>3, <2>2
    <3> HIDE DEF b1
    <3> QED BY <1>1, <1>2, <3>1
  <2> QED BY <2>1, <2>2
<1>5. /\ b1 \in Buffers /\ Filled(b1, m - 1)
      /\ m > KB_BUFFER => LineIn(b1, m - 1) = LineIn(b, m)
      /\ m <= KB_BUFFER => /\ LineIn(b, m) # <<>>
                           /\ LineIn(b1, m - 1) = SubSeq(LineIn(b, m), 1, Len(LineIn(b, m)) - 1)
  <2> HIDE DEF b, m
  <2> QED BY <1>2, ErasedLine
<1> HIDE DEF b, b1, m
<1>6. m - 1 \in Nat
  BY <1>2
<1>7. /\ Patient'
      /\ Line' = [Line EXCEPT ![s] = LineIn(b1, m - 1)]
      /\ Surplus' = [Surplus EXCEPT ![s] = m - 1 - Kept(m - 1)]
      /\ Entered' = Entered /\ Reading' = Reading /\ shown' = shown /\ user_buf' = user_buf
  BY <1>3, <1>4, <1>5, <1>6, Edited
<1>8. CASE m > KB_BUFFER
  <2>1. Surplus[s] > 0 /\ m - 1 - Kept(m - 1) = Surplus[s] - 1
    BY <1>1, <1>2, <1>8 DEF Kept
  <2>2. Line' = Line
    <3>1. LineIn(b1, m - 1) = Line[s]
      BY <1>1, <1>5, <1>8
    <3> QED BY <1>1, <1>7, <3>1, MappingIs DEF MappingFacts
  <2>3. Surplus' = [Surplus EXCEPT ![s] = Surplus[s] - 1]
    BY <1>7, <2>1
  <2> QED BY <1>1, <1>7, <2>1, <2>2, <2>3 DEF Lines!Erase
<1>9. CASE ~(m > KB_BUFFER)
  <2>1. Surplus[s] = 0 /\ m - 1 - Kept(m - 1) = 0 /\ m <= KB_BUFFER
    BY <1>1, <1>2, <1>9 DEF Kept
  <2>2. Surplus' = Surplus
    BY <1>1, <1>7, <2>1, MappingIs DEF MappingFacts
  <2>3. Line[s] # <<>> /\ Line' = [Line EXCEPT ![s] = SubSeq(Line[s], 1, Len(Line[s]) - 1)]
    BY <1>1, <1>5, <1>7, <2>1
  <2>4. ~(Surplus[s] > 0)
    BY <2>1
  <2> QED BY <1>1, <1>7, <2>2, <2>3, <2>4 DEF Lines!Erase
<1> QED BY <1>8, <1>9



(* ENTER hands the line over.                                              *)
LEMMA Enters ==
  ASSUME PatientInv, Settled, pc[shown] = "test_enter", KeyEnter
  PROVE  Patient' /\ shown \in Used /\ Lines!Enter(shown)
<1> DEFINE s == shown
<1>1. /\ enter_flag' = enter_flag \cup {s} /\ kb_buf_num' = [kb_buf_num EXCEPT ![s] = 0]
      /\ UNCHANGED switchVars
      /\ UNCHANGED <<kb_buf, terminal_read_flag, kb_exit_flag, pc, user_buf>>
  BY DEF KeyEnter
<1>2. /\ s \in Used /\ enter_flag = {} /\ kb_exit_flag = {} /\ terminal_on_display_next = s
      /\ (\A t \in Used : ~Testing(t) /\ pc[t] \notin {"clear_buf", "take_enter"})
      /\ \A t \in Used : /\ kb_buf[t] \in Buffers /\ kb_buf_num[t] \in Nat
                         /\ Filled(kb_buf[t], kb_buf_num[t])
                         /\ Entered[t] = NoLine /\ user_buf[t] = NoLine
  BY SettledFacts
<1>3. /\ kb_buf_num \in [Used -> Nat] /\ user_buf = [t \in Used |-> user_buf[t]]
  BY PatientFacts
<1>4. s' = s /\ terminal_on_display_next' = s /\ enter_flag' = {s}
  BY <1>1, <1>2 DEF switchVars, shown
<1>5. kb_buf_num'[s] = 0 /\ \A t \in Used : t # s => kb_buf_num'[t] = kb_buf_num[t]
  BY <1>1, <1>2, <1>3
<1>6. Buffered'
  <2>1. ASSUME NEW t \in Used PROVE BufferOK(t)'
    <3>1. Filled(kb_buf'[t], kb_buf_num[t]) /\ kb_buf_num[t] \in Nat
      <4>1. Filled(kb_buf[t], kb_buf_num[t]) /\ kb_buf_num[t] \in Nat
        BY <1>2
      <4> QED BY <1>1, <4>1
    <3>2. t \notin enter_flag' => kb_buf_num'[t] = kb_buf_num[t]
      BY <1>4, <1>5
    <3>3. t \in enter_flag' => kb_buf_num'[t] = 0
      BY <1>4, <1>5
    <3>4. pc'[t] # "take_enter"
      BY <1>1, <1>2
    <3> QED BY <3>1, <3>2, <3>3, <3>4 DEF BufferOK
  <2>2. ASSUME NEW t \in Used PROVE GivenOK(t)'
    BY <1>1, <1>2 DEF GivenOK
  <2> QED BY <2>1, <2>2 DEF Buffered
<1>7. OneAtATime'
  <2>1. \A t \in Used : ~Testing(t)' /\ ~Taking(t)'
    BY <1>1, <1>2 DEF Testing, Taking
  <2>2. pc'[s] = "test_enter"
    BY <1>1
  <2> QED BY <1>1, <1>2, <1>4, <2>1, <2>2 DEF OneAtATime
<1>8. Lines!Editable(s) /\ Line[s] = LineIn(kb_buf[s], kb_buf_num[s])
  BY Editing
<1>9. Text(kb_buf[s]) = Line[s]
  BY <1>2, <1>8, TextIs
<1>10. Line' = [Line EXCEPT ![s] = <<>>]
  <2>1. Line'[s] = <<>>
    <3>1. Line'[s] = LineIn(kb_buf'[s], kb_buf_num'[s])
      BY <1>2, MappingIsNext DEF MappingFacts
    <3>2. LineIn(kb_buf[s], 0) = <<>>
      BY <1>2, EmptyIs
    <3> QED BY <1>1, <1>5, <3>1, <3>2
  <2>2. \A t \in Used : t # s => Line'[t] = Line[t]
    BY <1>1, <1>5, MappingIs, MappingIsNext DEF MappingFacts
  <2> QED BY <1>2, <2>1, <2>2, OneChanged, MappingIs, MappingIsNext DEF MappingFacts
<1>11. Surplus' = [Surplus EXCEPT ![s] = 0]
  <2>1. Kept(0) = 0
    BY InputAssumption DEF Kept
  <2>2. Surplus'[s] = 0 /\ \A t \in Used : t # s => Surplus'[t] = Surplus[t]
    BY <1>2, <1>5, <2>1, MappingIs, MappingIsNext DEF MappingFacts
  <2> QED BY <1>2, <2>2, OneChanged, MappingIs, MappingIsNext DEF MappingFacts
<1>12. Entered' = [Entered EXCEPT ![s] = Line[s]]
  <2>1. Entered'[s] = Line[s] /\ \A t \in Used : t # s => Entered'[t] = Entered[t]
    BY <1>1, <1>2, <1>4, <1>9, MappingIs, MappingIsNext DEF MappingFacts
  <2> QED BY <1>2, <2>1, OneChanged, MappingIs, MappingIsNext DEF MappingFacts
<1>13. Reading' = Reading
  BY <1>1 DEF Reading
<1> QED BY <1>1, <1>2, <1>3, <1>4, <1>6, <1>7, <1>8, <1>10, <1>11, <1>12, <1>13
    DEF Patient, Lines!Enter

(* A program that is halted while nobody takes a line: it just stops       *)
(* reading.                                                                *)
LEMMA Stops ==
  ASSUME PatientInv, NEW n \in Used, Killed(n), enter_flag = {}, UNCHANGED enter_flag,
         \A t \in Used : ~Testing(t)
  PROVE  /\ user_buf' = user_buf /\ \A t \in Used : ~Testing(t)'
         /\ Reading' = Reading \ {n}
         /\ \A t \in Used : /\ pc'[t] \notin {"clear_buf", "take_enter"}
                            /\ user_buf[t] = NoLine
                            /\ Entered[t] = NoLine /\ Entered'[t] = NoLine
<1>1. /\ pc' = [pc EXCEPT ![n] = "user"] /\ user_buf' = [user_buf EXCEPT ![n] = NoLine]
  BY DEF Killed
<1>2. pc \in [Used -> PCs] /\ user_buf = [t \in Used |-> user_buf[t]]
  BY PatientFacts
<1>3. \A t \in Used : pc[t] \notin {"clear_buf", "take_enter"} /\ user_buf[t] = NoLine
  BY BufferOf DEF Testing, Taking
<1>4. pc'[n] = "user" /\ \A t \in Used : t # n => pc'[t] = pc[t]
  BY <1>1, <1>2
<1>5. \A t \in Used : ~Testing(t)' /\ pc'[t] \notin {"clear_buf", "take_enter"}
  BY <1>3, <1>4 DEF Testing, Taking
<1>6. user_buf' = user_buf
  <2>1. \A t \in Used : user_buf'[t] = user_buf[t]
    BY <1>1, <1>2, <1>3
  <2>2. user_buf' = [t \in Used |-> user_buf'[t]]
    BY <1>1, <1>2
  <2> QED BY <1>2, <2>1, <2>2
<1>7. Reading' = Reading \ {n}
  <2>1. \A t : t \in Reading' <=> t \in Reading \ {n}
    BY <1>4, MappingIs, MappingIsNext DEF MappingFacts
  <2> QED BY <2>1
<1>8. \A t \in Used : Entered[t] = NoLine /\ Entered'[t] = NoLine
  BY MappingIs, MappingIsNext DEF MappingFacts
<1> QED BY <1>3, <1>5, <1>6, <1>7, <1>8

(* Ctrl+C drops the line, whether the program is halted now or later.      *)
LEMMA Interrupts ==
  ASSUME PatientInv, Settled, KeyCtrlC
  PROVE  Patient' /\ shown \in Used /\ Lines!Interrupt(shown)
<1> DEFINE s == shown
<1>1. /\ kb_buf_num' = [kb_buf_num EXCEPT ![s] = 0] /\ kb_buf' = [kb_buf EXCEPT ![s] = Empty]
      /\ UNCHANGED switchVars /\ UNCHANGED <<enter_flag, terminal_read_flag>>
      /\ Killed(s) \/ UNCHANGED <<pc, user_buf>>
  <2>1. CASE terminal_curr = shown
    BY <2>1 DEF KeyCtrlC
  <2>2. CASE terminal_curr # shown
    BY <2>2 DEF KeyCtrlC
  <2> QED BY <2>1, <2>2
<1>2. /\ s \in Used /\ enter_flag = {} /\ terminal_on_display_next = s
      /\ (\A t \in Used : ~Testing(t) /\ pc[t] \notin {"clear_buf", "take_enter"})
      /\ \A t \in Used : /\ Filled(kb_buf[t], kb_buf_num[t]) /\ kb_buf_num[t] \in Nat
                         /\ Entered[t] = NoLine /\ user_buf[t] = NoLine
  BY SettledFacts
<1>3. /\ kb_buf \in [Used -> Buffers] /\ kb_buf_num \in [Used -> Nat]
      /\ user_buf = [t \in Used |-> user_buf[t]]
  BY PatientFacts
<1>4. s' = s /\ enter_flag' = {}
  BY <1>1, <1>2 DEF switchVars, shown
<1>5. /\ kb_buf_num'[s] = 0 /\ kb_buf'[s] = Empty
      /\ \A t \in Used : t # s => kb_buf_num'[t] = kb_buf_num[t] /\ kb_buf'[t] = kb_buf[t]
  BY <1>1, <1>2, <1>3
<1>6. /\ user_buf' = user_buf /\ \A t \in Used : ~Testing(t)'
      /\ Reading' \in {Reading, Reading \ {s}}
      /\ \A t \in Used : pc'[t] \notin {"clear_buf", "take_enter"} /\ Entered'[t] = NoLine
  <2>1. CASE Killed(s)
    BY <1>1, <1>2, <2>1, Stops
  <2>2. CASE UNCHANGED <<pc, user_buf>>
    <3>1. Reading' = Reading
      BY <2>2 DEF Reading
    <3>2. \A t \in Used : ~Testing(t)' /\ pc'[t] \notin {"clear_buf", "take_enter"}
      BY <1>2, <2>2 DEF Testing, Taking
    <3>3. \A t \in Used : Entered'[t] = NoLine
      BY <1>4, MappingIsNext DEF MappingFacts
    <3> QED BY <2>2, <3>1, <3>2, <3>3
  <2> QED BY <1>1, <2>1, <2>2
<1>7. Buffered'
  <2>1. ASSUME NEW t \in Used PROVE BufferOK(t)'
    <3>1. Filled(kb_buf'[t], kb_buf_num'[t]) /\ kb_buf_num'[t] \in Nat
      <4>1. CASE t = s
        BY <1>5, <4>1, EmptyIs
      <4>2. CASE t # s
        <5>1. Filled(kb_buf[t], kb_buf_num[t]) /\ kb_buf_num[t] \in Nat
          BY <1>2
        <5> QED BY <1>5, <4>2, <5>1
      <4> QED BY <4>1, <4>2
    <3>2. t \notin enter_flag' /\ pc'[t] # "take_enter"
      BY <1>4, <1>6
    <3> QED BY <3>1, <3>2 DEF BufferOK
  <2>2. ASSUME NEW t \in Used PROVE GivenOK(t)'
    BY <1>2, <1>6 DEF GivenOK
  <2> QED BY <2>1, <2>2 DEF Buffered
<1>8. OneAtATime'
  <2>1. s' \in Used
    BY <1>2, <1>4
  <2> QED BY <1>4, <1>6, <2>1, NobodyTestingNext
<1>9. Line' = [Line EXCEPT ![s] = <<>>]
  <2>1. Line'[s] = <<>> /\ \A t \in Used : t # s => Line'[t] = Line[t]
    BY <1>2, <1>5, EmptyIs, MappingIs, MappingIsNext DEF MappingFacts
  <2> QED BY <1>2, <2>1, OneChanged, MappingIs, MappingIsNext DEF MappingFacts
<1>10. Surplus' = [Surplus EXCEPT ![s] = 0]
  <2>1. Kept(0) = 0
    BY InputAssumption DEF Kept
  <2>2. Surplus'[s] = 0 /\ \A t \in Used : t # s => Surplus'[t] = Surplus[t]
    BY <1>2, <1>5, <2>1, MappingIs, MappingIsNext DEF MappingFacts
  <2> QED BY <1>2, <2>2, OneChanged, MappingIs, MappingIsNext DEF MappingFacts
<1>11. Entered' = Entered
  <2>1. \A t \in Used : Entered'[t] = Entered[t]
    BY <1>2, <1>6
  <2> QED BY <2>1, MappingIs, MappingIsNext DEF MappingFacts
<1>12. Entered[s] = NoLine /\ user_buf[s] = NoLine
  BY <1>2
<1> QED BY <1>2, <1>3, <1>4, <1>6, <1>7, <1>8, <1>9, <1>10, <1>11, <1>12 DEF Patient, Lines!Interrupt

(* The user asks for another terminal, or the timer refuses to start one.  *)
LEMMA Asks ==
  ASSUME PatientInv, UNCHANGED inputVars, UNCHANGED <<terminal_curr, terminal_on_display_curr>>,
         Settled \/ terminal_on_display_next' = terminal_on_display_curr
  PROVE  Patient' /\ Seen
<1>1. /\ UNCHANGED <<kb_buf, kb_buf_num, enter_flag, kb_exit_flag, pc, user_buf>>
      /\ shown' = shown /\ shown \in Used /\ OneAtATime /\ shown = terminal_on_display_curr
  BY PatientFacts DEF inputVars, keyVars, shown
<1>2. /\ Buffered' /\ user_buf' = [t \in Used |-> user_buf'[t]]
      /\ Line' = Line /\ Surplus' = Surplus /\ Entered' = Entered
  BY <1>1, SameBuffers DEF Copied
<1>3. OneAtATime'
  <2>1. \A t \in Used : (Testing(t)' <=> Testing(t)) /\ (Taking(t)' <=> Taking(t))
    BY <1>1 DEF Testing, Taking
  <2>2. CASE Settled
    <3>1. enter_flag' = {} /\ shown' \in Used /\ \A t \in Used : ~Testing(t)'
      BY <1>1, <2>1, <2>2, SettledFacts
    <3> QED BY <3>1, NobodyTestingNext
  <2>3. CASE terminal_on_display_next' = terminal_on_display_curr
    BY <1>1, <2>1, <2>3 DEF OneAtATime
  <2> QED BY <2>2, <2>3
<1>4. \A t \in Used : t \in Reading' <=> t \in Reading
  BY <1>1 DEF Reading
<1> QED BY <1>1, <1>2, <1>3, <1>4, Unseen DEF Patient

(* The timer: a halt that was pending ends a read, and another terminal    *)
(* comes on show only when nobody takes a line.                            *)
LEMMA Switches ==
  ASSUME PatientInv, NEW n \in Used, PitGoTo(n)
  PROVE  /\ Patient'
         /\ Seen \/ Lines!Show(n) \/ Lines!End(n)
<1> DEFINE s == shown
<1>1. /\ terminal_on_display_next' = terminal_on_display_next
      /\ terminal_on_display_curr' =
           IF n = terminal_on_display_next THEN n ELSE terminal_on_display_curr
      /\ UNCHANGED <<kb_buf, kb_buf_num, enter_flag>>
      /\ kb_exit_flag' = kb_exit_flag \ {n}
      /\ \/ n \in kb_exit_flag /\ Killed(n)
         \/ n \notin kb_exit_flag /\ UNCHANGED <<pc, user_buf>>
  <2>1. GoTo(n)
    BY DEF PitGoTo
  <2> QED BY <2>1 DEF PitGoTo, GoTo
<1>2. s \in Used /\ OneAtATime /\ s = terminal_on_display_curr
  BY PatientFacts
<1>3. /\ s' \in {s, n} /\ s' \in Used /\ s' = terminal_on_display_curr'
      /\ terminal_on_display_next = s => s' = s
  BY <1>1, <1>2 DEF shown
<1>4. CASE n \in kb_exit_flag /\ Killed(n)
  <2>1. enter_flag = {} /\ (\A t \in Used : ~Testing(t)) /\ enter_flag' = enter_flag
    BY <1>1, <1>2, <1>4 DEF OneAtATime
  <2>2. /\ user_buf' = user_buf /\ \A t \in Used : ~Testing(t)'
        /\ Reading' = Reading \ {n}
        /\ \A t \in Used : /\ pc'[t] \notin {"clear_buf", "take_enter"}
                           /\ user_buf[t] = NoLine
                           /\ Entered[t] = NoLine /\ Entered'[t] = NoLine
    BY <1>4, <2>1, Stops
  <2>3. \A t \in Used : pc[t] \notin {"clear_buf", "take_enter"}
    BY <2>1 DEF Testing, Taking
  <2>4. /\ Buffered' /\ user_buf' = [t \in Used |-> user_buf'[t]]
        /\ Line' = Line /\ Surplus' = Surplus /\ Entered' = Entered
    BY <1>1, <2>1, <2>2, <2>3, SameBuffers DEF Copied
  <2>5. OneAtATime'
    BY <1>3, <2>1, <2>2, NobodyTestingNext
  <2>6. Lines!End(n)
    BY <1>3, <2>2, <2>4 DEF Lines!End
  <2> QED BY <2>4, <2>5, <2>6 DEF Patient
<1>5. CASE n \notin kb_exit_flag /\ UNCHANGED <<pc, user_buf>>
  <2>1. /\ Buffered' /\ user_buf' = [t \in Used |-> user_buf'[t]]
        /\ Line' = Line /\ Surplus' = Surplus /\ Entered' = Entered
    BY <1>1, <1>5, SameBuffers DEF Copied
  <2>2. \A t \in Used : (Testing(t)' <=> Testing(t)) /\ (Taking(t)' <=> Taking(t))
    BY <1>5 DEF Testing, Taking
  <2>3. Reading' = Reading
    BY <1>5 DEF Reading
  <2>4. CASE s' = s
    <3>1. OneAtATime'
      BY <1>1, <1>2, <1>5, <2>2, <2>4 DEF OneAtATime
    <3>2. Seen
      BY <1>2, <1>3, <1>5, <2>1, <2>3, <2>4, Unseen
    <3> QED BY <2>1, <3>1, <3>2 DEF Patient
  <2>5. CASE s' # s
    <3>1. enter_flag = {} /\ \A t \in Used : ~Testing(t)
      BY <1>2, <1>3, <2>5 DEF OneAtATime
    <3>2. OneAtATime'
      BY <1>1, <1>3, <2>2, <3>1, NobodyTestingNext
    <3>3. Entered[s] = NoLine /\ user_buf[s] = NoLine
      <4>1. pc[s] \notin {"clear_buf", "take_enter"}
        BY <1>2, <3>1 DEF Testing, Taking
      <4> QED BY <1>2, <3>1, <4>1, BufferOf, MappingIs DEF MappingFacts
    <3>4. Lines!Show(n)
      BY <1>3, <1>5, <2>1, <2>3, <2>5, <3>3 DEF Lines!Show
    <3> QED BY <2>1, <3>2, <3>4 DEF Patient
  <2> QED BY <2>4, <2>5
<1> QED BY <1>1, <1>4, <1>5



(* Every step of the patient specification is a step of the full one and   *)
(* keeps the invariant; as the lines are seen, it is a step or a stutter.  *)
LEMMA PatientStep == PatientInv /\ [PatientNext]_vars => PatientInv' /\ Seen
<1> SUFFICES ASSUME PatientInv, [PatientNext]_vars PROVE PatientInv' /\ Seen
  OBVIOUS
<1>1. Inv'
  <2>1. [Next]_vars
    BY DEF PatientNext, Next
  <2> QED BY <2>1, NextInv DEF PatientInv
<1>2. Patient' /\ Seen
  <2>1. CASE UNCHANGED vars
    <3>1. UNCHANGED <<switchVars, inputVars>>
      BY <2>1 DEF vars
    <3>2. /\ UNCHANGED <<kb_buf, kb_buf_num, enter_flag, kb_exit_flag, pc, user_buf>>
          /\ UNCHANGED <<terminal_on_display_curr, terminal_on_display_next>>
      BY <3>1 DEF inputVars, keyVars, switchVars
    <3>3. /\ Buffered' /\ user_buf' = [t \in Used |-> user_buf'[t]]
          /\ Line' = Line /\ Surplus' = Surplus /\ Entered' = Entered
      BY <3>2, SameBuffers DEF Copied
    <3>4. OneAtATime'
      <4>1. \A t \in Used : (Testing(t)' <=> Testing(t)) /\ (Taking(t)' <=> Taking(t))
        BY <3>2 DEF Testing, Taking
      <4>2. shown' = shown /\ shown \in Used /\ OneAtATime
        BY <3>2, PatientFacts DEF shown
      <4> QED BY <3>2, <4>1, <4>2 DEF OneAtATime
    <3>5. \A t \in Used : t \in Reading' <=> t \in Reading
      BY <3>2 DEF Reading
    <3> QED BY <3>2, <3>3, <3>4, <3>5, Unseen DEF Patient
  <2>2. CASE Settled /\ KeyCtrlC
    BY <2>2, Interrupts DEF Seen, Lines!Next
  <2>3. ASSUME Settled, NEW t \in Used, Request(t), UNCHANGED inputVars PROVE Patient' /\ Seen
    BY <2>3, Asks DEF Request
  <2>4. ASSUME Settled, pc[shown] = "test_enter", NEW c \in Chars, KeyChar(c) PROVE Patient' /\ Seen
    BY <2>4, Types DEF Seen, Lines!Next
  <2>5. CASE Settled /\ pc[shown] = "test_enter" /\ KeyTab
    BY <2>5, Tabs DEF Seen, Lines!Next
  <2>6. CASE Settled /\ pc[shown] = "test_enter" /\ KeyBackspace
    BY <2>6, Erases DEF Seen, Lines!Next
  <2>7. CASE Settled /\ pc[shown] = "test_enter" /\ KeyEnter
    BY <2>7, Enters DEF Seen, Lines!Next
  <2>8. CASE (enter_flag = {} /\ ResetEnter) \/ ResetFull \/ RefuseBuffer
    BY <2>8, BeforeReading
  <2>9. CASE SetReadFlag
    BY <2>9, Starts, PatientFacts DEF Seen, Lines!Next
  <2>10. CASE TestEnter \/ TestShown \/ ClearReadFlag
    BY <2>10, Tests
  <2>11. CASE CopyLine
    BY <2>11, Gives, PatientFacts DEF Seen, Lines!Next
  <2>12. CASE ClearBuffer
    BY <2>12, Clears
  <2>13. CASE TakeEnter
    BY <2>13, Returns, PatientFacts DEF Seen, Lines!Next
  <2>14. ASSUME NEW n \in Used, PitGoTo(n) PROVE Patient' /\ Seen
    BY <2>14, Switches DEF Seen, Lines!Next
  <2>15. ASSUME NEW n \in Used, PitRefuse(n) PROVE Patient' /\ Seen
    BY <2>15, Asks DEF PitRefuse, Refuse
  <2> QED
    BY <2>1, <2>2, <2>3, <2>4, <2>5, <2>6, <2>7, <2>8, <2>9, <2>10, <2>11, <2>12, <2>13, <2>14,
       <2>15 DEF PatientNext, Typing, ReadStep, KeyAltFn
<1> QED BY <1>1, <1>2 DEF Patient, PatientInv

(* For a patient user, an ENTER waits only at the terminal on show, while   *)
(* the display stays there and no program is to be halted; one reader at   *)
(* most takes a line, and a buffer holds exactly what has been typed.      *)
THEOREM PatientCorrect == PatientSpec => []PatientInv
BY InitPatient, PatientStep, PTL DEF PatientSpec

(* For a patient user every line goes, whole and once, to the program that *)
(* reads on the terminal it was typed at, whatever the timer does between  *)
(* the statements of terminal_read(), for buffers and tabs of any size.    *)
THEOREM TerminalImplementsLines == PatientSpec => ImplementsLines
<1>1. PatientSpec => []PatientInv
  BY PatientCorrect
<1>2. PatientInv /\ [PatientNext]_vars => [Lines!Next]_Lines!vars
  BY PatientStep DEF Seen
<1>3. PatientSpec => Lines!Spec
  BY <1>1, <1>2, InitPatient, PTL DEF PatientSpec, Lines!Spec
<1> QED BY <1>3 DEF ImplementsLines
=============================================================================
