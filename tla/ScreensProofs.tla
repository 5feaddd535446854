--------------------------- MODULE ScreensProofs ---------------------------
(***************************************************************************)
(* The video pages implement one screen per terminal, for any contents.    *)
(***************************************************************************)
EXTENDS Screens, TLAPS

Inv == TypeOK /\ MappingOK /\ UserMappingOK

LEMMA InitInv == Init => Inv
<1> SUFFICES ASSUME Init PROVE Inv
  OBVIOUS
<1> USE ScreenAssumption DEF Init, SwitchInit, Pages, Terminals, NotMapped
<1>1. SwitchTypeOK
  BY DEF SwitchTypeOK
<1>2. page \in [Pages -> Texts] /\ screen_pos \in [Pages -> Cursors]
  OBVIOUS
<1> QED BY <1>1, <1>2 DEF Inv, TypeOK, MappingOK, UserMappingOK

LEMMA NextInv == Inv /\ [Next]_vars => Inv'
<1> SUFFICES ASSUME Inv, [Next]_vars PROVE Inv'
  OBVIOUS
<1> USE ScreenAssumption DEF Inv, TypeOK, SwitchTypeOK, MappingOK, UserMappingOK, Pages,
        Terminals, NotMapped
<1>1. CASE putc
  BY <1>1 DEF putc, Drawn, switchVars
<1>2. CASE Vidmap
  BY <1>2 DEF Vidmap, switchVars
<1>3. CASE UserDraw
  BY <1>3 DEF UserDraw, switchVars
<1>4. CASE KeyEcho
  BY <1>4 DEF KeyEcho, DrawOnMonitor, change_video_phys_addr, RestoredEntry, switchVars
<1>5. ASSUME NEW t \in Terminals, KeyRequest(t) PROVE Inv'
  BY <1>5 DEF KeyRequest, Request, screenVars
<1>6. ASSUME NEW t \in Terminals, PitGoTo(t) PROVE Inv'
  <2>1. page' \in [Pages -> Texts]
    BY <1>6 DEF PitGoTo, save_restore_remap_video_mem, SwappedPages
  <2>2. screen_pos' \in [Pages -> Cursors] /\ hw_cursor' \in Cursors
    BY <1>6 DEF PitGoTo, SavedCursor
  <2>3. SwitchTypeOK'
    BY <1>6 DEF PitGoTo, GoTo
  <2>4. MappingOK' /\ UserMappingOK' /\ video_entry' \in Pages
    BY <1>6 DEF PitGoTo, GoTo, save_restore_remap_video_mem, change_video_phys_addr,
                RemappedEntry
  <2> QED BY <1>6, <2>1, <2>2, <2>3, <2>4 DEF PitGoTo
<1>7. ASSUME NEW t \in Terminals, PitRefuse(t) PROVE Inv'
  <2>1. SavedCursor(t) \in [Pages -> Cursors]
    BY DEF SavedCursor
  <2> QED BY <1>7, <2>1 DEF PitRefuse, Refuse, DrawOnMonitor, change_video_phys_addr,
                            RestoredEntry
<1>8. CASE UNCHANGED vars
  BY <1>8 DEF vars, switchVars, screenVars
<1> QED BY <1>1, <1>2, <1>3, <1>4, <1>5, <1>6, <1>7, <1>8 DEF Next

(* The mapping is that of the running terminal in every state.             *)
THEOREM Invariance == Spec => []Inv
<1> QED BY InitInv, NextInv, PTL DEF Spec

(* Printing always goes to the page of the terminal that prints.           *)
THEOREM MappingCorrect == Spec => []MappingOK
<1>1. Inv => MappingOK
  BY DEF Inv
<1> QED BY <1>1, Invariance, PTL

(* A vidmap() page is the program's own page or the monitor's.             *)
THEOREM UserMappingCorrect == Spec => []UserMappingOK
<1>1. Inv => UserMappingOK
  BY DEF Inv
<1> QED BY <1>1, Invariance, PTL

-----------------------------------------------------------------------------
(* A step that draws on the monitor writes the screen on show, one that    *)
(* draws on the running program's page writes the running terminal's.      *)
LEMMA WriteStep ==
  ASSUME Inv, NEW t \in {terminal_curr, terminal_on_display_curr},
         NEW x \in Texts, NEW p \in Cursors,
         \A s \in Terminals :
           /\ page'[PageOf(s)] = IF s = t THEN x ELSE page[PageOf(s)]
           /\ screen_pos'[PageOf(s)] = IF s = t THEN p ELSE screen_pos[PageOf(s)],
         UNCHANGED <<terminal_curr, terminal_on_display_curr, started>>
  PROVE  Logical!Write(t)
<1> USE DEF Inv, TypeOK, SwitchTypeOK, Terminals, Logical!Terminals
<1>1. \A s \in Terminals : PageOf(s)' = PageOf(s)
  BY DEF PageOf
<1>2. [s \in Terminals |-> page[PageOf(s)]]'
      = [[s \in Terminals |-> page[PageOf(s)]] EXCEPT ![t] = x]
  BY <1>1
<1>3. [s \in Terminals |-> screen_pos[PageOf(s)]]'
      = [[s \in Terminals |-> screen_pos[PageOf(s)]] EXCEPT ![t] = p]
  BY <1>1
<1> QED BY <1>2, <1>3 DEF Logical!Write

LEMMA LogicalStep ==
  ASSUME Inv, [Next]_vars
  PROVE  [Logical!Next]_(Logical!vars)
<1> USE DEF Inv, TypeOK, SwitchTypeOK, Terminals, Logical!Terminals, Pages
<1> DEFINE Same == UNCHANGED <<terminal_curr, terminal_on_display_curr, started>>
<1>1. ASSUME Logical!Write(terminal_curr) \/ Logical!Write(terminal_on_display_curr)
      PROVE  [Logical!Next]_(Logical!vars)
  BY <1>1 DEF Logical!Next
<1>2. ASSUME Same,
             \A s \in Terminals : /\ page'[PageOf(s)] = page[PageOf(s)]
                                  /\ screen_pos'[PageOf(s)] = screen_pos[PageOf(s)]
      PROVE  [Logical!Next]_(Logical!vars)
  <2>1. \A s \in Terminals : PageOf(s)' = PageOf(s)
    BY <1>2 DEF PageOf
  <2>2. [s \in Terminals |-> page[PageOf(s)]]' = [s \in Terminals |-> page[PageOf(s)]]
    BY <1>2, <2>1
  <2>3. [s \in Terminals |-> screen_pos[PageOf(s)]]'
        = [s \in Terminals |-> screen_pos[PageOf(s)]]
    BY <1>2, <2>1
  <2> QED BY <1>2, <2>2, <2>3 DEF Logical!vars
<1>3. ASSUME Same, NEW t \in {terminal_curr, terminal_on_display_curr},
             NEW x \in Texts, NEW p \in Cursors,
             \A s \in Terminals :
               /\ page'[PageOf(s)] = IF s = t THEN x ELSE page[PageOf(s)]
               /\ screen_pos'[PageOf(s)] = IF s = t THEN p ELSE screen_pos[PageOf(s)]
      PROVE  [Logical!Next]_(Logical!vars)
  <2>1. Logical!Write(t)
    BY <1>3, WriteStep
  <2>2. CASE t = terminal_curr
    BY <1>1, <2>1, <2>2
  <2>3. CASE t = terminal_on_display_curr
    BY <1>1, <2>1, <2>3
  <2> QED BY <2>2, <2>3
<1>4. /\ PageOf(terminal_curr) = video_entry /\ terminal_type = video_entry
      /\ PageOf(terminal_on_display_curr) = 0
      /\ \A s, t \in Terminals : PageOf(s) = PageOf(t) => s = t
      /\ \A s \in Terminals : PageOf(s) \in Pages /\ PageOf(s) # terminal_on_display_curr
  BY DEF MappingOK, PageOf
<1>5. CASE putc
  <2> PICK x \in Texts, p \in Cursors :
        /\ page' = [page EXCEPT ![video_entry] = x]
        /\ screen_pos' = [screen_pos EXCEPT ![terminal_type] = p]
    BY <1>5 DEF putc
  <2>1. \A s \in Terminals :
          /\ page'[PageOf(s)] = IF s = terminal_curr THEN x ELSE page[PageOf(s)]
          /\ screen_pos'[PageOf(s)] = IF s = terminal_curr THEN p ELSE screen_pos[PageOf(s)]
    BY <1>4
  <2>2. Same
    BY <1>5 DEF putc, switchVars
  <2> QED BY <1>3, <2>1, <2>2
<1>6. CASE Vidmap
  BY <1>2, <1>6 DEF Vidmap, switchVars
<1>7. CASE UserDraw
  <2> PICK x \in Texts : page' = [page EXCEPT ![user_entry] = x]
    BY <1>7 DEF UserDraw
  <2>1. PICK t \in {terminal_curr, terminal_on_display_curr} : PageOf(t) = user_entry
    BY <1>4, <1>7 DEF UserDraw, UserMappingOK
  <2>2. \A s \in Terminals :
          /\ page'[PageOf(s)] = IF s = t THEN x ELSE page[PageOf(s)]
          /\ screen_pos'[PageOf(s)] = IF s = t THEN screen_pos[PageOf(t)]
                                      ELSE screen_pos[PageOf(s)]
    BY <1>4, <1>7, <2>1 DEF UserDraw
  <2>3. Same /\ screen_pos[PageOf(t)] \in Cursors
    BY <1>4, <1>7, <2>1 DEF UserDraw, switchVars
  <2> QED BY <1>3, <2>2, <2>3
<1>8. ASSUME NEW pos \in [Pages -> Cursors],
             \A s \in Terminals : pos[PageOf(s)] = screen_pos[PageOf(s)],
             DrawOnMonitor(pos), Same
      PROVE  [Logical!Next]_(Logical!vars)
  <2> PICK x \in Texts, p \in Cursors :
        /\ page' = [page EXCEPT ![0] = x]
        /\ screen_pos' = [pos EXCEPT ![0] = p]
    BY <1>8 DEF DrawOnMonitor
  <2> DEFINE t == terminal_on_display_curr
  <2>1. \A s \in Terminals :
          /\ page'[PageOf(s)] = IF s = t THEN x ELSE page[PageOf(s)]
          /\ screen_pos'[PageOf(s)] = IF s = t THEN p ELSE screen_pos[PageOf(s)]
    BY <1>4, <1>8
  <2> QED BY <1>3, <1>8, <2>1
<1>9. CASE KeyEcho
  <2>1. Same
    BY <1>9 DEF KeyEcho, switchVars
  <2>2. CASE DrawOnMonitor(screen_pos)
    BY <1>8, <2>1, <2>2
  <2>3. CASE UNCHANGED <<page, screen_pos>>
    BY <1>2, <2>1, <2>3
  <2> QED BY <1>9, <2>2, <2>3 DEF KeyEcho
<1>10. ASSUME NEW n \in Terminals, KeyRequest(n) PROVE [Logical!Next]_(Logical!vars)
  BY <1>2, <1>10 DEF KeyRequest, Request, screenVars
<1>11. ASSUME NEW n \in Terminals, PitRefuse(n) PROVE [Logical!Next]_(Logical!vars)
  <2>1. Same
    BY <1>11 DEF PitRefuse, Refuse
  <2>2. /\ SavedCursor(n) \in [Pages -> Cursors]
        /\ \A s \in Terminals : SavedCursor(n)[PageOf(s)] = screen_pos[PageOf(s)]
    BY <1>4 DEF SavedCursor
  <2>3. CASE DrawOnMonitor(SavedCursor(n))
    BY <1>8, <2>1, <2>2, <2>3
  <2>4. CASE screen_pos' = SavedCursor(n) /\ UNCHANGED page
    BY <1>2, <2>1, <2>2, <2>4
  <2> QED BY <1>11, <2>3, <2>4 DEF PitRefuse
<1>12. ASSUME NEW n \in Terminals, PitGoTo(n) PROVE [Logical!Next]_(Logical!vars)
  <2> DEFINE shown == IF n \in started THEN screen_pos[n] ELSE Home
             d == terminal_on_display_curr
  <2>1. GoTo(n) /\ n # terminal_curr
    BY <1>12 DEF PitGoTo, GoTo
  <2>2. CASE Swaps(n)
    <3>1. /\ d' = n /\ n # d
          /\ page' = [page EXCEPT ![d] = page[0], ![0] = page[n]]
          /\ screen_pos' = [screen_pos EXCEPT ![d] = screen_pos[0], ![0] = shown]
      BY <1>12, <2>1, <2>2 DEF PitGoTo, Swaps, GoTo, save_restore_remap_video_mem,
                               SwappedPages, SavedCursor
    <3>2. \A s \in Terminals : page'[PageOf(s)'] = page[PageOf(s)]
      BY <3>1 DEF PageOf
    <3>3. \A s \in Terminals :
            screen_pos'[PageOf(s)'] = IF s = n THEN shown ELSE screen_pos[PageOf(s)]
      BY <3>1 DEF PageOf
    <3>4. [s \in Terminals |-> page[PageOf(s)]]' = [s \in Terminals |-> page[PageOf(s)]]
      BY <3>2
    <3>5. CASE n \in started
      <4>1. \A s \in Terminals : screen_pos'[PageOf(s)'] = screen_pos[PageOf(s)]
        BY <3>1, <3>3, <3>5 DEF PageOf
      <4>2. [s \in Terminals |-> screen_pos[PageOf(s)]]'
            = [s \in Terminals |-> screen_pos[PageOf(s)]]
        BY <4>1
      <4>3. Logical!Move(n)
        BY <2>1, <3>1, <3>4, <4>2 DEF Logical!Move, GoTo
      <4> QED BY <4>3 DEF Logical!Next
    <3>6. CASE n \notin started
      <4>1. [s \in Terminals |-> screen_pos[PageOf(s)]]'
            = [[s \in Terminals |-> screen_pos[PageOf(s)]] EXCEPT ![n] = Home]
        BY <3>3, <3>6
      <4>2. Logical!Move(n)
        BY <2>1, <3>1, <3>4, <3>6, <4>1, ScreenAssumption DEF Logical!Move, GoTo
      <4> QED BY <4>2 DEF Logical!Next
    <3> QED BY <3>5, <3>6
  <2>3. CASE ~Swaps(n)
    <3>1. UNCHANGED <<page, screen_pos, d>>
      BY <1>12, <2>1, <2>3 DEF PitGoTo, Swaps, GoTo, save_restore_remap_video_mem
    <3>2. \A s \in Terminals : PageOf(s)' = PageOf(s)
      BY <3>1 DEF PageOf
    <3>3. /\ [s \in Terminals |-> page[PageOf(s)]]' = [s \in Terminals |-> page[PageOf(s)]]
          /\ [s \in Terminals |-> screen_pos[PageOf(s)]]'
             = [s \in Terminals |-> screen_pos[PageOf(s)]]
      BY <3>1, <3>2
    <3>4. Logical!Move(n)
      BY <2>1, <3>1, <3>3 DEF Logical!Move, GoTo
    <3> QED BY <3>4 DEF Logical!Next
  <2> QED BY <2>2, <2>3
<1>13. CASE UNCHANGED vars
  BY <1>2, <1>13 DEF vars, switchVars, screenVars
<1> QED BY <1>5, <1>6, <1>7, <1>9, <1>10, <1>11, <1>12, <1>13 DEF Next

(* For any contents of the screens, copying pages at a switch, remapping   *)
(* the video address, echoing keys and refusing a terminal never lose, mix *)
(* up or overwrite the screen of a background terminal.                    *)
THEOREM ScreensImplementLogical == Spec => ImplementsLogicalScreens
<1>1. Init => Logical!Init
  BY ScreenAssumption
  DEF Init, SwitchInit, Logical!Init, PageOf, Pages, Terminals, Logical!Terminals
<1>2. Inv /\ [Next]_vars => [Logical!Next]_(Logical!vars)
  BY LogicalStep
<1> QED
  BY <1>1, <1>2, Invariance, PTL DEF Spec, ImplementsLogicalScreens, Logical!Spec

-----------------------------------------------------------------------------
(* Each step keeps the cursor with the screen on show, unless it leaves a  *)
(* background terminal running that the user has asked for.                *)
LEMMA CursorStep ==
  ASSUME Inv, [Next]_vars, hw_cursor = screen_pos[0],
         terminal_curr' \in {terminal_on_display_curr'}
                            \cup (Terminals \ {terminal_on_display_next'})
  PROVE  hw_cursor' = screen_pos'[0]
<1> USE DEF Inv, TypeOK, SwitchTypeOK, MappingOK, Pages, Terminals, NotMapped
<1>1. CASE putc
  BY <1>1 DEF putc, Drawn, switchVars
<1>2. CASE Vidmap
  BY <1>2 DEF Vidmap
<1>3. CASE UserDraw
  BY <1>3 DEF UserDraw
<1>4. CASE KeyEcho
  BY <1>4 DEF KeyEcho, DrawOnMonitor
<1>5. ASSUME NEW t \in Terminals, KeyRequest(t) PROVE hw_cursor' = screen_pos'[0]
  BY <1>5 DEF KeyRequest, screenVars
<1>6. ASSUME NEW t \in Terminals, PitGoTo(t) PROVE hw_cursor' = screen_pos'[0]
  <2>1. CASE Swaps(t)
    <3>1. SavedCursor(t) \in [Pages -> Cursors]
      BY DEF SavedCursor
    <3> QED BY <1>6, <2>1, <3>1 DEF PitGoTo
  <2>2. CASE ~Swaps(t)
    BY <1>6, <2>2 DEF PitGoTo
  <2> QED BY <2>1, <2>2
<1>7. ASSUME NEW t \in Terminals, PitRefuse(t) PROVE hw_cursor' = screen_pos'[0]
  <2>1. SavedCursor(t) \in [Pages -> Cursors] /\ SavedCursor(t)[0] = screen_pos[0]
    BY DEF SavedCursor
  <2> QED BY <1>7, <2>1 DEF PitRefuse, DrawOnMonitor
<1>8. CASE UNCHANGED vars
  BY <1>8 DEF vars, screenVars
<1> QED BY <1>1, <1>2, <1>3, <1>4, <1>5, <1>6, <1>7, <1>8 DEF Next

(* The hardware cursor is led astray only by a background terminal that    *)
(* has been asked for, whatever the screens hold.                          *)
THEOREM CursorCorrect == Spec => CursorFollows
<1>1. Inv /\ [Next]_vars =>
        [/\ hw_cursor = screen_pos[0]
         /\ terminal_curr' \in {terminal_on_display_curr'}
                               \cup (Terminals \ {terminal_on_display_next'})
         => hw_cursor' = screen_pos'[0]]_vars
  BY CursorStep
<1> QED BY <1>1, Invariance, PTL DEF Spec, CursorFollows
=============================================================================
