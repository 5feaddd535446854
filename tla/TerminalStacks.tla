--------------------------- MODULE TerminalStacks ---------------------------
(***************************************************************************)
(* What the scheduler promises to programs, without bitmaps, counters or   *)
(* saved contexts: every terminal holds a stack of processes.  A program   *)
(* started from another waits under it until it ends, the program above    *)
(* resumes exactly the one below, an empty stack gets a shell the first    *)
(* time the terminal runs and never becomes empty again, and only the      *)
(* stack of the running terminal moves.                                    *)
(***************************************************************************)
EXTENDS Integers, Sequences, FiniteSets

CONSTANT Names        \* names a process can have; no two live processes share one

Terminals == 1..3

VARIABLES stack,      \* the processes of each terminal, the running one last
          running     \* the terminal that has the CPU

vars == <<stack, running>>

Used == UNION {{stack[t][i] : i \in DOMAIN stack[t]} : t \in Terminals}
Fresh == Names \ Used
Top(t) == stack[t][Len(stack[t])]
Bottom(t) == SubSeq(stack[t], 1, Len(stack[t]) - 1)

Init == /\ \E p \in Names : stack = [t \in Terminals |-> IF t = 1 THEN <<p>> ELSE <<>>]
        /\ running = 1

\* The running program starts another one.
Start == \E p \in Fresh :
  /\ stack' = [stack EXCEPT ![running] = Append(@, p)]
  /\ UNCHANGED running

\* The program on top of t ends: the one below goes on, a last one is replaced.
End(t) ==
  \/ /\ Len(stack[t]) > 1
     /\ stack' = [stack EXCEPT ![t] = Bottom(t)]
  \/ /\ Len(stack[t]) = 1
     /\ \E p \in Fresh \cup {Top(t)} : stack' = [stack EXCEPT ![t] = <<p>>]

\* The CPU moves to another terminal, whose program goes on or is ended, or
\* which gets its first program.
Resume(t) ==
  /\ t # running
  /\ running' = t
  /\ \/ stack[t] # <<>> /\ UNCHANGED stack
     \/ stack[t] # <<>> /\ End(t)
     \/ stack[t] = <<>> /\ \E p \in Fresh : stack' = [stack EXCEPT ![t] = <<p>>]

Next == \/ Start
        \/ End(running) /\ UNCHANGED running
        \/ \E t \in Terminals : Resume(t)

Spec == Init /\ [][Next]_vars

=============================================================================
