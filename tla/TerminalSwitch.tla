--------------------------- MODULE TerminalSwitch ---------------------------
(***************************************************************************)
(* What the rest of the kernel may assume of the scheduler: which terminal *)
(* runs, which one is on the screen, which one the user asked for, and     *)
(* which ones are in the round robin and have a process.  Scheduler        *)
(* implements it; the modules about the screen, the keyboard, the clock,   *)
(* the files and the programs are built on it.                             *)
(***************************************************************************)
EXTENDS Integers, FiniteSets

Terminals == 1..3

VARIABLES terminal_curr, terminal_on_display_curr, terminal_on_display_next,
          active,      \* the members of {2, 3} whose terminal_n_active flag is set
          started      \* the terminals that have a process

switchVars ==
  <<terminal_curr, terminal_on_display_curr, terminal_on_display_next, active, started>>

SwitchTypeOK ==
  /\ terminal_curr \in Terminals
  /\ terminal_on_display_curr \in Terminals
  /\ terminal_on_display_next \in Terminals
  /\ active \subseteq {2, 3}
  /\ started \subseteq Terminals

SwitchInit ==
  /\ terminal_curr = 1
  /\ terminal_on_display_curr = 1
  /\ terminal_on_display_next = 1
  /\ active = {}
  /\ started = {1}

\* Alt+Fn: t is the last of the keys that are down, and each of them puts its
\* terminal into the round robin.
Request(t) ==
  /\ terminal_on_display_next' = t
  /\ \E F \in SUBSET (1..(t - 1)) : active' = active \cup (({t} \cup F) \ {1})
  /\ UNCHANGED <<terminal_curr, terminal_on_display_curr, started>>

\* The CPU moves to terminal n of the round robin, which gets its first process
\* if it has none; n comes on the screen if the user asked for it.
GoTo(n) ==
  /\ n # terminal_curr
  /\ n \in {1} \cup active
  /\ terminal_curr' = n
  /\ started' = started \cup {n}
  /\ terminal_on_display_curr' =
       IF n = terminal_on_display_next THEN n ELSE terminal_on_display_curr
  /\ UNCHANGED <<terminal_on_display_next, active>>

\* No process can be started for terminal n, which leaves the round robin.
Refuse(n) ==
  /\ n \in active \ started
  /\ active' = active \ {n}
  /\ terminal_on_display_next' = terminal_on_display_curr
  /\ UNCHANGED <<terminal_curr, terminal_on_display_curr, started>>

SwitchNext == \E t \in Terminals : Request(t) \/ GoTo(t) \/ Refuse(t)

SwitchSpec == SwitchInit /\ [][SwitchNext]_switchVars

\* Every terminal that has a process gets the CPU again and again.
SwitchFairness ==
  \A t \in Terminals : SF_switchVars(t \in started /\ GoTo(t))

FairSwitchSpec == SwitchSpec /\ SwitchFairness
=============================================================================
