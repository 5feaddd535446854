----------------------------- MODULE Scheduler -----------------------------
(***************************************************************************)
(* Processes, terminals and the round-robin scheduler of the kernel:       *)
(* halt() and execute() (system_calls.c), the PIT handler (pit_init.c),    *)
(* the two keyboard chords that reach the scheduler, Alt+Fn and Ctrl+C     *)
(* (keyboard.c), and the one store of terminal_read() that may reach it.   *)
(*                                                                         *)
(* Each terminal runs a stack of processes: the shell at the bottom, the   *)
(* program on display at the top, linked by parentId.  Only the top of the *)
(* stack of terminal_curr is on the CPU.  Every handler and every system   *)
(* call modelled here runs with interrupts disabled (the IDT holds         *)
(* interrupt gates and none of these paths executes sti before it has      *)
(* finished its updates), so a whole handler is one step.                  *)
(*                                                                         *)
(* A kernel stack is named by the pid whose 8 kB block holds it, the user  *)
(* page by the pid whose 4 MB frame is mapped at 128 MB, and a saved stack *)
(* pointer by the kernel stack it points into.                             *)
(***************************************************************************)
EXTENDS Integers, Sequences, FiniteSets

CONSTANT NumPids      \* how many processes the kernel can hold; 6 in the code

ASSUME NumPidsAssumption == NumPids \in Nat \ {0}

Terminals == 1..3
Pids == 0..(NumPids - 1)
NoPid == -1

VARIABLES
  PID,                       \* PID[0]: live processes minus one; PID[t]: top of terminal t
  pid_bitmap,                \* the terminal that owns each pid, 0 if the pid is free
  parentId,                  \* PCB field: pid of the process that ran execute(), or NoPid
  old_esp,                   \* PCB field: kernel stack the parent waits on
  schedule_esp,              \* PCB field: kernel stack the PIT handler saved
  state,                     \* PCB field: 1 if marked active
  tss_esp0,                  \* kernel stack the CPU switches to on a user-mode trap
  esp,                       \* kernel stack the next handler runs on
  user_page,                 \* pid whose frame is mapped at the user page
  terminal_curr,             \* the terminal that runs
  terminal_next,             \* the terminal scheduled to run next
  terminal_on_display_curr,  \* the terminal on the screen
  terminal_on_display_next,  \* the terminal the user asked for last
  active,                    \* the members of {2, 3} whose terminal_n_active flag is set
  kb_exit_flag               \* terminals whose top is to be halted when next scheduled

procVars    == <<PID, pid_bitmap, parentId, old_esp, state>>
contextVars == <<schedule_esp, tss_esp0, esp, user_page>>
displayVars == <<terminal_on_display_curr, terminal_on_display_next, active>>
vars == <<procVars, contextVars, displayVars, terminal_curr, terminal_next, kb_exit_flag>>

Live == {p \in Pids : pid_bitmap[p] # 0}

-----------------------------------------------------------------------------
(* Helpers                                                                 *)

\* Mutants: the pid is the number of live processes; the highest free pid.
IsNextAvailByCount(bitmap, p) == p = Cardinality({q \in Pids : bitmap[q] # 0})
IsNextAvailFromTop(bitmap, p) ==
  /\ bitmap[p] = 0
  /\ \A q \in Pids : q > p => bitmap[q] # 0

\* The lowest pid whose bitmap entry is 0, as a relation.
IsNextAvail(bitmap, p) ==
  /\ bitmap[p] = 0
  /\ \A q \in Pids : q < p => bitmap[q] # 0

\* execute() and the PIT handler refuse to start a process beyond NumPids.
AtLimit == PID[0] = NumPids - 1 \/ \A p \in Pids : pid_bitmap[p] # 0

\* Mutant: halt() forgets to clear the bitmap.
NotFreed(bitmap, p) == bitmap

\* halt() gives the pid back.
Freed(bitmap, p) == [bitmap EXCEPT ![p] = 0]

\* Mutants: terminals 2 and 3 share one turn; the turn wraps to 0.
SharedTurn(t) == CASE t = 1 /\ 2 \in active -> 2
                   [] t = 1 /\ 2 \notin active /\ 3 \in active -> 3
                   [] OTHER -> 1
TurnWrapsToZero(t) == IF t < 3 /\ t + 1 \in active THEN t + 1 ELSE (t + 1) % 4

\* Which terminal the round robin visits after t.
set_terminal_next(t) ==
  CASE t = 1 /\ 2 \in active              -> 2
    [] t = 1 /\ 2 \notin active /\ 3 \in active -> 3
    [] t = 2 /\ 3 \in active              -> 3
    [] OTHER                              -> 1

\* Mutant: the context goes to the PCB of the process to be resumed.
SavedInNext == [schedule_esp EXCEPT ![PID[set_terminal_next(terminal_curr)]] = esp]

\* The PIT handler saves the stack it runs on in the PCB of the running process.
SavedContext == [schedule_esp EXCEPT ![PID[terminal_curr]] = esp]

\* execute() past its checks: parent is PID[t] as it finds it, count, bitmap,
\* sched and st are the values of PID[0], pid_bitmap, schedule_esp and state it
\* starts from.  The PCB execute() marks inactive is the one just above the new
\* PCB, that of pid p - 1, whoever owns it.  The process starts in user mode,
\* so the next trap lands on its own kernel stack.
Launch(t, parent, count, bitmap, sched, st) ==
  \E p \in Pids :
    /\ IsNextAvail(bitmap, p)
    /\ PID' = [PID EXCEPT ![0] = count + 1, ![t] = p]
    /\ pid_bitmap' = [bitmap EXCEPT ![p] = t]
    /\ parentId' = [parentId EXCEPT ![p] = parent]
    /\ old_esp' = [old_esp EXCEPT ![p] = IF parent = NoPid THEN NoPid ELSE tss_esp0]
    /\ schedule_esp' = [sched EXCEPT ![p] = NoPid]
    /\ state' = [q \in Pids |-> IF q = p THEN 1
                                ELSE IF parent # NoPid /\ q = p - 1 THEN 0
                                ELSE st[q]]
    /\ user_page' = p
    /\ tss_esp0' = p
    /\ esp' = p

\* halt() in a process with a parent: the parent becomes the top of the
\* terminal and goes on in user mode.
ReturnToParent(t, sched) ==
  LET p == PID[t]
      q == parentId[p]
  IN  /\ q # NoPid
      /\ PID' = [PID EXCEPT ![0] = @ - 1, ![t] = q]
      /\ pid_bitmap' = Freed(pid_bitmap, p)
      /\ state' = [state EXCEPT ![p] = 0, ![q] = 1]
      /\ schedule_esp' = sched
      /\ user_page' = q
      /\ tss_esp0' = q
      /\ esp' = q
      /\ UNCHANGED <<parentId, old_esp>>

\* halt() in the first process of a terminal: a new shell replaces it.
Respawn(t, sched) ==
  LET p == PID[t]
  IN  /\ parentId[p] = NoPid
      /\ Launch(t, NoPid, PID[0] - 1, Freed(pid_bitmap, p), sched,
                [state EXCEPT ![p] = 0])

HaltTop(t, sched) == ReturnToParent(t, sched) \/ Respawn(t, sched)

-----------------------------------------------------------------------------
(* The system right after the boot's user_execute("shell")                 *)

Init ==
  /\ PID = [i \in 0..3 |-> IF i \in {0, 1} THEN 0 ELSE NoPid]
  /\ pid_bitmap = [p \in Pids |-> IF p = 0 THEN 1 ELSE 0]
  /\ parentId = [p \in Pids |-> NoPid]
  /\ old_esp = [p \in Pids |-> NoPid]
  /\ schedule_esp = [p \in Pids |-> NoPid]
  /\ state = [p \in Pids |-> IF p = 0 THEN 1 ELSE 0]
  /\ tss_esp0 = 0 /\ esp = 0 /\ user_page = 0
  /\ terminal_curr = 1 /\ terminal_next = 1
  /\ terminal_on_display_curr = 1 /\ terminal_on_display_next = 1
  /\ active = {} /\ kb_exit_flag = {}

-----------------------------------------------------------------------------
(* System calls of the running process                                     *)

\* execute() of an existing program file; the calls it refuses change nothing here.
Execute ==
  /\ ~AtLimit
  /\ Launch(terminal_curr, PID[terminal_curr], PID[0], pid_bitmap, schedule_esp, state)
  /\ UNCHANGED <<displayVars, terminal_curr, terminal_next, kb_exit_flag>>

\* halt(), called by the program or by an exception handler.
Halt ==
  /\ HaltTop(terminal_curr, schedule_esp)
  /\ UNCHANGED <<displayVars, terminal_curr, terminal_next, kb_exit_flag>>

\* terminal_read() clears kb_buf_full_flag[terminal_on_display_curr], one entry
\* too far: with terminal 3 on show, the word past the end of the array.  The
\* build that lays out keyboard.c's variables as they are declared has
\* kb_exit_flag there; any other has something this model does not hold.
TerminalRead ==
  /\ terminal_on_display_curr = 3
  /\ kb_exit_flag' \in {kb_exit_flag, {}}
  /\ UNCHANGED <<procVars, contextVars, displayVars, terminal_curr, terminal_next>>

-----------------------------------------------------------------------------
(* Keyboard interrupts                                                     *)

\* An interrupt while Alt and the function keys of the set F are down (with none
\* down it changes nothing): every key of F is looked at, F3 last.
AltFn(F) ==
  /\ F # {}
  /\ terminal_on_display_next' = IF 3 \in F THEN 3 ELSE IF 2 \in F THEN 2 ELSE 1
  /\ active' = active \cup (F \ {1})
  /\ UNCHANGED <<procVars, contextVars, terminal_on_display_curr, terminal_curr,
                 terminal_next, kb_exit_flag>>

\* Mutants: the displayed terminal is flagged even when it runs; it is halted
\* at once even when it does not run.
CtrlCAlwaysDeferred ==
  /\ kb_exit_flag' = kb_exit_flag \cup {terminal_on_display_curr}
  /\ UNCHANGED <<procVars, contextVars, displayVars, terminal_curr, terminal_next>>
CtrlCNeverDeferred ==
  /\ HaltTop(terminal_on_display_curr, schedule_esp)
  /\ UNCHANGED <<displayVars, terminal_curr, terminal_next, kb_exit_flag>>

\* Ctrl+C on the running terminal halts at once, on another one when it runs next.
CtrlC ==
  \/ /\ terminal_curr = terminal_on_display_curr
     /\ Halt
  \/ /\ terminal_curr # terminal_on_display_curr
     /\ kb_exit_flag' = kb_exit_flag \cup {terminal_on_display_curr}
     /\ UNCHANGED <<procVars, contextVars, displayVars, terminal_curr, terminal_next>>

-----------------------------------------------------------------------------
(* Timer interrupts                                                        *)

Candidate == set_terminal_next(terminal_curr)

\* Mutant: the terminal asked for comes on the screen at the next switch.
ShowAtOnce(n) ==
  /\ terminal_on_display_curr' = terminal_on_display_next
  /\ UNCHANGED <<terminal_on_display_next, active>>

\* The terminal asked for comes on the screen when the scheduler reaches it.
ShowIfRequested(n) ==
  /\ terminal_on_display_curr' =
       IF n = terminal_on_display_next THEN n ELSE terminal_on_display_curr
  /\ UNCHANGED <<terminal_on_display_next, active>>

PitStay ==
  /\ Candidate = terminal_curr
  /\ terminal_next' = Candidate
  /\ UNCHANGED <<procVars, contextVars, displayVars, terminal_curr, kb_exit_flag>>

\* No process can be started for the terminal: it is no longer active and the
\* pending display request is dropped.
PitLimit ==
  /\ Candidate # terminal_curr
  /\ PID[Candidate] = NoPid
  /\ PID[0] >= NumPids - 1
  /\ schedule_esp' = SavedContext
  /\ active' = active \ {Candidate}
  /\ terminal_on_display_next' = terminal_on_display_curr
  /\ terminal_next' = terminal_curr
  /\ UNCHANGED <<procVars, tss_esp0, esp, user_page, terminal_on_display_curr,
                 terminal_curr, kb_exit_flag>>

\* First visit to a terminal: it gets its shell.
PitCreate ==
  /\ Candidate # terminal_curr
  /\ PID[Candidate] = NoPid
  /\ PID[0] < NumPids - 1
  /\ ShowIfRequested(Candidate)
  /\ terminal_curr' = Candidate
  /\ terminal_next' = Candidate
  /\ Launch(Candidate, NoPid, PID[0], pid_bitmap, SavedContext, state)
  /\ UNCHANGED kb_exit_flag

\* The part of a switch to terminal n common to both its ends.
SwitchTo(n) ==
  /\ n # terminal_curr
  /\ PID[n] # NoPid
  /\ ShowIfRequested(n)
  /\ terminal_curr' = n
  /\ terminal_next' = n

\* The process resumed goes on where it was: in a kernel loop on the stack the
\* PIT saved, or in user mode, where the next trap lands on tss.esp0.
PitSwitch ==
  /\ SwitchTo(Candidate)
  /\ Candidate \notin kb_exit_flag
  /\ schedule_esp' = SavedContext
  /\ tss_esp0' = PID[Candidate]
  /\ user_page' = PID[Candidate]
  /\ esp' \in {schedule_esp[PID[Candidate]], PID[Candidate]}
  /\ UNCHANGED <<procVars, kb_exit_flag>>

\* Mutant: the flag is cleared and the process simply resumed.
PitSwitchForgetsHalt ==
  /\ SwitchTo(Candidate)
  /\ Candidate \in kb_exit_flag
  /\ kb_exit_flag' = kb_exit_flag \ {Candidate}
  /\ schedule_esp' = SavedContext
  /\ tss_esp0' = PID[Candidate] /\ user_page' = PID[Candidate] /\ esp' = PID[Candidate]
  /\ UNCHANGED procVars

\* Mutant: the process that is switched out is halted.
PitSwitchHaltsOutgoing ==
  /\ SwitchTo(Candidate)
  /\ Candidate \in kb_exit_flag
  /\ kb_exit_flag' = kb_exit_flag \ {Candidate}
  /\ HaltTop(terminal_curr, SavedContext)

\* A Ctrl+C was pending: the process resumed is halted instead.
PitSwitchAndHalt ==
  /\ SwitchTo(Candidate)
  /\ Candidate \in kb_exit_flag
  /\ kb_exit_flag' = kb_exit_flag \ {Candidate}
  /\ HaltTop(Candidate, SavedContext)

Pit == PitStay \/ PitLimit \/ PitCreate \/ PitSwitch \/ PitSwitchAndHalt

-----------------------------------------------------------------------------
Next ==
  \/ Execute
  \/ Halt
  \/ TerminalRead
  \/ \E F \in SUBSET Terminals : AltFn(F)
  \/ CtrlC
  \/ Pit

Spec == Init /\ [][Next]_vars

Switch == PitCreate \/ PitSwitch \/ PitSwitchAndHalt

\* Every handler ends with interrupts enabled and the PIT is never masked, so
\* timer interrupts keep coming.  They come at 1193182/20 Hz, far faster than a
\* keyboard repeats a key, so Alt+Fn cannot get in before each of them: a
\* switch that is possible again and again happens.
FairSpec == Spec /\ WF_vars(Pit) /\ SF_vars(Switch)

-----------------------------------------------------------------------------
(* Invariants                                                              *)

\* Every variable stays in the range the C code's arrays and fields assume.
TypeOK ==
  /\ PID \in [0..3 -> -1..(NumPids - 1)] /\ PID[0] >= 0
  /\ pid_bitmap \in [Pids -> 0..3]
  /\ parentId \in [Pids -> Pids \cup {NoPid}]
  /\ old_esp \in [Pids -> Pids \cup {NoPid}]
  /\ schedule_esp \in [Pids -> Pids \cup {NoPid}]
  /\ state \in [Pids -> {0, 1}]
  /\ tss_esp0 \in Pids /\ esp \in Pids /\ user_page \in Pids
  /\ terminal_curr \in Terminals /\ terminal_next \in Terminals
  /\ terminal_on_display_curr \in Terminals /\ terminal_on_display_next \in Terminals
  /\ active \subseteq {2, 3}
  /\ kb_exit_flag \subseteq Terminals

\* PID[0], which halt() and execute() count down and up, agrees with the bitmap
\* the pids come from.
CountOK == PID[0] + 1 = Cardinality(Live)

\* The top of every terminal is a live process of that terminal.
TopsOwned == \A t \in Terminals : PID[t] # NoPid => pid_bitmap[PID[t]] = t

\* A parent is alive, in the terminal of its child: halt() always has a
\* process to return to.
ParentsOwned ==
  \A p \in Live : parentId[p] # NoPid => pid_bitmap[parentId[p]] = pid_bitmap[p]

\* No process of a terminal has two children and no terminal has two shells at
\* its bottom: the processes of a terminal form a single stack.
SingleStack ==
  \A p, q \in Live : pid_bitmap[p] = pid_bitmap[q] /\ parentId[p] = parentId[q] => p = q

\* The process that runs in a terminal waits for no child, and a terminal
\* without a top has no live process.
TopsHaveNoChild ==
  \A p \in Live : PID[pid_bitmap[p]] # NoPid /\ parentId[p] # PID[pid_bitmap[p]]

\* Pid 0 never leaves the first shell of terminal 1, however often that shell is
\* halted: get_parent_pcb_process() of a process with a parent never lies beyond
\* the kernel page.
PidZeroReserved == pid_bitmap[0] = 1 /\ parentId[0] = NoPid

\* The processes of each terminal form one stack whose top is PID[t].
StacksOK == TopsOwned /\ ParentsOwned /\ SingleStack /\ TopsHaveNoChild

\* The CPU is on the kernel stack of the process it runs, with its page mapped,
\* and traps will land on that stack; every other terminal has its own stack
\* saved by the PIT; a waiting parent waits on its own stack.
ContextOK ==
  /\ tss_esp0 = PID[terminal_curr]
  /\ esp = PID[terminal_curr]
  /\ user_page = PID[terminal_curr]
  /\ \A t \in Terminals \ {terminal_curr} :
       PID[t] # NoPid => schedule_esp[PID[t]] = PID[t]
  /\ \A p \in Live : old_esp[p] = parentId[p]

\* The running and the displayed terminal have a process, a terminal with a
\* process stays in the round robin, and so does the one the user asked for.
DisplayOK ==
  /\ terminal_next = terminal_curr
  /\ PID[terminal_curr] # NoPid
  /\ PID[terminal_on_display_curr] # NoPid
  /\ PID[1] # NoPid
  /\ \A t \in {2, 3} : PID[t] # NoPid => t \in active
  /\ terminal_on_display_next \in {1} \cup active

\* A halt is pending only for a terminal that has a process and does not run.
ExitFlagOK == \A t \in kb_exit_flag : PID[t] # NoPid /\ t # terminal_curr

-----------------------------------------------------------------------------
(* Action properties                                                       *)

\* Only the terminal that runs when a handler returns has had its stack of
\* processes changed by it, and no terminal ever loses its last process.
OnlyRunningStackChanges ==
  [][\A t \in Terminals :
       /\ PID'[t] # PID[t] => t = terminal_curr'
       /\ PID[t] # NoPid => PID'[t] # NoPid]_vars

\* A deferred Ctrl+C ends exactly the program that was on the screen when it was
\* pressed: until then the stack of that terminal does not move, and then its
\* top is replaced by its parent, or by a new shell if it had none.  (Unless
\* terminal_read() writes over the flag, as it may with terminal 3 on show.)
DeferredExitHitsTarget ==
  [][~TerminalRead => \A t \in kb_exit_flag :
       LET p == PID[t]
       IN  IF t \in kb_exit_flag'
           THEN PID'[t] = p
           ELSE /\ terminal_curr' = t
                /\ IF parentId[p] # NoPid
                   THEN pid_bitmap'[p] = 0 /\ PID'[t] = parentId[p]
                   ELSE parentId'[PID'[t]] = NoPid /\ schedule_esp'[PID'[t]] = NoPid]_vars

\* How many switches it takes, as things are, until terminal t runs.
Turns(t) ==
  CASE t = set_terminal_next(terminal_curr)                    -> 1
    [] t # set_terminal_next(terminal_curr)
       /\ t = set_terminal_next(set_terminal_next(terminal_curr)) -> 2
    [] OTHER                                                   -> 3

\* The round robin starves nobody: unless an Alt+Fn adds a terminal to it, no step
\* puts off a terminal that waits, and every timer interrupt, also one that finds
\* no pid for a shell and drops its terminal, brings each of them a turn closer.
TurnsComeCloser ==
  [][active' \subseteq active =>
       \A t \in ({1} \cup active') \ {terminal_curr'} :
          /\ Turns(t)' <= Turns(t)
          /\ Pit => Turns(t)' < Turns(t)]_vars

-----------------------------------------------------------------------------
(* Liveness                                                                *)

\* A display request ends on the screen, unless it is replaced or given up.
RequestServed ==
  \A t \in Terminals :
    terminal_on_display_next = t ~> terminal_on_display_curr = t
                                    \/ terminal_on_display_next # t

\* A deferred Ctrl+C does not stay pending.
ExitServed == \A t \in Terminals : t \in kb_exit_flag ~> t \notin kb_exit_flag

-----------------------------------------------------------------------------
(* The scheduler as programs see it                                        *)

Owned(t) == {p \in Pids : pid_bitmap[p] = t}

\* Each process of s is above the one that ran execute() for it, and the last is
\* the top of terminal t.
IsStackOf(t, s) ==
  /\ PID[t] = IF s = <<>> THEN NoPid ELSE s[Len(s)]
  /\ \A i \in DOMAIN s : parentId[s[i]] = IF i = 1 THEN NoPid ELSE s[i - 1]

\* The stack that all the processes of a terminal form.
StackOf(t) ==
  LET owned == Owned(t)
  IN  CHOOSE s \in [1..Cardinality(owned) -> owned] : IsStackOf(t, s)

AllStacks == [t \in Terminals |-> StackOf(t)]

Stacks == INSTANCE TerminalStacks
            WITH Names <- Pids, stack <- AllStacks, running <- terminal_curr

\* Every step of halt(), execute(), the PIT handler and the keyboard is a step
\* of the stacks of the terminals, or none: no process is lost from its stack,
\* resumed twice, or resumed by the end of another's child.
ImplementsStacks == Stacks!Spec

-----------------------------------------------------------------------------
(* The scheduler as the other modules see it                               *)

Switching == INSTANCE TerminalSwitch
               WITH started <- {t \in Terminals : PID[t] # NoPid}

\* Whatever execute(), halt(), the timer and the keyboard do, the terminals
\* that run, show and wait move only as TerminalSwitch says.
ImplementsSwitching == Switching!SwitchSpec

\* Under the fairness of the timer every terminal with a process gets the CPU
\* again and again, as TerminalSwitch promises.
ImplementsFairSwitching == Switching!FairSwitchSpec

=============================================================================
