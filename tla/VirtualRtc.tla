----------------------------- MODULE VirtualRtc -----------------------------
(***************************************************************************)
(* The virtual real-time clocks (rtc_init.c): one per terminal, all driven *)
(* by the same periodic interrupt, and used through file descriptors that  *)
(* belong to processes (open, close, halt and execute in system_calls.c).  *)
(*                                                                         *)
(* read() enables interrupts before it calls rtc_read(), so its statements *)
(* are steps between which the timer and the clock can interrupt; the      *)
(* other calls and the handlers are one step each.  A process is known     *)
(* here by how many descriptors of the clock it has open.                  *)
(***************************************************************************)
EXTENDS TerminalSwitch, Sequences

CONSTANTS Rate,      \* clock interrupts per second; 64 in the code
          MaxFreq,   \* the highest frequency rtc_write() takes; 1024 in the code
          Word,      \* the values of an unsigned short; 2^16 in the code
          Asked,     \* bound: the frequencies programs ask for
          MaxDepth,  \* bound: processes on a terminal
          MaxOpen,   \* bound: descriptors of the clock in a process; 6 in the code
          Used       \* bound: the terminals that run

ASSUME RtcAssumption ==
  /\ Rate \in Nat \ {0} /\ MaxFreq \in Nat \ {0, 1} /\ Word \in Nat \ {0}
  /\ Asked \subseteq Nat
  /\ MaxDepth \in Nat \ {0} /\ MaxOpen \in Nat
  /\ Used \subseteq Terminals /\ 1 \in Used

VARIABLES
  virtual_rtc_freq,  \* the frequency of each terminal's clock, 0 when it is off
  rtc_counter,       \* interrupts counted since it was reset
  opened,            \* open descriptors of the clock, for each process on the terminal
  pc,                \* the next statement of rtc_read(), "return" after it, or "user"
  elapsed            \* history: interrupts since rtc_read() was called

clockVars == <<virtual_rtc_freq, rtc_counter, opened, pc, elapsed>>
vars == <<switchVars, clockVars>>

\* No wait is longer than a period of the lowest frequency, so counting stops
\* there.  (The code's 16 bits wrap round after 17 minutes; a terminal waits
\* milliseconds for the CPU.)
MaxCount == Rate \div 2

Init ==
  /\ SwitchInit
  /\ virtual_rtc_freq = [t \in Used |-> 0] /\ rtc_counter = [t \in Used |-> 0]
  /\ opened = [t \in Used |-> <<0>>]
  /\ pc = [t \in Used |-> "user"] /\ elapsed = [t \in Used |-> 0]

Top(t) == opened[t][Len(opened[t])]
WithTop(t, n) == [opened EXCEPT ![t][Len(opened[t])] = n]

InProgram == pc[terminal_curr] = "user"

-----------------------------------------------------------------------------
(* System calls of the running program                                     *)

\* open("rtc").
RtcOpen ==
  /\ InProgram
  /\ Top(terminal_curr) < MaxOpen
  /\ opened' = WithTop(terminal_curr, Top(terminal_curr) + 1)
  /\ virtual_rtc_freq' = [virtual_rtc_freq EXCEPT ![terminal_curr] = 2]
  /\ UNCHANGED <<switchVars, rtc_counter, pc, elapsed>>

\* Mutant: the clock of the terminal on show is turned off.
CloseShown ==
  /\ InProgram
  /\ Top(terminal_curr) > 0
  /\ opened' = WithTop(terminal_curr, Top(terminal_curr) - 1)
  /\ virtual_rtc_freq' = [virtual_rtc_freq EXCEPT ![terminal_on_display_curr] = 0]
  /\ UNCHANGED <<switchVars, rtc_counter, pc, elapsed>>

RtcClose ==
  /\ InProgram
  /\ Top(terminal_curr) > 0
  /\ opened' = WithTop(terminal_curr, Top(terminal_curr) - 1)
  /\ virtual_rtc_freq' = [virtual_rtc_freq EXCEPT ![terminal_curr] = 0]
  /\ UNCHANGED <<switchVars, rtc_counter, pc, elapsed>>

IsPowerOfTwo(n) == \E k \in 0..n : n = 2^k

\* The value asked for loses what does not fit an unsigned short.
RtcWrite ==
  /\ InProgram
  /\ Top(terminal_curr) > 0
  /\ \E v \in Asked :
       LET user_freq == v % Word
       IN  /\ user_freq >= 2 /\ user_freq <= MaxFreq /\ IsPowerOfTwo(user_freq)
           /\ virtual_rtc_freq' = [virtual_rtc_freq EXCEPT ![terminal_curr] = user_freq]
  /\ UNCHANGED <<switchVars, rtc_counter, opened, pc, elapsed>>

\* execute(): the new process has no descriptor of the clock.
Execute ==
  /\ InProgram
  /\ Len(opened[terminal_curr]) < MaxDepth
  /\ opened' = [opened EXCEPT ![terminal_curr] = Append(@, 0)]
  /\ UNCHANGED <<switchVars, virtual_rtc_freq, rtc_counter, pc, elapsed>>

\* What halt() leaves of the processes of terminal t: the parent, or a new shell.
Ended(t) == LET n == Len(opened[t])
            IN  IF n > 1 THEN SubSeq(opened[t], 1, n - 1) ELSE <<0>>

\* Mutant: halt() does not close the files.
HaltTopLeavesOpen(t) ==
  /\ opened' = [opened EXCEPT ![t] = Ended(t)]
  /\ pc' = [pc EXCEPT ![t] = "user"]
  /\ UNCHANGED <<virtual_rtc_freq, rtc_counter, elapsed>>

\* halt() of the process on top of terminal t, wherever it is: it closes its files.
HaltTop(t) ==
  /\ virtual_rtc_freq' = IF Top(t) > 0 THEN [virtual_rtc_freq EXCEPT ![t] = 0]
                                       ELSE virtual_rtc_freq
  /\ opened' = [opened EXCEPT ![t] = Ended(t)]
  /\ pc' = [pc EXCEPT ![t] = "user"]
  /\ UNCHANGED <<rtc_counter, elapsed>>

\* halt() called by the program or, at any statement, by Ctrl+C.
Halt == HaltTop(terminal_curr) /\ UNCHANGED switchVars

-----------------------------------------------------------------------------
(* rtc_read(), statement by statement                                      *)

At(here, there) == /\ pc[terminal_curr] = here
                   /\ pc' = [pc EXCEPT ![terminal_curr] = there]

\* The call, and the test that returns at once when the clock is off.
RtcRead ==
  /\ Top(terminal_curr) > 0
  /\ At("user", IF virtual_rtc_freq[terminal_curr] = 0 THEN "return" ELSE "reset")
  /\ elapsed' = [elapsed EXCEPT ![terminal_curr] = 0]
  /\ UNCHANGED <<switchVars, virtual_rtc_freq, rtc_counter, opened>>

\* Mutant: the counter is left as it is.
ResetNothing ==
  /\ At("reset", "wait")
  /\ UNCHANGED <<switchVars, virtual_rtc_freq, rtc_counter, opened, elapsed>>

ResetCounter ==
  /\ At("reset", "wait")
  /\ rtc_counter' = [rtc_counter EXCEPT ![terminal_curr] = 0]
  /\ UNCHANGED <<switchVars, virtual_rtc_freq, opened, elapsed>>

\* The loop's test when it ends the loop.
EndWait ==
  /\ At("wait", "return")
  /\ rtc_counter[terminal_curr] >= Rate \div virtual_rtc_freq[terminal_curr]
  /\ UNCHANGED <<switchVars, virtual_rtc_freq, rtc_counter, opened, elapsed>>

RtcReturn ==
  /\ At("return", "user")
  /\ elapsed' = [elapsed EXCEPT ![terminal_curr] = 0]
  /\ UNCHANGED <<switchVars, virtual_rtc_freq, rtc_counter, opened>>

ReadStep == ResetCounter \/ EndWait \/ RtcReturn

-----------------------------------------------------------------------------
(* Interrupts                                                              *)

Counted(count, on) ==
  [t \in Used |-> IF on[t] /\ count[t] < MaxCount THEN count[t] + 1 ELSE count[t]]

\* Mutant: the handler counts for the running terminal only.
CountRunning ==
  /\ rtc_counter' = Counted(rtc_counter, [t \in Used |-> t = terminal_curr])
  /\ elapsed' = Counted(elapsed, [t \in Used |-> pc[t] \in {"reset", "wait"}])
  /\ UNCHANGED <<switchVars, virtual_rtc_freq, opened, pc>>

\* Every clock that is on counts, whichever terminal runs.
rtc_handler ==
  /\ rtc_counter' = Counted(rtc_counter, [t \in Used |-> virtual_rtc_freq[t] # 0])
  /\ elapsed' = Counted(elapsed, [t \in Used |-> pc[t] \in {"reset", "wait"}])
  /\ UNCHANGED <<switchVars, virtual_rtc_freq, opened, pc>>

\* The CPU goes to terminal n, where a Ctrl+C may have been pressed meanwhile.
PitGoTo(n) ==
  /\ GoTo(n)
  /\ \/ UNCHANGED clockVars
     \/ n \in started /\ HaltTop(n)

\* Alt+Fn.  Bound: each terminal is asked for once, as no clock depends on which
\* terminal is on show.
KeyRequest(t) == t \notin {1} \cup active /\ Request(t) /\ UNCHANGED clockVars

-----------------------------------------------------------------------------
Next ==
  \/ RtcOpen \/ RtcClose \/ RtcWrite \/ Execute \/ Halt
  \/ RtcRead \/ ReadStep
  \/ rtc_handler
  \/ \E n \in Used : PitGoTo(n) \/ KeyRequest(n)

Spec == Init /\ [][Next]_vars

\* The clock keeps interrupting, terminals keep getting the CPU, and a program
\* that gets it again and again gets on.
FairSpec ==
  /\ Spec
  /\ SwitchFairness
  /\ WF_vars(rtc_handler)
  /\ \A t \in Used : SF_vars(terminal_curr = t /\ ReadStep)

-----------------------------------------------------------------------------
(* Properties                                                              *)

\* A clock is off or runs at a frequency rtc_write() allows.
TypeOK ==
  /\ SwitchTypeOK
  /\ virtual_rtc_freq \in [Used -> 0..MaxFreq]
  /\ rtc_counter \in [Used -> 0..MaxCount]
  /\ elapsed \in [Used -> 0..MaxCount]
  /\ opened \in [Used -> Seq(0..MaxOpen)]
  /\ \A t \in Used : Len(opened[t]) \in 1..MaxDepth
  /\ pc \in [Used -> {"user", "reset", "wait", "return"}]

\* A clock runs only while some process of its terminal has it open: ending
\* programs, in whatever way, leave none running.
ClockHasOwner ==
  \A t \in Used :
    virtual_rtc_freq[t] # 0 => \E i \in DOMAIN opened[t] : opened[t][i] > 0

\* The clock a program waits for is on, so the loop never divides by zero,
\* whatever programs on other terminals do between its iterations.
NoDivideByZero ==
  \A t \in Used : pc[t] \in {"reset", "wait"} => virtual_rtc_freq[t] # 0

\* A read that finds its clock on returns after no fewer interrupts than make up
\* a period of it, wherever the CPU was when they came.
WaitsPeriod ==
  \A t \in Used : pc[t] = "return" /\ virtual_rtc_freq[t] # 0
                  => elapsed[t] >= Rate \div virtual_rtc_freq[t]

\* A read of the clock returns.
ReadReturns == \A t \in Used : pc[t] = "wait" ~> pc[t] # "wait"

=============================================================================
