-------------------------- MODULE VirtualRtcProofs --------------------------
(***************************************************************************)
(* Proofs about the virtual clocks, for any rate, any frequencies asked    *)
(* for and any number of processes and descriptors.                        *)
(*                                                                         *)
(* The frequency of a terminal changes only when its program is not inside *)
(* rtc_read(), or when that program is ended; and while a program waits,   *)
(* no interrupt is counted that did not come after its call.               *)
(***************************************************************************)
EXTENDS VirtualRtc, SequenceTheorems, TLAPS

\* Interrupts counted for a wait came since the read was called.
CounterBehind == \A t \in Used : pc[t] = "wait" => rtc_counter[t] <= elapsed[t]

RunsUsed == terminal_curr \in Used

IInv == /\ TypeOK /\ RunsUsed /\ ClockHasOwner /\ NoDivideByZero
        /\ WaitsPeriod /\ CounterBehind

LEMMA Constants ==
  /\ MaxCount \in Nat /\ 2 \in 0..MaxFreq /\ 0 \in 0..MaxOpen /\ 1 \in 1..MaxDepth
  /\ \A f \in 1..MaxFreq : Rate \div f \in Nat
BY RtcAssumption DEF MaxCount

LEMMA InitIInv == Init => IInv
<1> SUFFICES ASSUME Init PROVE IInv
  OBVIOUS
<1> USE RtcAssumption, Constants DEF Init
<1>1. SwitchTypeOK /\ RunsUsed
  BY DEF SwitchInit, SwitchTypeOK, Terminals, RunsUsed
<1>2. opened \in [Used -> Seq(0..MaxOpen)] /\ \A t \in Used : Len(opened[t]) \in 1..MaxDepth
  OBVIOUS
<1>3. TypeOK
  BY <1>1, <1>2 DEF TypeOK
<1>4. ClockHasOwner /\ NoDivideByZero /\ WaitsPeriod /\ CounterBehind
  BY DEF ClockHasOwner, NoDivideByZero, WaitsPeriod, CounterBehind
<1> QED BY <1>1, <1>3, <1>4 DEF IInv

LEMMA AppendKeeps ==
  ASSUME NEW S, NEW s \in Seq(S), NEW x
  PROVE  \A i \in DOMAIN s : i \in DOMAIN Append(s, x) /\ Append(s, x)[i] = s[i]
<1>1. DOMAIN s = 1..Len(s) /\ Len(s) \in Nat
  OBVIOUS
<1>2. DOMAIN Append(s, x) = 1..(Len(s) + 1)
  BY <1>1
<1> QED BY <1>1, <1>2

(* What the process on top of a terminal does with its own descriptors     *)
(* keeps the stack of processes well formed.                               *)
LEMMA SetTop ==
  ASSUME TypeOK, NEW t \in Used, NEW n \in 0..MaxOpen
  PROVE  /\ WithTop(t, n) \in [Used -> Seq(0..MaxOpen)]
         /\ \A u \in Used : Len(WithTop(t, n)[u]) = Len(opened[u])
         /\ WithTop(t, n)[t][Len(opened[t])] = n
         /\ \A u \in Used : u # t => WithTop(t, n)[u] = opened[u]
<1>1. opened[t] \in Seq(0..MaxOpen) /\ Len(opened[t]) \in 1..MaxDepth
  BY DEF TypeOK
<1>2. [opened[t] EXCEPT ![Len(opened[t])] = n] \in Seq(0..MaxOpen)
  BY <1>1
<1>3. Len([opened[t] EXCEPT ![Len(opened[t])] = n]) = Len(opened[t])
  BY <1>1
<1> QED BY <1>1, <1>2, <1>3 DEF WithTop, TypeOK

LEMMA EndedTop ==
  ASSUME TypeOK, NEW t \in Used
  PROVE  /\ Ended(t) \in Seq(0..MaxOpen) /\ Len(Ended(t)) \in 1..MaxDepth
         /\ Top(t) = 0 /\ (\E i \in DOMAIN opened[t] : opened[t][i] > 0)
              => \E i \in DOMAIN Ended(t) : Ended(t)[i] > 0
<1> USE RtcAssumption, Constants
<1> DEFINE n == Len(opened[t])
<1>1. opened[t] \in Seq(0..MaxOpen) /\ n \in 1..MaxDepth /\ n \in Nat
  BY DEF TypeOK
<1>2. DOMAIN opened[t] = 1..n /\ Top(t) = opened[t][n]
  BY <1>1 DEF Top
<1>3. CASE n > 1
  <2>1. Ended(t) = SubSeq(opened[t], 1, n - 1)
    BY <1>3 DEF Ended
  <2>2. Ended(t) \in Seq(0..MaxOpen) /\ Len(Ended(t)) = n - 1
    BY SMTT(40), <1>1, <1>3, <2>1
  <2>3. DOMAIN Ended(t) = 1..(n - 1) /\ \A i \in 1..(n - 1) : Ended(t)[i] = opened[t][i]
    BY <1>1, <1>3, <2>1
  <2>4. ASSUME Top(t) = 0, NEW i \in 1..n, opened[t][i] > 0
        PROVE  i \in 1..(n - 1)
    <3> HIDE DEF n
    <3>1. i # n
      <4>1. opened[t][n] = 0
        BY ONLY <1>2, <2>4
      <4>2. ~ (0 > 0)
        OBVIOUS
      <4> QED BY ONLY <4>1, <4>2, <2>4, Zenon
    <3> QED BY <1>1, <2>4, <3>1
  <2>5. Len(Ended(t)) \in 1..MaxDepth
    <3> HIDE DEF n
    <3> QED BY <1>1, <1>3, <2>2
  <2> HIDE DEF n
  <2> QED BY <1>2, <2>2, <2>3, <2>4, <2>5
<1>4. CASE n = 1
  <2>1. Ended(t) = <<0>>
    BY <1>4 DEF Ended
  <2>2. Ended(t) \in Seq(0..MaxOpen) /\ Len(Ended(t)) \in 1..MaxDepth
    BY <2>1
  <2>3. ASSUME Top(t) = 0, NEW i \in 1..n, opened[t][i] > 0
        PROVE  FALSE
    BY <1>2, <1>4, <2>3
  <2> QED BY <1>2, <2>2, <2>3
<1>5. n > 1 \/ n = 1
  <2> HIDE DEF n
  <2> QED BY <1>1
<1> QED BY ONLY <1>3, <1>4, <1>5

(* The typing part of the invariant, and the part about each terminal, on   *)
(* which the steps below work.                                             *)
TerminalOK(t) ==
  /\ virtual_rtc_freq[t] # 0 => \E i \in DOMAIN opened[t] : opened[t][i] > 0
  /\ pc[t] \in {"reset", "wait"} => virtual_rtc_freq[t] # 0
  /\ pc[t] = "return" /\ virtual_rtc_freq[t] # 0
       => elapsed[t] >= Rate \div virtual_rtc_freq[t]
  /\ pc[t] = "wait" => rtc_counter[t] <= elapsed[t]

LEMMA PerTerminal == IInv <=> TypeOK /\ RunsUsed /\ \A t \in Used : TerminalOK(t)
BY DEF IInv, ClockHasOwner, NoDivideByZero, WaitsPeriod, CounterBehind, TerminalOK

(* A step that leaves the state of terminal t alone keeps what is said of it. *)
LEMMA Untouched ==
  ASSUME NEW t, TerminalOK(t),
         virtual_rtc_freq'[t] = virtual_rtc_freq[t], opened'[t] = opened[t],
         pc'[t] = pc[t], elapsed'[t] = elapsed[t], rtc_counter'[t] = rtc_counter[t]
  PROVE  TerminalOK(t)'
BY DEF TerminalOK

(* Ending the program on top of a terminal, from wherever it is.           *)
LEMMA HaltTopOK ==
  ASSUME TypeOK, \A u \in Used : TerminalOK(u), NEW t \in Used, HaltTop(t)
  PROVE  /\ virtual_rtc_freq' \in [Used -> 0..MaxFreq] /\ rtc_counter' = rtc_counter
         /\ elapsed' = elapsed /\ opened' \in [Used -> Seq(0..MaxOpen)]
         /\ \A u \in Used : Len(opened'[u]) \in 1..MaxDepth
         /\ pc' \in [Used -> {"user", "reset", "wait", "return"}]
         /\ \A u \in Used : TerminalOK(u)'
<1> USE RtcAssumption
<1>1. /\ Ended(t) \in Seq(0..MaxOpen) /\ Len(Ended(t)) \in 1..MaxDepth
      /\ Top(t) = 0 /\ (\E i \in DOMAIN opened[t] : opened[t][i] > 0)
           => \E i \in DOMAIN Ended(t) : Ended(t)[i] > 0
  BY EndedTop
<1>2. opened' = [opened EXCEPT ![t] = Ended(t)] /\ opened \in [Used -> Seq(0..MaxOpen)]
  BY DEF HaltTop, TypeOK
<1>3. opened'[t] = Ended(t) /\ \A u \in Used : u # t => opened'[u] = opened[u]
  BY <1>2
<1>4. pc'[t] = "user" /\ \A u \in Used : u # t => pc'[u] = pc[u]
  BY DEF HaltTop, TypeOK
<1>5. /\ \A u \in Used : u # t => virtual_rtc_freq'[u] = virtual_rtc_freq[u]
      /\ virtual_rtc_freq'[t] # 0 => Top(t) <= 0 /\ virtual_rtc_freq[t] # 0
  <2>1. Top(t) \in Nat
    BY DEF TypeOK, Top
  <2> QED BY <2>1 DEF HaltTop, TypeOK
<1>6. Top(t) \in Nat
  BY DEF TypeOK, Top
<1>7. TerminalOK(t)'
  <2>1. virtual_rtc_freq'[t] # 0 => \E i \in DOMAIN opened'[t] : opened'[t][i] > 0
    <3> SUFFICES ASSUME virtual_rtc_freq'[t] # 0
                 PROVE  \E i \in DOMAIN opened'[t] : opened'[t][i] > 0
      OBVIOUS
    <3>1. Top(t) = 0
      BY <1>5, <1>6
    <3>2. \E i \in DOMAIN opened[t] : opened[t][i] > 0
      BY <1>5 DEF TerminalOK
    <3> QED BY <1>1, <1>3, <3>1, <3>2
  <2> QED BY <1>4, <2>1 DEF TerminalOK
<1>8. \A u \in Used : TerminalOK(u)'
  <2> SUFFICES ASSUME NEW u \in Used, u # t PROVE TerminalOK(u)'
    BY <1>7
  <2> QED BY <1>3, <1>4, <1>5, Untouched DEF HaltTop
<1>9. opened' \in [Used -> Seq(0..MaxOpen)]
  BY <1>1, <1>2
<1>10. \A u \in Used : Len(opened'[u]) \in 1..MaxDepth
  BY <1>1, <1>3 DEF TypeOK
<1>11. virtual_rtc_freq' \in [Used -> 0..MaxFreq]
  BY Constants DEF HaltTop, TypeOK
<1>12. rtc_counter' = rtc_counter /\ elapsed' = elapsed
  BY DEF HaltTop
<1>13. pc' \in [Used -> {"user", "reset", "wait", "return"}]
  BY DEF HaltTop, TypeOK
<1> QED BY ONLY <1>8, <1>9, <1>10, <1>11, <1>12, <1>13

(* What a step by the running program owes the invariant: the types, and   *)
(* what is said of the running terminal, if it leaves the others alone.    *)
LEMMA OwnStep ==
  ASSUME IInv, UNCHANGED switchVars,
         virtual_rtc_freq' \in [Used -> 0..MaxFreq], rtc_counter' \in [Used -> 0..MaxCount],
         elapsed' \in [Used -> 0..MaxCount], opened' \in [Used -> Seq(0..MaxOpen)],
         \A u \in Used : Len(opened'[u]) \in 1..MaxDepth,
         pc' \in [Used -> {"user", "reset", "wait", "return"}],
         TerminalOK(terminal_curr)',
         \A u \in Used : u # terminal_curr =>
            /\ virtual_rtc_freq'[u] = virtual_rtc_freq[u] /\ opened'[u] = opened[u]
            /\ pc'[u] = pc[u] /\ elapsed'[u] = elapsed[u] /\ rtc_counter'[u] = rtc_counter[u]
  PROVE  IInv'
<1>1. SwitchTypeOK' /\ RunsUsed'
  BY DEF IInv, TypeOK, SwitchTypeOK, switchVars, RunsUsed
<1>2. TypeOK'
  BY <1>1 DEF TypeOK
<1>3. \A u \in Used : TerminalOK(u)
  BY PerTerminal
<1>4. ASSUME NEW u \in Used, u # terminal_curr PROVE TerminalOK(u)'
  BY <1>3, <1>4, Untouched
<1>5. ASSUME NEW u \in Used PROVE TerminalOK(u)'
  <2>1. terminal_curr' = terminal_curr
    BY DEF switchVars
  <2>2. CASE u = terminal_curr
    BY <2>1, <2>2 DEF TerminalOK
  <2> QED BY <1>4, <2>2
<1>6. ClockHasOwner' /\ NoDivideByZero' /\ WaitsPeriod' /\ CounterBehind'
  BY <1>5 DEF ClockHasOwner, NoDivideByZero, WaitsPeriod, CounterBehind, TerminalOK
<1> QED BY <1>1, <1>2, <1>6 DEF IInv

(* The end of a program, with the CPU staying on its terminal or arriving.  *)
LEMMA HaltIInv ==
  ASSUME IInv, NEW t \in Used, HaltTop(t), SwitchTypeOK', RunsUsed'
  PROVE  IInv'
<1>1. TypeOK /\ \A u \in Used : TerminalOK(u)
  BY PerTerminal
<1>2. /\ virtual_rtc_freq' \in [Used -> 0..MaxFreq] /\ rtc_counter' = rtc_counter
      /\ elapsed' = elapsed /\ opened' \in [Used -> Seq(0..MaxOpen)]
      /\ \A u \in Used : Len(opened'[u]) \in 1..MaxDepth
      /\ pc' \in [Used -> {"user", "reset", "wait", "return"}]
      /\ \A u \in Used : TerminalOK(u)'
  BY <1>1, HaltTopOK
<1>3. TypeOK'
  BY <1>1, <1>2 DEF TypeOK
<1>4. ClockHasOwner' /\ NoDivideByZero' /\ WaitsPeriod' /\ CounterBehind'
  BY <1>2 DEF ClockHasOwner, NoDivideByZero, WaitsPeriod, CounterBehind, TerminalOK
<1> QED BY <1>3, <1>4 DEF IInv

(* One of the clocks' interrupts.                                          *)
LEMMA Counting ==
  ASSUME IInv, rtc_handler
  PROVE  IInv'
<1> USE RtcAssumption, Constants
<1>1. TypeOK' /\ RunsUsed'
  <2>1. SwitchTypeOK' /\ RunsUsed'
    BY DEF IInv, TypeOK, SwitchTypeOK, switchVars, RunsUsed, rtc_handler
  <2>2. ASSUME NEW count \in [Used -> 0..MaxCount], NEW on
        PROVE  Counted(count, on) \in [Used -> 0..MaxCount]
    BY <2>2 DEF Counted
  <2>3. rtc_counter' \in [Used -> 0..MaxCount] /\ elapsed' \in [Used -> 0..MaxCount]
    BY <2>2 DEF IInv, TypeOK, rtc_handler
  <2> QED BY <2>1, <2>3 DEF IInv, TypeOK, rtc_handler
<1>2. ASSUME NEW u \in Used PROVE TerminalOK(u)'
  <2>1. TerminalOK(u)
    BY PerTerminal
  <2>2. /\ rtc_counter[u] \in 0..MaxCount /\ elapsed[u] \in 0..MaxCount
        /\ virtual_rtc_freq[u] \in 0..MaxFreq
        /\ pc[u] \in {"user", "reset", "wait", "return"}
    BY DEF IInv, TypeOK
  <2>3. virtual_rtc_freq'[u] = virtual_rtc_freq[u] /\ opened'[u] = opened[u] /\ pc'[u] = pc[u]
    BY DEF rtc_handler
  <2>4. /\ rtc_counter'[u] = IF virtual_rtc_freq[u] # 0 /\ rtc_counter[u] < MaxCount
                               THEN rtc_counter[u] + 1 ELSE rtc_counter[u]
        /\ elapsed'[u] = IF pc[u] \in {"reset", "wait"} /\ elapsed[u] < MaxCount
                               THEN elapsed[u] + 1 ELSE elapsed[u]
    BY DEF rtc_handler, Counted
  <2>5. CASE pc[u] = "wait"
    BY <2>1, <2>2, <2>3, <2>4, <2>5 DEF TerminalOK
  <2>6. CASE pc[u] = "return"
    BY <2>1, <2>2, <2>3, <2>4, <2>6 DEF TerminalOK
  <2>7. CASE pc[u] \in {"user", "reset"}
    BY <2>1, <2>3, <2>7 DEF TerminalOK
  <2> QED BY <2>2, <2>5, <2>6, <2>7
<1>3. ClockHasOwner' /\ NoDivideByZero' /\ WaitsPeriod' /\ CounterBehind'
  BY <1>2 DEF ClockHasOwner, NoDivideByZero, WaitsPeriod, CounterBehind, TerminalOK
<1> QED BY <1>1, <1>3 DEF IInv

LEMMA NextIInv == IInv /\ [Next]_vars => IInv'
<1> SUFFICES ASSUME IInv, [Next]_vars PROVE IInv'
  OBVIOUS
<1> USE RtcAssumption, Constants
<1> DEFINE c == terminal_curr
<1>1. TypeOK /\ c \in Used /\ \A u \in Used : TerminalOK(u)
  BY PerTerminal DEF RunsUsed
<1>2. opened[c] \in Seq(0..MaxOpen) /\ Len(opened[c]) \in 1..MaxDepth /\ Top(c) \in 0..MaxOpen
  BY SMTT(40), <1>1 DEF TypeOK, Top
<1>3. CASE RtcOpen
  <2>1. PICK n \in 0..MaxOpen : n = Top(c) + 1 /\ opened' = WithTop(c, n)
    BY <1>2, <1>3 DEF RtcOpen
  <2>2. /\ opened' \in [Used -> Seq(0..MaxOpen)]
        /\ \A u \in Used : Len(opened'[u]) \in 1..MaxDepth
        /\ opened'[c][Len(opened[c])] = n /\ Len(opened'[c]) = Len(opened[c])
        /\ \A u \in Used : u # c => opened'[u] = opened[u]
    <3>1. \A u \in Used : Len(opened[u]) \in 1..MaxDepth
      BY <1>1 DEF TypeOK
    <3>2. /\ WithTop(c, n) \in [Used -> Seq(0..MaxOpen)]
          /\ \A u \in Used : Len(WithTop(c, n)[u]) = Len(opened[u])
          /\ WithTop(c, n)[c][Len(opened[c])] = n
          /\ \A u \in Used : u # c => WithTop(c, n)[u] = opened[u]
      BY ONLY <1>1, <2>1, SetTop
    <3> QED BY ONLY <1>1, <2>1, <3>1, <3>2
  <2>3. \E i \in DOMAIN opened'[c] : opened'[c][i] > 0
    BY <1>1, <1>2, <2>1, <2>2
  <2>4. TerminalOK(c)'
    BY <1>1, <1>3, <2>3 DEF RtcOpen, TerminalOK, TypeOK, InProgram, switchVars
  <2> QED BY <1>1, <1>3, <2>2, <2>4, OwnStep DEF RtcOpen, TypeOK
<1>4. CASE RtcClose
  <2>1. PICK n \in 0..MaxOpen : opened' = WithTop(c, n)
    BY <1>2, <1>4 DEF RtcClose
  <2>2. /\ opened' \in [Used -> Seq(0..MaxOpen)]
        /\ \A u \in Used : Len(opened'[u]) \in 1..MaxDepth
        /\ \A u \in Used : u # c => opened'[u] = opened[u]
    <3>1. \A u \in Used : Len(opened[u]) \in 1..MaxDepth
      BY <1>1 DEF TypeOK
    <3>2. /\ WithTop(c, n) \in [Used -> Seq(0..MaxOpen)]
          /\ \A u \in Used : Len(WithTop(c, n)[u]) = Len(opened[u])
          /\ WithTop(c, n)[c][Len(opened[c])] = n
          /\ \A u \in Used : u # c => WithTop(c, n)[u] = opened[u]
      BY ONLY <1>1, <2>1, SetTop
    <3> QED BY ONLY <1>1, <2>1, <3>1, <3>2
  <2>3. TerminalOK(c)'
    BY <1>1, <1>4 DEF RtcClose, TerminalOK, TypeOK, InProgram, switchVars
  <2>4. /\ virtual_rtc_freq' \in [Used -> 0..MaxFreq]
        /\ \A u \in Used : u # c => virtual_rtc_freq'[u] = virtual_rtc_freq[u]
    BY <1>1, <1>4 DEF RtcClose, TypeOK
  <2> QED BY <1>1, <1>4, <2>2, <2>3, <2>4, OwnStep DEF RtcClose, TypeOK
<1>5. CASE RtcWrite
  <2>1. PICK f \in 0..MaxFreq : virtual_rtc_freq' = [virtual_rtc_freq EXCEPT ![c] = f]
    <3>1. PICK v \in Asked : /\ v % Word >= 2 /\ v % Word <= MaxFreq
                             /\ virtual_rtc_freq' = [virtual_rtc_freq EXCEPT ![c] = v % Word]
      BY <1>5 DEF RtcWrite
    <3>2. v % Word \in 0..MaxFreq
      BY <3>1
    <3> QED BY <3>1, <3>2
  <2>2. Top(c) > 0 /\ opened' = opened /\ pc' = pc /\ pc[c] = "user"
    BY <1>5 DEF RtcWrite, InProgram
  <2>3. \E i \in DOMAIN opened'[c] : opened'[c][i] > 0
    BY <1>2, <2>2 DEF Top
  <2>4. TerminalOK(c)'
    BY <1>1, <1>5, <2>2, <2>3 DEF RtcWrite, TerminalOK, TypeOK, switchVars
  <2> QED BY <1>1, <1>5, <2>1, <2>2, <2>4, OwnStep DEF RtcWrite, TypeOK
<1>6. CASE Execute
  <2>1. opened' = [opened EXCEPT ![c] = Append(opened[c], 0)] /\ Len(opened[c]) < MaxDepth
    BY <1>6 DEF Execute
  <2>2. Append(opened[c], 0) \in Seq(0..MaxOpen) /\ Len(Append(opened[c], 0)) \in 1..MaxDepth
    BY <1>2, <2>1
  <2>3. /\ opened' \in [Used -> Seq(0..MaxOpen)]
        /\ \A u \in Used : Len(opened'[u]) \in 1..MaxDepth
        /\ opened'[c] = Append(opened[c], 0)
        /\ \A u \in Used : u # c => opened'[u] = opened[u]
    BY <1>1, <2>1, <2>2 DEF TypeOK
  <2>4. (\E i \in DOMAIN opened[c] : opened[c][i] > 0)
          => \E i \in DOMAIN opened'[c] : opened'[c][i] > 0
    <3>1. \A i \in DOMAIN opened[c] : i \in DOMAIN opened'[c] /\ opened'[c][i] = opened[c][i]
      BY ONLY <1>2, <2>3, AppendKeeps
    <3> QED BY <3>1, Zenon
  <2>5. TerminalOK(c)'
    BY <1>1, <1>6, <2>4 DEF Execute, TerminalOK, InProgram, switchVars
  <2> QED BY <1>1, <1>6, <2>3, <2>5, OwnStep DEF Execute, TypeOK
<1>7. CASE Halt
  <2>1. HaltTop(c) /\ UNCHANGED switchVars
    BY <1>7 DEF Halt
  <2>2. SwitchTypeOK' /\ RunsUsed'
    BY <1>1, <2>1 DEF TypeOK, SwitchTypeOK, switchVars, RunsUsed
  <2> QED BY <1>1, <2>1, <2>2, HaltIInv
<1>8. CASE RtcRead
  <2>1. TerminalOK(c)'
    BY <1>1, <1>8 DEF RtcRead, At, TerminalOK, TypeOK, switchVars
  <2> QED BY SMTT(40), <1>1, <1>8, <2>1, OwnStep DEF RtcRead, At, TypeOK
<1>9. CASE ResetCounter
  <2>1. TerminalOK(c)'
    BY <1>1, <1>9 DEF ResetCounter, At, TerminalOK, TypeOK, switchVars
  <2> QED BY SMTT(40), <1>1, <1>9, <2>1, OwnStep DEF ResetCounter, At, TypeOK
<1>10. CASE EndWait
  <2>1. /\ rtc_counter[c] >= Rate \div virtual_rtc_freq[c] /\ rtc_counter[c] <= elapsed[c]
        /\ virtual_rtc_freq[c] \in 1..MaxFreq /\ rtc_counter[c] \in Nat /\ elapsed[c] \in Nat
    BY <1>1, <1>10 DEF EndWait, At, TerminalOK, TypeOK
  <2>2. elapsed[c] >= Rate \div virtual_rtc_freq[c]
    BY <2>1
  <2>3. TerminalOK(c)'
    BY <1>1, <1>10, <2>2 DEF EndWait, At, TerminalOK, TypeOK, switchVars
  <2> QED BY <1>1, <1>10, <2>3, OwnStep DEF EndWait, At, TypeOK
<1>11. CASE RtcReturn
  <2>1. TerminalOK(c)'
    BY <1>1, <1>11 DEF RtcReturn, At, TerminalOK, TypeOK, switchVars
  <2> QED BY SMTT(40), <1>1, <1>11, <2>1, OwnStep DEF RtcReturn, At, TypeOK
<1>12. CASE rtc_handler
  BY <1>12, Counting
<1>13. ASSUME NEW n \in Used, PitGoTo(n) PROVE IInv'
  <2>1. GoTo(n)
    BY <1>13 DEF PitGoTo
  <2>2. SwitchTypeOK' /\ RunsUsed'
    BY <1>1, <2>1 DEF TypeOK, SwitchTypeOK, GoTo, RunsUsed, Terminals
  <2>3. CASE UNCHANGED clockVars
    BY <1>1, <2>2, <2>3, PerTerminal, Untouched
       DEF IInv, TypeOK, ClockHasOwner, NoDivideByZero, WaitsPeriod, CounterBehind, clockVars
  <2>4. CASE HaltTop(n)
    BY <1>1, <2>2, <2>4, HaltIInv
  <2> QED BY <1>13, <2>3, <2>4 DEF PitGoTo
<1>14. ASSUME NEW n \in Used, KeyRequest(n) PROVE IInv'
  <2>1. n \in 1..3
    BY RtcAssumption DEF Terminals
  <2>2. active' \subseteq {2, 3}
    <3>1. active \subseteq {2, 3}
      BY <1>1 DEF TypeOK, SwitchTypeOK
    <3>2. PICK F \in SUBSET (1..(n - 1)) : active' = active \cup (({n} \cup F) \ {1})
      BY <1>14 DEF KeyRequest, Request
    <3> QED BY <2>1, <3>1, <3>2
  <2>3. SwitchTypeOK' /\ RunsUsed'
    BY <1>1, <1>14, <2>1, <2>2
       DEF KeyRequest, TypeOK, SwitchTypeOK, Request, RunsUsed, Terminals
  <2> QED BY <1>1, <1>14, <2>3, PerTerminal, Untouched
          DEF KeyRequest, IInv, TypeOK, ClockHasOwner, NoDivideByZero, WaitsPeriod, CounterBehind,
              clockVars
<1>15. CASE UNCHANGED vars
  BY <1>15 DEF IInv, TypeOK, SwitchTypeOK, RunsUsed, ClockHasOwner, NoDivideByZero,
               WaitsPeriod, CounterBehind, vars, switchVars, clockVars
<1> QED BY <1>3, <1>4, <1>5, <1>6, <1>7, <1>8, <1>9, <1>10, <1>11, <1>12, <1>13, <1>14,
          <1>15 DEF Next, ReadStep

-----------------------------------------------------------------------------
\* The invariant holds in every state.
THEOREM Invariance == Spec => []IInv
BY InitIInv, NextIInv, PTL DEF Spec

\* Clocks are off or run at a frequency rtc_write() allows, and programs and
\* descriptors are within their bounds.
THEOREM TypeCorrect == Spec => []TypeOK
BY Invariance, PTL DEF IInv

\* A clock runs only while a process of its terminal has it open.
THEOREM ClockOwned == Spec => []ClockHasOwner
BY Invariance, PTL DEF IInv

\* The loop of rtc_read() never divides by a frequency of zero.
THEOREM NoDivision == Spec => []NoDivideByZero
BY Invariance, PTL DEF IInv

\* rtc_read() returns after no fewer interrupts than make up a period.
THEOREM WaitsCorrect == Spec => []WaitsPeriod
BY Invariance, PTL DEF IInv
=============================================================================
