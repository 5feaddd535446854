-------------------------- MODULE SchedulerProofs --------------------------
(***************************************************************************)
(* Proofs about the scheduler, for any number of pids.                     *)
(*                                                                         *)
(* IInv is inductive.  The process table changes in three ways only: a     *)
(* process is pushed on the stack of a terminal (execute, the first visit  *)
(* of the timer), popped from it (halt), or the bottom shell is replaced   *)
(* (halt of the last process).  One lemma for each says what it does to    *)
(* the stacks and to the count; the rest of the proof goes by action.      *)
(*                                                                         *)
(* The second half shows the refinement of TerminalStacks: the processes   *)
(* of each terminal form exactly one stack, and each of the three changes  *)
(* does to it what its name says.                                          *)
(***************************************************************************)
EXTENDS Scheduler, FiniteSetTheorems, SequenceTheorems, WellFoundedInduction, TLAPS

Opt == Pids \cup {NoPid}

\* The three ways the process table changes.
Push(t, sched) == Launch(t, PID[t], PID[0], pid_bitmap, sched, state)
Pop(t, sched) == ReturnToParent(t, sched)

\* The part of the invariant that speaks of the process table.
TableOK == StacksOK /\ PidZeroReserved /\ CountOK

\* The types of the variables that a push, a pop or a respawn changes.
ProcessTypeOK ==
  /\ PID \in [0..3 -> -1..(NumPids - 1)] /\ PID[0] >= 0
  /\ pid_bitmap \in [Pids -> 0..3]
  /\ parentId \in [Pids -> Opt] /\ old_esp \in [Pids -> Opt]
  /\ schedule_esp \in [Pids -> Opt] /\ state \in [Pids -> {0, 1}]
  /\ tss_esp0 \in Pids /\ esp \in Pids /\ user_page \in Pids

IInv == TypeOK /\ TableOK /\ ContextOK /\ DisplayOK /\ ExitFlagOK

-----------------------------------------------------------------------------
(* The set of live processes is finite.                                    *)
LEMMA LiveFinite == IsFiniteSet(Live)
<1>1. IsFiniteSet(Pids)
  BY FS_Interval, NumPidsAssumption DEF Pids
<1> QED BY <1>1, FS_Subset DEF Live

(* A process pushed on a terminal keeps the table in order, whether the    *)
(* terminal had a process before or not.                                   *)
LEMMA PushTable ==
  ASSUME TypeOK, TableOK, NEW t \in Terminals, NEW sched, Push(t, sched)
  PROVE  TableOK'
<1> PICK p \in Pids :
      /\ pid_bitmap[p] = 0
      /\ PID' = [PID EXCEPT ![0] = PID[0] + 1, ![t] = p]
      /\ pid_bitmap' = [pid_bitmap EXCEPT ![p] = t]
      /\ parentId' = [parentId EXCEPT ![p] = PID[t]]
  BY DEF Push, Launch, IsNextAvail
<1> USE NumPidsAssumption DEF Terminals, Pids, NoPid
<1>1. Live' = Live \cup {p} /\ p \notin Live
  BY DEF TypeOK, Live
<1>2. CountOK'
  <2>1. Cardinality(Live') = Cardinality(Live) + 1
    BY <1>1, LiveFinite, FS_AddElement
  <2>2. PID'[0] = PID[0] + 1
    BY DEF TypeOK
  <2>3. Cardinality(Live) \in Nat
    BY LiveFinite, FS_CardinalityType
  <2> QED BY <2>1, <2>2, <2>3 DEF CountOK, TableOK, TypeOK
<1>3. TopsOwned'
  BY SMTT(40) DEF TopsOwned, TypeOK, TableOK, StacksOK
<1>4. ParentsOwned'
  BY <1>1 DEF ParentsOwned, TopsOwned, TypeOK, TableOK, StacksOK, Live
<1>5. SingleStack'
  BY <1>1 DEF SingleStack, TopsHaveNoChild, TypeOK, TableOK, StacksOK, Live
<1>6. TopsHaveNoChild'
  BY <1>1 DEF TopsHaveNoChild, ParentsOwned, TopsOwned, TypeOK, TableOK, StacksOK, Live
<1>7. PidZeroReserved'
  BY DEF PidZeroReserved, TypeOK, TableOK
<1> QED BY <1>2, <1>3, <1>4, <1>5, <1>6, <1>7 DEF TableOK, StacksOK

(* A process popped from a terminal leaves the table in order, with its    *)
(* parent on top; at least one process is left.                            *)
LEMMA PopTable ==
  ASSUME TypeOK, TableOK, NEW t \in Terminals, PID[t] # NoPid,
         NEW sched, Pop(t, sched)
  PROVE  TableOK' /\ PID[0] > 0 /\ parentId[PID[t]] \in Live
<1> DEFINE p == PID[t]
           q == parentId[p]
<1> USE NumPidsAssumption DEF Terminals, Pids, NoPid
<1>1. /\ p \in Pids /\ q \in Pids /\ q # p
      /\ pid_bitmap[p] = t /\ pid_bitmap[q] = t
      /\ p \in Live /\ q \in Live
  <2>1. t \in 0..3 /\ p \in Pids /\ p \in -1..(NumPids - 1)
    BY DEF TypeOK
  <2>2. pid_bitmap[p] = t /\ p \in Live
    BY <2>1 DEF TableOK, StacksOK, TopsOwned, Live
  <2>3. q # NoPid /\ q \in Pids
    BY <2>1 DEF Pop, ReturnToParent, TypeOK
  <2>4. pid_bitmap[q] = t /\ q \in Live
    BY <2>2, <2>3 DEF TableOK, StacksOK, ParentsOwned, Live
  <2> QED BY <2>1, <2>2, <2>3, <2>4 DEF TableOK, StacksOK, TopsHaveNoChild
<1>2. /\ PID' = [PID EXCEPT ![0] = PID[0] - 1, ![t] = q]
      /\ pid_bitmap' = [pid_bitmap EXCEPT ![p] = 0]
      /\ parentId' = parentId
  BY DEF Pop, ReturnToParent, Freed
<1> HIDE DEF p, q
<1>3. Live' = Live \ {p} /\ q \in Live'
  BY <1>1, <1>2 DEF TypeOK, Live
<1>4. Cardinality(Live') = Cardinality(Live) - 1 /\ IsFiniteSet(Live')
  BY <1>1, <1>3, LiveFinite, FS_RemoveElement
<1>5. CountOK' /\ PID[0] > 0
  <2>1. PID'[0] = PID[0] - 1
    BY <1>2 DEF TypeOK
  <2>2. Cardinality(Live) \in Nat /\ Cardinality(Live') \in Nat
    BY <1>4, LiveFinite, FS_CardinalityType
  <2>3. Cardinality(Live') # 0
    BY <1>3, <1>4, FS_EmptySet
  <2> QED BY SMTT(40), <1>4, <2>1, <2>2, <2>3 DEF CountOK, TableOK, TypeOK
<1>6. TopsOwned'
  <2> SUFFICES ASSUME NEW s \in Terminals, PID'[s] # NoPid
               PROVE  pid_bitmap'[PID'[s]] = s
    BY DEF TopsOwned
  <2>1. CASE s = t
    BY <1>1, <1>2, <2>1 DEF TypeOK
  <2>2. CASE s # t
    <3>1. PID'[s] = PID[s] /\ PID[s] \in Pids
      BY <1>2, <2>2 DEF TypeOK
    <3>2. pid_bitmap[PID[s]] = s
      BY <3>1 DEF TableOK, StacksOK, TopsOwned
    <3> QED BY <1>1, <1>2, <2>2, <3>1, <3>2 DEF TypeOK
  <2> QED BY <2>1, <2>2
<1>7. ParentsOwned'
  BY <1>1, <1>2, <1>3 DEF ParentsOwned, TopsHaveNoChild, TypeOK, TableOK, StacksOK, Live, p
<1>8. SingleStack'
  BY <1>1, <1>2, <1>3 DEF SingleStack, TypeOK, TableOK, StacksOK, Live
<1>9. TopsHaveNoChild'
  <2> SUFFICES ASSUME NEW r \in Live'
               PROVE  PID'[pid_bitmap'[r]] # NoPid /\ parentId'[r] # PID'[pid_bitmap'[r]]
    BY DEF TopsHaveNoChild
  <2>1. r \in Live /\ r # p /\ pid_bitmap'[r] = pid_bitmap[r] /\ pid_bitmap[r] \in Terminals
    BY <1>1, <1>2, <1>3 DEF TypeOK, Live
  <2>2. CASE pid_bitmap[r] = t
    <3>1. PID'[t] = q
      BY <1>2 DEF TypeOK
    <3>2. parentId[r] # q
      BY <1>1, <2>1, <2>2 DEF TableOK, StacksOK, SingleStack, q
    <3> QED BY <1>1, <1>2, <2>1, <2>2, <3>1, <3>2
  <2>3. CASE pid_bitmap[r] # t
    BY <1>2, <2>1, <2>3 DEF TypeOK, TableOK, StacksOK, TopsHaveNoChild
  <2> QED BY <2>2, <2>3
<1>10. PidZeroReserved'
  <2>1. p # 0
    BY <1>1 DEF TableOK, PidZeroReserved, q
  <2> QED BY <1>1, <1>2, <2>1 DEF PidZeroReserved, TableOK, TypeOK
<1> QED BY <1>1, <1>5, <1>6, <1>7, <1>8, <1>9, <1>10 DEF TableOK, StacksOK, p, q


(* A new shell in place of the last process of a terminal leaves the table *)
(* in order.                                                               *)
LEMMA RespawnTable ==
  ASSUME TypeOK, TableOK, NEW t \in Terminals, PID[t] # NoPid,
         NEW sched, Respawn(t, sched)
  PROVE  TableOK'
<1> DEFINE p == PID[t]
<1> USE NumPidsAssumption DEF Terminals, Pids, NoPid
<1>1. /\ t \in 0..3 /\ p \in Pids
      /\ pid_bitmap[p] = t /\ p \in Live /\ parentId[p] = NoPid
  <2>1. t \in 0..3 /\ p \in Pids /\ p \in -1..(NumPids - 1)
    BY DEF TypeOK
  <2>2. pid_bitmap[p] = t /\ p \in Live
    BY <2>1 DEF TableOK, StacksOK, TopsOwned, Live
  <2> QED BY <2>1, <2>2 DEF Respawn
<1> DEFINE freed == Freed(pid_bitmap, p)
<1>2. PICK n \in Pids :
      /\ IsNextAvail(freed, n)
      /\ PID' = [PID EXCEPT ![0] = PID[0] - 1 + 1, ![t] = n]
      /\ pid_bitmap' = [freed EXCEPT ![n] = t]
      /\ parentId' = [parentId EXCEPT ![n] = NoPid]
  BY DEF Respawn, Launch
<1> HIDE DEF p
<1>3. Live' = (Live \ {p}) \cup {n} /\ n \notin Live \ {p}
  BY <1>1, <1>2 DEF TypeOK, Live, IsNextAvail, Freed
<1>4. /\ \A r \in Live \ {p} : r # n /\ pid_bitmap'[r] = pid_bitmap[r] /\ parentId'[r] = parentId[r]
      /\ \A r \in Live \ {p} : parentId[r] # p
      /\ pid_bitmap'[n] = t /\ parentId'[n] = NoPid
  <2>1. \A r \in Live : parentId[r] # p
    <3> SUFFICES ASSUME NEW r \in Live, parentId[r] = p PROVE FALSE
      OBVIOUS
    <3>1. pid_bitmap[r] = t
      BY <1>1 DEF TableOK, StacksOK, ParentsOwned
    <3> QED BY <3>1 DEF TableOK, StacksOK, TopsHaveNoChild, p
  <2>2. \A r \in Live \ {p} : r \in Pids /\ r # n
    BY <1>3 DEF Live
  <2> QED BY <1>1, <1>2, <2>1, <2>2 DEF TypeOK, Freed
<1>5. CountOK'
  <2>1. IsFiniteSet(Live \ {p}) /\ Cardinality(Live \ {p}) = Cardinality(Live) - 1
    BY <1>1, LiveFinite, FS_RemoveElement
  <2>2. Cardinality(Live') = Cardinality(Live \ {p}) + 1
    BY <1>3, <2>1, FS_AddElement
  <2>3. PID'[0] = PID[0]
    BY <1>2 DEF TypeOK
  <2>4. Cardinality(Live) \in Nat
    BY LiveFinite, FS_CardinalityType
  <2> QED BY <2>1, <2>2, <2>3, <2>4 DEF CountOK, TableOK, TypeOK
<1>6. TopsOwned'
  <2> SUFFICES ASSUME NEW s \in Terminals, PID'[s] # NoPid
               PROVE  pid_bitmap'[PID'[s]] = s
    BY DEF TopsOwned
  <2>1. CASE s = t
    BY <1>2, <1>4, <2>1 DEF TypeOK
  <2>2. CASE s # t
    <3>1. PID'[s] = PID[s] /\ PID[s] \in Pids
      BY <1>2, <2>2 DEF TypeOK
    <3>2. pid_bitmap[PID[s]] = s
      BY <3>1 DEF TableOK, StacksOK, TopsOwned
    <3>3. PID[s] \in Live \ {p}
      BY <1>1, <2>2, <3>1, <3>2 DEF Live
    <3> QED BY <1>4, <3>1, <3>2, <3>3
  <2> QED BY <2>1, <2>2
<1>7. ParentsOwned'
  <2> SUFFICES ASSUME NEW r \in Live', parentId'[r] # NoPid
               PROVE  pid_bitmap'[parentId'[r]] = pid_bitmap'[r]
    BY DEF ParentsOwned
  <2>1. r \in Live \ {p} /\ parentId[r] # p /\ parentId[r] # NoPid
    BY <1>3, <1>4
  <2>2. parentId[r] \in Pids /\ pid_bitmap[parentId[r]] = pid_bitmap[r] /\ pid_bitmap[r] # 0
    BY <2>1 DEF TypeOK, TableOK, StacksOK, ParentsOwned, Live
  <2>3. parentId[r] \in Live \ {p}
    BY <2>1, <2>2 DEF Live
  <2> QED BY <1>4, <2>1, <2>2, <2>3
<1>8. \A r \in Live \ {p} : pid_bitmap[r] = t => parentId[r] # NoPid
  BY <1>1 DEF TableOK, StacksOK, SingleStack
<1>9. SingleStack'
  BY <1>3, <1>4, <1>8 DEF SingleStack, TableOK, StacksOK
<1>10. TopsHaveNoChild'
  <2> SUFFICES ASSUME NEW r \in Live'
               PROVE  PID'[pid_bitmap'[r]] # NoPid /\ parentId'[r] # PID'[pid_bitmap'[r]]
    BY DEF TopsHaveNoChild
  <2>1. PID'[t] = n /\ \A s \in Terminals : s # t => PID'[s] = PID[s]
    BY <1>2 DEF TypeOK
  <2>2. CASE r = n
    BY <1>4, <2>1, <2>2
  <2>3. CASE r # n
    <3>1. r \in Live \ {p} /\ pid_bitmap[r] \in Terminals
      <4>1. r \in Live \ {p}
        BY <1>3, <2>3
      <4> QED BY <4>1 DEF TypeOK, Live
    <3>2. parentId[r] # n
      <4> SUFFICES ASSUME parentId[r] = n PROVE FALSE
        OBVIOUS
      <4>1. pid_bitmap[n] = pid_bitmap[r]
        BY <3>1 DEF TableOK, StacksOK, ParentsOwned
      <4>2. n \in Live /\ n # p
        BY <1>4, <3>1, <4>1 DEF Live
      <4> QED BY <1>3, <4>2
    <3> QED BY <1>4, <2>1, <3>1, <3>2 DEF TableOK, StacksOK, TopsHaveNoChild
  <2> QED BY <2>2, <2>3
<1>11. PidZeroReserved'
  <2>1. 0 \in Pids
    OBVIOUS
  <2>2. CASE p = 0
    <3>1. t = 1 /\ freed[0] = 0
      BY <1>1, <2>1, <2>2 DEF TableOK, PidZeroReserved, TypeOK, Freed
    <3>2. n = 0
      BY <1>2, <2>1, <3>1 DEF IsNextAvail
    <3> QED BY <1>4, <3>1, <3>2 DEF PidZeroReserved
  <2>3. CASE p # 0
    <3>1. 0 \in Live \ {p}
      BY <2>1, <2>3 DEF TableOK, PidZeroReserved, Live
    <3> QED BY <1>4, <3>1 DEF TableOK, PidZeroReserved
  <2> QED BY <2>2, <2>3
<1> QED BY <1>5, <1>6, <1>7, <1>9, <1>10, <1>11 DEF TableOK, StacksOK

-----------------------------------------------------------------------------
(* What the PIT saves is the stack of the running process, so that every   *)
(* terminal then has its own stack saved.                                  *)
LEMMA SavedOK ==
  ASSUME TypeOK, ContextOK, DisplayOK
  PROVE  /\ SavedContext \in [Pids -> Opt]
         /\ \A s \in Terminals : PID[s] # NoPid => SavedContext[PID[s]] = PID[s]
<1>1. PID[terminal_curr] \in Pids /\ esp = PID[terminal_curr]
  BY NumPidsAssumption DEF TypeOK, ContextOK, DisplayOK, Pids, Terminals, NoPid
<1>2. SavedContext \in [Pids -> Opt]
  BY <1>1 DEF SavedContext, TypeOK, Opt
<1>3. ASSUME NEW s \in Terminals, PID[s] # NoPid
      PROVE  SavedContext[PID[s]] = PID[s]
  <2>1. PID[s] \in Pids
    BY <1>3 DEF TypeOK, Pids, Terminals, NoPid
  <2>2. CASE s = terminal_curr
    BY <1>1, <2>2 DEF SavedContext, TypeOK
  <2>3. CASE s # terminal_curr
    BY <1>1, <1>3, <2>1, <2>3 DEF SavedContext, TypeOK, ContextOK
  <2> QED BY <2>2, <2>3
<1> QED BY <1>2, <1>3

(* A new process runs on its own kernel stack with its own page mapped and *)
(* disturbs no context saved for another terminal.                         *)
LEMMA LaunchContext ==
  ASSUME TypeOK, \A r \in Live : old_esp[r] = parentId[r],
         NEW t \in Terminals, NEW parent \in Opt, NEW count \in Int,
         count + 1 \in 0..(NumPids - 1),
         NEW bitmap \in [Pids -> 0..3], NEW sched \in [Pids -> Opt],
         NEW st \in [Pids -> {0, 1}],
         \A r \in Pids : bitmap[r] # 0 => pid_bitmap[r] # 0,
         \A s \in Terminals \ {t} :
           PID[s] # NoPid => sched[PID[s]] = PID[s] /\ bitmap[PID[s]] # 0,
         parent = NoPid \/ parent = tss_esp0,
         terminal_curr' = t,
         Launch(t, parent, count, bitmap, sched, st)
  PROVE  /\ ProcessTypeOK'
         /\ PID'[t] # NoPid
         /\ \A s \in Terminals \ {t} : PID'[s] = PID[s]
         /\ ContextOK'
<1> USE NumPidsAssumption DEF Terminals, Pids, NoPid, Opt
<1> PICK p \in Pids :
      /\ bitmap[p] = 0
      /\ PID' = [PID EXCEPT ![0] = count + 1, ![t] = p]
      /\ pid_bitmap' = [bitmap EXCEPT ![p] = t]
      /\ parentId' = [parentId EXCEPT ![p] = parent]
      /\ old_esp' = [old_esp EXCEPT ![p] = IF parent = NoPid THEN NoPid ELSE tss_esp0]
      /\ schedule_esp' = [sched EXCEPT ![p] = NoPid]
      /\ state' = [q \in Pids |-> IF q = p THEN 1
                                  ELSE IF parent # NoPid /\ q = p - 1 THEN 0
                                  ELSE st[q]]
      /\ user_page' = p /\ tss_esp0' = p /\ esp' = p
  BY DEF Launch, IsNextAvail
<1>1. /\ PID' \in [0..3 -> -1..(NumPids - 1)] /\ PID'[0] >= 0
      /\ PID'[t] = p
      /\ \A s \in Terminals \ {t} : PID'[s] = PID[s]
  BY SMTT(40) DEF TypeOK
<1>2. /\ pid_bitmap' \in [Pids -> 0..3]
      /\ parentId' \in [Pids -> Opt] /\ old_esp' \in [Pids -> Opt]
      /\ schedule_esp' \in [Pids -> Opt]
  BY DEF TypeOK
<1>3. state' \in [Pids -> {0, 1}]
  OBVIOUS
<1>4. \A s \in Terminals \ {t} : PID'[s] # NoPid => schedule_esp'[PID'[s]] = PID'[s]
  <2> SUFFICES ASSUME NEW s \in Terminals \ {t}, PID'[s] # NoPid
               PROVE  schedule_esp'[PID'[s]] = PID'[s]
    OBVIOUS
  <2>1. PID'[s] = PID[s]
    BY <1>1
  <2>2. PID[s] \in -1..(NumPids - 1)
    BY DEF TypeOK
  <2>3. PID[s] \in Pids
    BY <2>1, <2>2
  <2>4. sched[PID[s]] = PID[s] /\ PID[s] # p
    BY <2>1
  <2> QED BY <2>1, <2>3, <2>4
<1>5. \A r \in Live' : old_esp'[r] = parentId'[r]
  <2> SUFFICES ASSUME NEW r \in Pids, pid_bitmap'[r] # 0
               PROVE  old_esp'[r] = parentId'[r]
    BY DEF Live
  <2>1. CASE r = p
    BY <2>1 DEF TypeOK
  <2>2. CASE r # p
    <3>1. r \in Live
      BY <2>2 DEF Live
    <3> QED BY <2>2, <3>1 DEF TypeOK
  <2> QED BY <2>1, <2>2
<1>6. ContextOK'
  BY <1>1, <1>4, <1>5 DEF ContextOK
<1>7. tss_esp0' \in Pids /\ esp' \in Pids /\ user_page' \in Pids /\ PID'[t] # NoPid
  BY <1>1
<1> QED BY <1>1, <1>2, <1>3, <1>6, <1>7, Zenon DEF ProcessTypeOK

(* A process whose child has halted goes on on its own kernel stack with   *)
(* its own page mapped.                                                    *)
LEMMA PopContext ==
  ASSUME TypeOK, TableOK, \A r \in Live : old_esp[r] = parentId[r],
         NEW t \in Terminals, PID[t] # NoPid, NEW sched \in [Pids -> Opt],
         \A s \in Terminals \ {t} : PID[s] # NoPid => sched[PID[s]] = PID[s],
         terminal_curr' = t,
         Pop(t, sched)
  PROVE  /\ ProcessTypeOK'
         /\ PID'[t] # NoPid
         /\ \A s \in Terminals \ {t} : PID'[s] = PID[s]
         /\ ContextOK'
<1> USE NumPidsAssumption DEF Terminals, Pids, NoPid, Opt
<1> DEFINE p == PID[t]
           q == parentId[p]
<1>1. PID[0] > 0 /\ q \in Pids /\ p \in Pids
  BY PopTable DEF Live, TypeOK
<1>2. /\ PID' = [PID EXCEPT ![0] = @ - 1, ![t] = q]
      /\ pid_bitmap' = [pid_bitmap EXCEPT ![p] = 0]
      /\ state' = [state EXCEPT ![p] = 0, ![q] = 1]
      /\ schedule_esp' = sched
      /\ user_page' = q /\ tss_esp0' = q /\ esp' = q
      /\ parentId' = parentId /\ old_esp' = old_esp
  BY DEF Pop, ReturnToParent, Freed
<1> HIDE DEF p, q
<1>3. /\ PID' \in [0..3 -> -1..(NumPids - 1)] /\ PID'[0] >= 0
      /\ PID'[t] = q
      /\ \A s \in Terminals \ {t} : PID'[s] = PID[s]
  <2>1. PID \in [0..3 -> -1..(NumPids - 1)] /\ PID[0] - 1 \in 0..(NumPids - 1)
    BY <1>1 DEF TypeOK
  <2>2. q \in -1..(NumPids - 1)
    BY <1>1
  <2>3. PID' = [PID EXCEPT ![0] = PID[0] - 1, ![t] = q]
    BY <1>2
  <2> QED BY <2>1, <2>2, <2>3
<1>4. /\ pid_bitmap' \in [Pids -> 0..3]
      /\ parentId' \in [Pids -> Opt] /\ old_esp' \in [Pids -> Opt]
      /\ schedule_esp' \in [Pids -> Opt] /\ state' \in [Pids -> {0, 1}]
  BY <1>1, <1>2 DEF TypeOK
<1>5. \A r \in Live' : r \in Live
  BY <1>1, <1>2 DEF Live, TypeOK
<1>6. \A s \in Terminals \ {t} : PID'[s] # NoPid => schedule_esp'[PID'[s]] = PID'[s]
  BY <1>2, <1>3
<1>7. ContextOK'
  BY <1>2, <1>3, <1>5, <1>6 DEF ContextOK
<1>8. tss_esp0' \in Pids /\ esp' \in Pids /\ user_page' \in Pids /\ PID'[t] # NoPid
  BY <1>1, <1>2, <1>3
<1> QED BY <1>3, <1>4, <1>7, <1>8, Zenon DEF ProcessTypeOK

(* What the three lemmas above say of a whole halt(), whoever causes it.   *)
LEMMA HaltTopOK ==
  ASSUME TypeOK, TableOK, \A r \in Live : old_esp[r] = parentId[r],
         NEW t \in Terminals, PID[t] # NoPid, NEW sched \in [Pids -> Opt],
         \A s \in Terminals \ {t} : PID[s] # NoPid => sched[PID[s]] = PID[s],
         terminal_curr' = t,
         HaltTop(t, sched)
  PROVE  /\ TableOK'
         /\ ProcessTypeOK'
         /\ PID'[t] # NoPid
         /\ \A s \in Terminals \ {t} : PID'[s] = PID[s]
         /\ ContextOK'
<1>1. CASE ReturnToParent(t, sched)
  <2>1. Pop(t, sched)
    BY <1>1 DEF Pop
  <2> QED BY <2>1, PopTable, PopContext
<1>2. CASE Respawn(t, sched)
  <2> DEFINE p == PID[t]
             bitmap == Freed(pid_bitmap, p)
             st == [state EXCEPT ![p] = 0]
  <2>1. TableOK'
    BY <1>2, RespawnTable
  <2>2. p \in Pids /\ PID[0] - 1 \in Int /\ (PID[0] - 1) + 1 \in 0..(NumPids - 1)
    BY NumPidsAssumption DEF TypeOK, Pids, NoPid, Terminals
  <2>3. bitmap \in [Pids -> 0..3] /\ st \in [Pids -> {0, 1}]
    BY <2>2 DEF TypeOK, Freed
  <2>4. \A r \in Pids : bitmap[r] # 0 => pid_bitmap[r] # 0
    BY <2>2 DEF TypeOK, Freed
  <2>5. ASSUME NEW s \in Terminals \ {t}, PID[s] # NoPid
        PROVE  sched[PID[s]] = PID[s] /\ bitmap[PID[s]] # 0
    <3>1. PID[s] \in Pids
      BY <2>5, NumPidsAssumption DEF TypeOK, Pids, NoPid, Terminals
    <3>2. pid_bitmap[PID[s]] = s /\ pid_bitmap[p] = t
      BY <2>5 DEF TableOK, StacksOK, TopsOwned
    <3>3. PID[s] # p /\ s # 0
      BY <2>5, <3>2 DEF Terminals
    <3> QED BY <2>5, <3>1, <3>2, <3>3 DEF TypeOK, Freed
  <2>6. Launch(t, NoPid, PID[0] - 1, bitmap, sched, st)
    BY <1>2 DEF Respawn
  <2>7. NoPid \in Opt
    BY DEF Opt
  <2> HIDE DEF p, bitmap, st
  <2> QED BY <2>1, <2>2, <2>3, <2>4, <2>5, <2>6, <2>7, LaunchContext
<1> QED BY <1>1, <1>2 DEF HaltTop

(* The same for execute() and for the first visit of the timer.            *)
LEMMA PushOK ==
  ASSUME TypeOK, TableOK, \A r \in Live : old_esp[r] = parentId[r],
         NEW t \in Terminals, NEW sched \in [Pids -> Opt],
         \A s \in Terminals \ {t} : PID[s] # NoPid => sched[PID[s]] = PID[s],
         terminal_curr' = t, PID[0] < NumPids - 1,
         PID[t] = NoPid \/ PID[t] = tss_esp0,
         Launch(t, PID[t], PID[0], pid_bitmap, sched, state)
  PROVE  /\ TableOK'
         /\ ProcessTypeOK'
         /\ PID'[t] # NoPid
         /\ \A s \in Terminals \ {t} : PID'[s] = PID[s]
         /\ ContextOK'
<1>1. TableOK'
  BY PushTable DEF Push
<1>2. /\ PID[t] \in Opt /\ PID[0] \in Int /\ PID[0] + 1 \in 0..(NumPids - 1)
      /\ pid_bitmap \in [Pids -> 0..3] /\ state \in [Pids -> {0, 1}]
  BY NumPidsAssumption DEF TypeOK, Opt, Pids, NoPid, Terminals
<1>3. ASSUME NEW s \in Terminals \ {t}, PID[s] # NoPid
      PROVE  sched[PID[s]] = PID[s] /\ pid_bitmap[PID[s]] # 0
  BY <1>3 DEF TableOK, StacksOK, TopsOwned, Terminals
<1> QED BY <1>1, <1>2, <1>3, LaunchContext

-----------------------------------------------------------------------------
LEMMA InitIInv == Init => IInv
<1> SUFFICES ASSUME Init PROVE IInv
  OBVIOUS
<1> USE NumPidsAssumption DEF Init, Pids, Terminals, NoPid
<1>1. 0 \in Pids
  OBVIOUS
<1>2. TypeOK
  BY <1>1 DEF TypeOK
<1>3. Live = {0}
  BY <1>1 DEF Live
<1>4. StacksOK
  BY <1>1, <1>3 DEF StacksOK, TopsOwned, ParentsOwned, SingleStack, TopsHaveNoChild
<1>5. PidZeroReserved
  BY <1>1 DEF PidZeroReserved
<1>6. CountOK
  <2>1. Cardinality({0}) = 1
    BY FS_Singleton
  <2>2. PID[0] = 0
    OBVIOUS
  <2> QED BY <1>3, <2>1, <2>2 DEF CountOK
<1>7. ContextOK
  BY <1>1, <1>3 DEF ContextOK
<1>8. DisplayOK /\ ExitFlagOK
  BY DEF DisplayOK, ExitFlagOK
<1> QED BY <1>2, <1>4, <1>5, <1>6, <1>7, <1>8 DEF IInv, TableOK

LEMMA NextIInv == IInv /\ [Next]_vars => IInv'
<1> SUFFICES ASSUME IInv, [Next]_vars PROVE IInv'
  OBVIOUS
<1> USE DEF IInv
<1>1. /\ terminal_curr \in Terminals /\ PID[terminal_curr] # NoPid
      /\ \A r \in Live : old_esp[r] = parentId[r]
      /\ schedule_esp \in [Pids -> Opt]
      /\ \A s \in Terminals \ {terminal_curr} :
           PID[s] # NoPid => schedule_esp[PID[s]] = PID[s]
  BY DEF TypeOK, ContextOK, DisplayOK, Opt
<1>2. Candidate \in Terminals
  BY DEF Candidate, set_terminal_next, Terminals
<1>3. ASSUME Execute PROVE IInv'
  <2>1. terminal_curr' = terminal_curr /\ PID[0] < NumPids - 1
    BY <1>3, NumPidsAssumption DEF Execute, AtLimit, TypeOK, Terminals
  <2>2. Launch(terminal_curr, PID[terminal_curr], PID[0], pid_bitmap, schedule_esp, state)
    BY <1>3 DEF Execute
  <2>3. PID[terminal_curr] = tss_esp0
    BY DEF ContextOK
  <2>4. /\ TableOK' /\ ProcessTypeOK' /\ PID'[terminal_curr] # NoPid
        /\ \A s \in Terminals \ {terminal_curr} : PID'[s] = PID[s]
        /\ ContextOK'
    BY <1>1, <2>1, <2>2, <2>3, PushOK
  <2>5. TypeOK'
    BY <1>3, <2>4 DEF Execute, TypeOK, ProcessTypeOK, Opt, displayVars
  <2>6. \A s \in Terminals : PID'[s] = NoPid <=> PID[s] = NoPid
    BY <1>1, <2>4
  <2>7. DisplayOK'
    BY <1>3, <2>4, <2>6 DEF Execute, DisplayOK, TypeOK, Terminals, displayVars
  <2>8. ExitFlagOK'
    BY <1>3, <2>4, <2>6 DEF Execute, ExitFlagOK, TypeOK
  <2> QED BY <2>4, <2>5, <2>7, <2>8
<1>4. ASSUME Halt PROVE IInv'
  <2>1. terminal_curr' = terminal_curr /\ HaltTop(terminal_curr, schedule_esp)
    BY <1>4 DEF Halt
  <2>2. /\ TableOK' /\ ProcessTypeOK' /\ PID'[terminal_curr] # NoPid
        /\ \A s \in Terminals \ {terminal_curr} : PID'[s] = PID[s]
        /\ ContextOK'
    BY <1>1, <2>1, HaltTopOK
  <2>3. TypeOK'
    BY <1>4, <2>2 DEF Halt, TypeOK, ProcessTypeOK, Opt, displayVars
  <2>4. \A s \in Terminals : PID'[s] = NoPid <=> PID[s] = NoPid
    BY <1>1, <2>2
  <2>5. DisplayOK'
    BY <1>4, <2>2, <2>4 DEF Halt, DisplayOK, TypeOK, Terminals, displayVars
  <2>6. ExitFlagOK'
    BY <1>4, <2>2, <2>4 DEF Halt, ExitFlagOK, TypeOK
  <2> QED BY <2>2, <2>3, <2>5, <2>6
<1>5. ASSUME NEW F \in SUBSET Terminals, AltFn(F) PROVE IInv'
  <2>1. /\ UNCHANGED <<PID, pid_bitmap, parentId, old_esp, state>>
        /\ UNCHANGED <<schedule_esp, tss_esp0, esp, user_page>>
        /\ UNCHANGED <<terminal_on_display_curr, terminal_curr, terminal_next, kb_exit_flag>>
        /\ active' = active \cup (F \ {1})
        /\ terminal_on_display_next' \in F
    <3>1. F \subseteq {1, 2, 3} /\ F # {}
      BY <1>5 DEF AltFn, Terminals
    <3>2. 1 \in F \/ 2 \in F \/ 3 \in F
      BY <3>1
    <3> QED BY <1>5, <3>2 DEF AltFn, procVars, contextVars
  <2>2. Live' = Live
    BY <2>1 DEF Live
  <2>3. TypeOK'
    BY <2>1 DEF TypeOK, Terminals
  <2>4. TableOK'
    BY <2>1, <2>2 DEF TableOK, StacksOK, TopsOwned, ParentsOwned, SingleStack,
                      TopsHaveNoChild, PidZeroReserved, CountOK
  <2>5. ContextOK'
    BY <2>1, <2>2 DEF ContextOK
  <2>6. DisplayOK'
    BY <2>1 DEF DisplayOK
  <2>7. ExitFlagOK'
    BY <2>1 DEF ExitFlagOK
  <2> QED BY <2>3, <2>4, <2>5, <2>6, <2>7
<1>6. ASSUME CtrlC PROVE IInv'
  <2>1. CASE Halt
    BY <1>4, <2>1
  <2>2. CASE /\ terminal_curr # terminal_on_display_curr
             /\ kb_exit_flag' = kb_exit_flag \cup {terminal_on_display_curr}
             /\ UNCHANGED <<procVars, contextVars, displayVars, terminal_curr, terminal_next>>
    <3> USE <2>2 DEF procVars, contextVars, displayVars
    <3>1. Live' = Live
      BY DEF Live
    <3>2. TypeOK'
      BY DEF TypeOK
    <3>3. TableOK'
      BY <3>1 DEF TableOK, StacksOK, TopsOwned, ParentsOwned, SingleStack,
                  TopsHaveNoChild, PidZeroReserved, CountOK
    <3>4. ContextOK' /\ DisplayOK'
      BY <3>1 DEF ContextOK, DisplayOK
    <3>5. ExitFlagOK'
      BY DEF ExitFlagOK, DisplayOK
    <3> QED BY <3>2, <3>3, <3>4, <3>5
  <2> QED BY <1>6, <2>1, <2>2 DEF CtrlC
<1>7. ASSUME UNCHANGED vars PROVE IInv'
  <2> USE <1>7 DEF vars, procVars, contextVars, displayVars
  <2>1. Live' = Live
    BY DEF Live
  <2>2. TypeOK'
    BY DEF TypeOK
  <2>3. TableOK'
    BY <2>1 DEF TableOK, StacksOK, TopsOwned, ParentsOwned, SingleStack,
                TopsHaveNoChild, PidZeroReserved, CountOK
  <2>4. ContextOK' /\ DisplayOK' /\ ExitFlagOK'
    BY <2>1 DEF ContextOK, DisplayOK, ExitFlagOK
  <2> QED BY <2>2, <2>3, <2>4
<1>8. ASSUME PitStay PROVE IInv'
  <2>1. UNCHANGED vars
    BY <1>8 DEF PitStay, DisplayOK, vars
  <2> QED BY <1>7, <2>1
<1>9. ASSUME PitLimit PROVE IInv'
  <2>1. SavedContext \in [Pids -> Opt]
        /\ \A s \in Terminals : PID[s] # NoPid => SavedContext[PID[s]] = PID[s]
    BY SavedOK
  <2> USE <1>9 DEF PitLimit, procVars
  <2>2. Live' = Live
    BY DEF Live
  <2>3. TypeOK'
    BY <2>1 DEF TypeOK, Opt
  <2>4. TableOK'
    BY <2>2 DEF TableOK, StacksOK, TopsOwned, ParentsOwned, SingleStack,
                TopsHaveNoChild, PidZeroReserved, CountOK
  <2>5. ContextOK'
    BY <2>1, <2>2 DEF ContextOK
  <2>6. DisplayOK'
    BY DEF DisplayOK, TypeOK, Terminals
  <2>7. ExitFlagOK'
    BY DEF ExitFlagOK
  <2> QED BY <2>3, <2>4, <2>5, <2>6, <2>7
<1>10. ASSUME PitCreate PROVE IInv'
  <2>1. SavedContext \in [Pids -> Opt]
        /\ \A s \in Terminals : PID[s] # NoPid => SavedContext[PID[s]] = PID[s]
    BY SavedOK
  <2>2. /\ terminal_curr' = Candidate /\ Candidate # terminal_curr
        /\ PID[Candidate] = NoPid /\ PID[0] < NumPids - 1
        /\ Launch(Candidate, PID[Candidate], PID[0], pid_bitmap, SavedContext, state)
    BY <1>10 DEF PitCreate
  <2>3. /\ TableOK' /\ ProcessTypeOK' /\ PID'[Candidate] # NoPid
        /\ \A s \in Terminals \ {Candidate} : PID'[s] = PID[s]
        /\ ContextOK'
    BY <1>1, <1>2, <2>1, <2>2, PushOK
  <2>4. Candidate = 1 \/ Candidate \in active
    BY <2>2 DEF Candidate, set_terminal_next
  <2>5. TypeOK'
    BY <1>2, <1>10, <2>3 DEF PitCreate, ShowIfRequested, TypeOK, ProcessTypeOK, Opt
  <2>6. DisplayOK'
    BY <1>10, <2>3, <2>4 DEF PitCreate, ShowIfRequested, DisplayOK, TypeOK, Terminals
  <2>7. ExitFlagOK'
    BY <1>10, <2>2, <2>3 DEF PitCreate, ExitFlagOK, TypeOK
  <2> QED BY <2>3, <2>5, <2>6, <2>7
<1>11. ASSUME PitSwitch PROVE IInv'
  <2>1. SavedContext \in [Pids -> Opt]
        /\ \A s \in Terminals : PID[s] # NoPid => SavedContext[PID[s]] = PID[s]
    BY SavedOK
  <2>2. /\ schedule_esp[PID[Candidate]] = PID[Candidate]
        /\ PID[Candidate] \in Pids
    BY <1>2, <1>11, NumPidsAssumption
    DEF PitSwitch, SwitchTo, ContextOK, TypeOK, Pids, Terminals, NoPid
  <2>3. Live' = Live
    BY <1>11 DEF PitSwitch, procVars, Live
  <2>4. TableOK'
    BY <1>11, <2>3 DEF PitSwitch, procVars, TableOK, StacksOK, TopsOwned, ParentsOwned,
                       SingleStack, TopsHaveNoChild, PidZeroReserved, CountOK
  <2>5. TypeOK'
    BY <1>2, <1>11, <2>1, <2>2 DEF PitSwitch, SwitchTo, ShowIfRequested, procVars, TypeOK, Opt
  <2>6. ContextOK'
    BY <1>2, <1>11, <2>1, <2>2, <2>3 DEF PitSwitch, SwitchTo, procVars, ContextOK
  <2>7. DisplayOK'
    BY <1>2, <1>11 DEF PitSwitch, SwitchTo, ShowIfRequested, procVars, DisplayOK, Terminals
  <2>8. ExitFlagOK'
    BY <1>11 DEF PitSwitch, SwitchTo, procVars, ExitFlagOK
  <2> QED BY <2>4, <2>5, <2>6, <2>7, <2>8
<1>12. ASSUME PitSwitchAndHalt PROVE IInv'
  <2>1. SavedContext \in [Pids -> Opt]
        /\ \A s \in Terminals : PID[s] # NoPid => SavedContext[PID[s]] = PID[s]
    BY SavedOK
  <2>2. /\ terminal_curr' = Candidate /\ PID[Candidate] # NoPid
        /\ HaltTop(Candidate, SavedContext)
    BY <1>12 DEF PitSwitchAndHalt, SwitchTo
  <2>3. /\ TableOK' /\ ProcessTypeOK' /\ PID'[Candidate] # NoPid
        /\ \A s \in Terminals \ {Candidate} : PID'[s] = PID[s]
        /\ ContextOK'
    BY <1>1, <1>2, <2>1, <2>2, HaltTopOK
  <2>4. \A s \in Terminals : PID'[s] = NoPid <=> PID[s] = NoPid
    BY <2>2, <2>3
  <2>5. TypeOK'
    BY <1>2, <1>12, <2>3
    DEF PitSwitchAndHalt, SwitchTo, ShowIfRequested, TypeOK, ProcessTypeOK, Opt
  <2>6. DisplayOK'
    BY <1>2, <1>12, <2>3, <2>4
    DEF PitSwitchAndHalt, SwitchTo, ShowIfRequested, DisplayOK, TypeOK, Terminals
  <2>7. ExitFlagOK'
    BY <1>12, <2>4 DEF PitSwitchAndHalt, SwitchTo, ExitFlagOK, TypeOK
  <2> QED BY <2>3, <2>5, <2>6, <2>7
<1>13. ASSUME TerminalRead PROVE IInv'
  <2> USE <1>13 DEF TerminalRead, procVars, contextVars, displayVars
  <2>1. Live' = Live
    BY DEF Live
  <2>2. TypeOK'
    BY DEF TypeOK
  <2>3. TableOK'
    BY <2>1 DEF TableOK, StacksOK, TopsOwned, ParentsOwned, SingleStack,
                TopsHaveNoChild, PidZeroReserved, CountOK
  <2>4. ContextOK' /\ DisplayOK' /\ ExitFlagOK'
    BY <2>1 DEF ContextOK, DisplayOK, ExitFlagOK
  <2> QED BY <2>2, <2>3, <2>4
<1> QED
  BY <1>3, <1>4, <1>5, <1>6, <1>7, <1>8, <1>9, <1>10, <1>11, <1>12,
     <1>13 DEF Next, Pit

-----------------------------------------------------------------------------
(* Every reachable state satisfies the invariant, whatever the number of   *)
(* pids.                                                                   *)
THEOREM Invariance == Spec => []IInv
<1> QED BY InitIInv, NextIInv, PTL DEF Spec

(* The variables stay in range: no pid, terminal or stack of halt(),       *)
(* execute() and the PIT handler indexes outside its array.                *)
THEOREM TypeCorrect == Spec => []TypeOK
<1>1. IInv => TypeOK
  BY DEF IInv
<1> QED BY <1>1, Invariance, PTL

(* The processes of each terminal form one stack, under execute(), halt(), *)
(* Ctrl+C and any order of timer interrupts.                               *)
THEOREM StacksCorrect == Spec => []StacksOK
<1>1. IInv => StacksOK
  BY DEF IInv, TableOK
<1> QED BY <1>1, Invariance, PTL

(* The process count that enforces the limit never drifts from the bitmap. *)
THEOREM CountCorrect == Spec => []CountOK
<1>1. IInv => CountOK
  BY DEF IInv, TableOK
<1> QED BY <1>1, Invariance, PTL

(* Pid 0 stays with the first shell, so the address the parent's PCB is    *)
(* looked for at is inside the kernel page.                                *)
THEOREM PidZeroCorrect == Spec => []PidZeroReserved
<1>1. IInv => PidZeroReserved
  BY DEF IInv, TableOK
<1> QED BY <1>1, Invariance, PTL

(* The CPU runs each process on its own kernel stack and user page, and    *)
(* every suspended terminal has its own stack saved.                       *)
THEOREM ContextCorrect == Spec => []ContextOK
<1>1. IInv => ContextOK
  BY DEF IInv
<1> QED BY <1>1, Invariance, PTL

(* The running and the displayed terminal have a process, and a terminal   *)
(* with a process never leaves the round robin.                            *)
THEOREM DisplayCorrect == Spec => []DisplayOK
<1>1. IInv => DisplayOK
  BY DEF IInv
<1> QED BY <1>1, Invariance, PTL

(* A pending Ctrl+C belongs to a suspended terminal that has a process.    *)
THEOREM ExitFlagCorrect == Spec => []ExitFlagOK
<1>1. IInv => ExitFlagOK
  BY DEF IInv
<1> QED BY <1>1, Invariance, PTL

-----------------------------------------------------------------------------
(* What one step does to the stacks: only that of the terminal that runs   *)
(* when the step is over can change, and it is not emptied.                *)
LEMMA StackStep ==
  ASSUME IInv, [Next]_vars
  PROVE  /\ PID'[terminal_curr'] # NoPid
         /\ \A t \in Terminals \ {terminal_curr'} : PID'[t] = PID[t]
<1> DEFINE Goal == /\ PID'[terminal_curr'] # NoPid
                   /\ \A t \in Terminals \ {terminal_curr'} : PID'[t] = PID[t]
<1> USE DEF IInv
<1>1. /\ terminal_curr \in Terminals /\ PID[terminal_curr] # NoPid
      /\ \A r \in Live : old_esp[r] = parentId[r]
      /\ schedule_esp \in [Pids -> Opt]
      /\ \A s \in Terminals \ {terminal_curr} :
           PID[s] # NoPid => schedule_esp[PID[s]] = PID[s]
  BY DEF TypeOK, ContextOK, DisplayOK, Opt
<1>2. /\ Candidate \in Terminals
      /\ SavedContext \in [Pids -> Opt]
      /\ \A s \in Terminals : PID[s] # NoPid => SavedContext[PID[s]] = PID[s]
  BY SavedOK DEF Candidate, set_terminal_next, Terminals
<1>3. CASE UNCHANGED <<PID, terminal_curr>>
  BY <1>1, <1>3
<1>4. CASE Execute
  <2>1. terminal_curr' = terminal_curr /\ PID[0] < NumPids - 1
    BY <1>4, NumPidsAssumption DEF Execute, AtLimit, TypeOK, Terminals
  <2>2. Launch(terminal_curr, PID[terminal_curr], PID[0], pid_bitmap, schedule_esp, state)
    BY <1>4 DEF Execute
  <2>3. PID[terminal_curr] = tss_esp0
    BY DEF ContextOK
  <2> QED BY <1>1, <2>1, <2>2, <2>3, PushOK
<1>5. CASE Halt
  <2>1. terminal_curr' = terminal_curr /\ HaltTop(terminal_curr, schedule_esp)
    BY <1>5 DEF Halt
  <2> QED BY <1>1, <2>1, HaltTopOK
<1>6. CASE PitCreate
  <2>1. /\ terminal_curr' = Candidate /\ PID[0] < NumPids - 1
        /\ PID[Candidate] = NoPid
        /\ Launch(Candidate, PID[Candidate], PID[0], pid_bitmap, SavedContext, state)
    BY <1>6 DEF PitCreate
  <2> QED BY <1>1, <1>2, <2>1, PushOK
<1>7. CASE PitSwitch
  BY <1>7 DEF PitSwitch, SwitchTo, procVars
<1>8. CASE PitSwitchAndHalt
  <2>1. /\ terminal_curr' = Candidate /\ PID[Candidate] # NoPid
        /\ HaltTop(Candidate, SavedContext)
    BY <1>8 DEF PitSwitchAndHalt, SwitchTo
  <2> QED BY <1>1, <1>2, <2>1, HaltTopOK
<1>9. \/ UNCHANGED <<PID, terminal_curr>>
      \/ Execute \/ Halt \/ PitCreate \/ PitSwitch \/ PitSwitchAndHalt
  BY DEF Next, Pit, TerminalRead, AltFn, CtrlC, PitStay, PitLimit, vars, procVars
<1> QED BY <1>3, <1>4, <1>5, <1>6, <1>7, <1>8, <1>9

(* Nothing that happens in one terminal changes the stack of processes of  *)
(* another, and no terminal ever loses its last process.                   *)
THEOREM OnlyRunning == Spec => OnlyRunningStackChanges
<1>1. IInv /\ [Next]_vars =>
        [\A t \in Terminals :
           /\ PID'[t] # PID[t] => t = terminal_curr'
           /\ PID[t] # NoPid => PID'[t] # NoPid]_vars
  BY StackStep
<1> QED BY <1>1, Invariance, PTL DEF Spec, OnlyRunningStackChanges

(* A step that clears a pending Ctrl+C, other than terminal_read() writing  *)
(* over it, halts the top of the terminal it was pending for; a step that   *)
(* does not leaves that top where it is.                                    *)
LEMMA ExitStep ==
  ASSUME IInv, [Next]_vars, ~TerminalRead, NEW t \in kb_exit_flag
  PROVE  IF t \in kb_exit_flag'
         THEN PID'[t] = PID[t]
         ELSE /\ terminal_curr' = t
              /\ IF parentId[PID[t]] # NoPid
                 THEN pid_bitmap'[PID[t]] = 0 /\ PID'[t] = parentId[PID[t]]
                 ELSE parentId'[PID'[t]] = NoPid /\ schedule_esp'[PID'[t]] = NoPid
<1> USE DEF IInv
<1>1. t \in Terminals /\ PID[t] # NoPid /\ PID[t] \in Pids /\ t # terminal_curr
  BY NumPidsAssumption DEF TypeOK, ExitFlagOK, Pids, Terminals, NoPid
<1>2. ASSUME t \in kb_exit_flag' PROVE PID'[t] = PID[t]
  <2>1. t # terminal_curr'
    BY <1>2, NextIInv DEF ExitFlagOK
  <2> QED BY <1>1, <2>1, StackStep
<1>3. ASSUME t \notin kb_exit_flag' PROVE PitSwitchAndHalt /\ t = Candidate
  BY <1>3 DEF Next, Execute, Halt, AltFn, CtrlC, Pit, PitStay, PitLimit, PitCreate,
              PitSwitch, PitSwitchAndHalt, vars
<1>4. ASSUME t \notin kb_exit_flag'
      PROVE  /\ terminal_curr' = t
             /\ IF parentId[PID[t]] # NoPid
                THEN pid_bitmap'[PID[t]] = 0 /\ PID'[t] = parentId[PID[t]]
                ELSE parentId'[PID'[t]] = NoPid /\ schedule_esp'[PID'[t]] = NoPid
  <2>1. terminal_curr' = t /\ HaltTop(t, SavedContext)
    BY <1>3, <1>4 DEF PitSwitchAndHalt, SwitchTo
  <2>2. CASE ReturnToParent(t, SavedContext)
    BY <1>1, <2>1, <2>2 DEF ReturnToParent, Freed, TypeOK, Terminals
  <2>3. CASE Respawn(t, SavedContext)
    <3>1. PICK p \in Pids :
            /\ PID' = [PID EXCEPT ![0] = PID[0] - 1 + 1, ![t] = p]
            /\ parentId' = [parentId EXCEPT ![p] = NoPid]
            /\ schedule_esp' = [SavedContext EXCEPT ![p] = NoPid]
      BY <2>3 DEF Respawn, Launch
    <3>2. SavedContext \in [Pids -> Opt]
      BY SavedOK
    <3>3. PID'[t] = p
      BY <1>1, <3>1 DEF TypeOK, Terminals
    <3>4. parentId'[p] = NoPid /\ schedule_esp'[p] = NoPid
      BY <3>1, <3>2 DEF TypeOK
    <3> QED BY <2>1, <2>3, <3>3, <3>4 DEF Respawn
  <2> QED BY <2>1, <2>2, <2>3 DEF HaltTop
<1> QED BY <1>2, <1>4

(* Ctrl+C pressed on a suspended terminal ends the program that was on the *)
(* screen and no other.                                                    *)
THEOREM ExitHitsTarget == Spec => DeferredExitHitsTarget
<1>1. IInv /\ [Next]_vars =>
        [~TerminalRead => \A t \in kb_exit_flag :
           LET p == PID[t]
           IN  IF t \in kb_exit_flag'
               THEN PID'[t] = p
               ELSE /\ terminal_curr' = t
                    /\ IF parentId[p] # NoPid
                       THEN pid_bitmap'[p] = 0 /\ PID'[t] = parentId[p]
                       ELSE parentId'[PID'[t]] = NoPid /\ schedule_esp'[PID'[t]] = NoPid]_vars
  BY ExitStep
<1> QED BY <1>1, Invariance, PTL DEF Spec, DeferredExitHitsTarget

-----------------------------------------------------------------------------
(* A timer interrupt brings every terminal of the round robin that it does *)
(* not run a turn closer: it goes on to the next terminal, or drops it,    *)
(* or finds no other terminal in the round robin.                          *)
LEMMA TimerTurns ==
  ASSUME IInv, Pit, NEW t \in ({1} \cup active') \ {terminal_curr'}
  PROVE  Turns(t)' < Turns(t)
<1>1. terminal_curr \in {1, 2, 3} /\ active \subseteq {2, 3}
  BY DEF IInv, TypeOK, Terminals
<1>2. PID[1] # NoPid /\ terminal_curr \in {1} \cup active
  BY DEF IInv, TypeOK, DisplayOK, Terminals
<1>3. CASE PitStay
  <2>1. terminal_curr' = terminal_curr /\ active' = active /\ Candidate = terminal_curr
    BY <1>3 DEF PitStay, displayVars
  <2>2. terminal_curr = 1 /\ active = {}
    BY <1>1, <2>1 DEF Candidate, set_terminal_next
  <2> QED BY <2>1, <2>2
<1>4. CASE PitLimit
  <2>1. /\ terminal_curr' = terminal_curr /\ active' = active \ {Candidate}
        /\ Candidate \in {2, 3} /\ Candidate # terminal_curr
    BY <1>1, <1>2, <1>4 DEF PitLimit, Candidate, set_terminal_next
  <2>2. t \in {1} \cup active /\ t # terminal_curr /\ t # Candidate
    BY <2>1
  <2>3. CASE terminal_curr = 1
    BY <1>1, <2>1, <2>2, <2>3 DEF Turns, Candidate, set_terminal_next
  <2>4. CASE terminal_curr = 2
    BY <1>1, <2>1, <2>2, <2>4 DEF Turns, Candidate, set_terminal_next
  <2>5. CASE terminal_curr = 3
    BY <1>1, <2>1, <2>2, <2>5 DEF Turns, Candidate, set_terminal_next
  <2> QED BY <1>1, <2>3, <2>4, <2>5
<1>5. CASE PitCreate \/ PitSwitch \/ PitSwitchAndHalt
  <2>1. terminal_curr' = Candidate /\ active' = active /\ Candidate # terminal_curr
    BY <1>5 DEF PitCreate, PitSwitch, PitSwitchAndHalt, SwitchTo, ShowIfRequested
  <2>2. t \in {1} \cup active /\ t # Candidate
    BY <2>1
  <2>3. CASE terminal_curr = 1
    BY <1>1, <2>1, <2>2, <2>3 DEF Turns, Candidate, set_terminal_next
  <2>4. CASE terminal_curr = 2
    BY <1>1, <1>2, <2>1, <2>2, <2>4 DEF Turns, Candidate, set_terminal_next
  <2>5. CASE terminal_curr = 3
    BY <1>1, <1>2, <2>1, <2>2, <2>5 DEF Turns, Candidate, set_terminal_next
  <2> QED BY <1>1, <2>3, <2>4, <2>5
<1> QED BY <1>3, <1>4, <1>5 DEF Pit

(* No other step changes whose turn it is, unless it adds a terminal.      *)
LEMMA OtherTurns ==
  ASSUME IInv, Next, ~Pit, active' \subseteq active, NEW t
  PROVE  Turns(t)' = Turns(t)
<1>1. terminal_curr' = terminal_curr
  BY DEF Next, Execute, Halt, TerminalRead, AltFn, CtrlC, displayVars
<1>2. active' = active
  BY DEF Next, Execute, Halt, TerminalRead, AltFn, CtrlC, displayVars
<1> QED BY <1>1, <1>2 DEF Turns, set_terminal_next

(* No terminal of the round robin is passed over: with every timer         *)
(* interrupt, one that drops a terminal for want of a pid included, those  *)
(* that wait are a turn closer, and nothing but an Alt+Fn puts them off.   *)
THEOREM EveryTurnComes == Spec => TurnsComeCloser
<1>1. ASSUME IInv, Next, active' \subseteq active,
             NEW t \in ({1} \cup active') \ {terminal_curr'}
      PROVE  /\ Turns(t)' <= Turns(t)
             /\ Pit => Turns(t)' < Turns(t)
  <2>1. Turns(t) \in Int /\ Turns(t)' \in Int
    BY DEF Turns
  <2>2. CASE Pit
    BY <1>1, <2>1, <2>2, TimerTurns
  <2>3. CASE ~Pit
    BY <1>1, <2>1, <2>3, OtherTurns
  <2> QED BY <2>2, <2>3
<1>2. IInv /\ [Next]_vars =>
        [active' \subseteq active =>
           \A t \in ({1} \cup active') \ {terminal_curr'} :
              /\ Turns(t)' <= Turns(t)
              /\ Pit => Turns(t)' < Turns(t)]_vars
  BY <1>1
<1> QED BY <1>2, Invariance, PTL DEF Spec, TurnsComeCloser

-----------------------------------------------------------------------------
(* A step of the scheduler is a step of TerminalSwitch or changes none of  *)
(* its variables.                                                          *)
LEMMA SwitchingStep ==
  ASSUME IInv, [Next]_vars
  PROVE  [Switching!SwitchNext]_(Switching!switchVars)
<1> DEFINE started == {t \in Terminals : PID[t] # NoPid}
<1> USE DEF IInv, Switching!Terminals, Switching!SwitchNext, Switching!switchVars
<1>1. /\ PID'[terminal_curr'] # NoPid
      /\ \A t \in Terminals \ {terminal_curr'} : PID'[t] = PID[t]
  BY StackStep
<1>2. terminal_curr \in Terminals /\ PID[terminal_curr] # NoPid
  BY DEF TypeOK, DisplayOK
<1>3. Candidate \in Terminals
  BY DEF Candidate, set_terminal_next, Terminals
<1>4. ASSUME terminal_curr' = terminal_curr PROVE started' = started
  BY <1>1, <1>2, <1>4
<1>5. CASE Execute \/ Halt
  BY <1>4, <1>5 DEF Execute, Halt, displayVars
<1>6. ASSUME NEW F \in SUBSET Terminals, AltFn(F)
      PROVE  [Switching!SwitchNext]_(Switching!switchVars)
  <2>1. F \subseteq {1, 2, 3} /\ F # {}
    BY <1>6 DEF AltFn, Terminals
  <2>2. terminal_on_display_next' \in Terminals
    BY <1>6, <2>1 DEF AltFn, Terminals
  <2>3. started' = started
    BY <1>4, <1>6 DEF AltFn
  <2> PICK n \in 1..3 : n = terminal_on_display_next'
    BY <2>2 DEF Terminals
  <2> PICK lower : lower = F \ {n}
    OBVIOUS
  <2>4. lower \subseteq 1..(n - 1) /\ n \in F
    <3>1. n = IF 3 \in F THEN 3 ELSE IF 2 \in F THEN 2 ELSE 1
      BY <1>6 DEF AltFn
    <3>2. CASE n = 3
      BY <2>1, <3>1, <3>2
    <3>3. CASE n = 2
      BY <2>1, <3>1, <3>3
    <3>4. CASE n = 1
      <4>1. 3 \notin F /\ 2 \notin F
        BY <3>1, <3>4
      <4>2. F = {1} /\ lower = {}
        BY <2>1, <3>4, <4>1
      <4> QED BY <3>4, <4>2
    <3> QED BY <3>2, <3>3, <3>4
  <2>5. active' = active \cup (({n} \cup lower) \ {1})
    BY <1>6, <2>4 DEF AltFn
  <2>6. Switching!Request(n)
    BY <1>6, <2>3, <2>5, <2>4 DEF AltFn, Switching!Request
  <2> QED BY <2>6
<1>7. CASE CtrlC
  BY <1>4, <1>5, <1>7 DEF CtrlC, displayVars
<1>8. CASE UNCHANGED vars \/ PitStay
  BY <1>4, <1>8 DEF PitStay, displayVars, vars
<1>9. CASE PitLimit
  <2>1. started' = started
    BY <1>4, <1>9 DEF PitLimit
  <2>2. Candidate \in active \ started
    BY <1>3, <1>9 DEF PitLimit, DisplayOK, Candidate, set_terminal_next
  <2>3. Switching!Refuse(Candidate)
    BY <1>9, <2>1, <2>2 DEF PitLimit, Switching!Refuse
  <2> QED BY <1>3, <2>3 DEF Terminals
<1>10. CASE PitCreate \/ PitSwitch \/ PitSwitchAndHalt
  <2> PICK n \in Switching!Terminals : n = Candidate
    BY <1>3 DEF Terminals
  <2>1. n # terminal_curr /\ terminal_curr' = n /\ ShowIfRequested(n)
    BY <1>10 DEF PitCreate, PitSwitch, PitSwitchAndHalt, SwitchTo, ShowIfRequested
  <2>2. started' = started \cup {n}
    BY <1>1, <1>3, <2>1
  <2>3. n \in {1} \cup active
    BY DEF Candidate, set_terminal_next
  <2>4. Switching!GoTo(n)
    BY <2>1, <2>2, <2>3 DEF Switching!GoTo, ShowIfRequested
  <2> QED BY <2>4
<1>11. CASE TerminalRead
  BY <1>4, <1>11 DEF TerminalRead, displayVars
<1> QED BY <1>5, <1>6, <1>7, <1>8, <1>9, <1>10, <1>11 DEF Next, Pit

(* The scheduler implements its abstract view TerminalSwitch, on which the *)
(* modules about the screen, the keyboard and the clock are built.         *)
THEOREM SchedulerImplementsSwitching == Spec => ImplementsSwitching
<1>1. Init => Switching!SwitchInit
  BY DEF Init, Switching!SwitchInit, Terminals, NoPid
<1>2. IInv /\ [Next]_vars => [Switching!SwitchNext]_(Switching!switchVars)
  BY SwitchingStep
<1> QED
  BY <1>1, <1>2, Invariance, PTL DEF Spec, ImplementsSwitching, Switching!SwitchSpec

-----------------------------------------------------------------------------
(* The natural numbers are well ordered.                                   *)
LEMMA LeastNat ==
  ASSUME NEW S, S \subseteq Nat, S # {}
  PROVE  \E k \in S : \A j \in S : k <= j
<1> DEFINE R == OpToRel(<, Nat)
<1>1. PICK k \in S : \A j \in S : ~ (<<j, k>> \in R)
  BY NatLessThanWellFounded, WFMin
<1>2. \A j \in S : ~ (j < k)
  BY <1>1 DEF OpToRel
<1> QED BY <1>2

\* In s, of length n, every process is above its parent.
Linked(n, parent, s) == \A i \in 2..n : parent[s[i]] = s[i - 1]

(* From the top down, the parent links leave no choice.                    *)
LEMMA SameStack ==
  ASSUME NEW n \in Nat, NEW S, NEW parent,
         NEW u \in [1..n -> S], NEW v \in [1..n -> S],
         n > 0 => u[n] = v[n],
         Linked(n, parent, u), Linked(n, parent, v)
  PROVE  u = v
<1> DEFINE differ == {k \in 0..(n - 1) : u[n - k] # v[n - k]}
<1>1. differ = {}
  <2> SUFFICES ASSUME differ # {} PROVE FALSE
    OBVIOUS
  <2>1. differ \subseteq Nat
    OBVIOUS
  <2>2. PICK k \in differ : \A j \in differ : k <= j
    <3> HIDE DEF differ
    <3> QED BY <2>1, LeastNat
  <2>3. k \in 0..(n - 1) /\ u[n - k] # v[n - k]
    OBVIOUS
  <2>4. k # 0 /\ k - 1 \in 0..(n - 1) /\ ~ (k <= k - 1)
    BY <2>3
  <2>5. k - 1 \notin differ
    BY <2>2, <2>4
  <2>6. u[n - (k - 1)] = v[n - (k - 1)]
    BY <2>4, <2>5
  <2>7. n - (k - 1) \in 2..n /\ (n - (k - 1)) - 1 = n - k
    BY <2>3, <2>4
  <2> HIDE DEF differ
  <2> QED BY <2>3, <2>6, <2>7 DEF Linked
<1>2. ASSUME NEW i \in 1..n PROVE u[i] = v[i]
  <2>1. n - i \in 0..(n - 1) /\ n - (n - i) = i
    OBVIOUS
  <2>2. n - i \notin differ
    BY <1>1
  <2> QED BY <2>1, <2>2
<1> QED BY <1>2

(* A terminal has finitely many processes.                                 *)
LEMMA OwnedFinite ==
  \A t : IsFiniteSet(Owned(t)) /\ Cardinality(Owned(t)) \in Nat
<1> SUFFICES ASSUME NEW t PROVE IsFiniteSet(Owned(t)) /\ Cardinality(Owned(t)) \in Nat
  OBVIOUS
<1>1. IsFiniteSet(Pids)
  BY FS_Interval, NumPidsAssumption DEF Pids
<1>2. Owned(t) \in SUBSET Pids
  BY DEF Owned
<1>3. IsFiniteSet(Owned(t))
  BY <1>1, <1>2, FS_Subset
<1> QED BY <1>3, FS_CardinalityType

(* A function on 1..n is a sequence of length n.                           *)
LEMMA IsSequence ==
  ASSUME NEW n \in Nat, NEW S, NEW s \in [1..n -> S]
  PROVE  /\ s \in Seq(S) /\ Len(s) = n /\ DOMAIN s = 1..n
         /\ s = <<>> <=> n = 0
<1>1. s \in Seq(S)
  OBVIOUS
<1>2. Len(s) = n
  BY <1>1, LenProperties
<1> QED BY <1>1, <1>2, EmptySeq

\* s is the stack of t, and no process is in it twice.
Stacked(t, s) ==
  /\ s \in [1..Cardinality(Owned(t)) -> Owned(t)]
  /\ IsStackOf(t, s)
  /\ \A i, j \in DOMAIN s : s[i] = s[j] => i = j

Chained == \A t \in Terminals : \E s : Stacked(t, s)

(* There is one stack at most, so that it is the one StackOf finds.        *)
LEMMA StackIs == \A t, s : Stacked(t, s) => StackOf(t) = s
<1> SUFFICES ASSUME NEW t, NEW s, Stacked(t, s) PROVE StackOf(t) = s
  OBVIOUS
<1> DEFINE n == Cardinality(Owned(t))
           v == StackOf(t)
<1>1. v \in [1..n -> Owned(t)] /\ IsStackOf(t, v)
  BY DEF StackOf, Stacked
<1>2. s \in [1..n -> Owned(t)] /\ IsStackOf(t, s)
  BY DEF Stacked
<1>3. n \in Nat
  BY OwnedFinite
<1> HIDE DEF v
<1>4. /\ Len(s) = n /\ DOMAIN s = 1..n /\ (s = <<>> <=> n = 0)
      /\ Len(v) = n /\ DOMAIN v = 1..n /\ (v = <<>> <=> n = 0)
  <2> HIDE DEF n
  <2> QED BY <1>1, <1>2, <1>3, IsSequence
<1>5. n > 0 => s[n] = v[n]
  BY <1>1, <1>2, <1>3, <1>4 DEF IsStackOf
<1>6. Linked(n, parentId, s) /\ Linked(n, parentId, v)
  <2>1. \A i \in 2..n : i \in 1..n /\ i # 1
    BY <1>3
  <2> QED BY <1>1, <1>2, <1>4, <2>1 DEF IsStackOf, Linked
<1> HIDE DEF n
<1>7. s = v
  <2> DEFINE S == Owned(t)
  <2>1. n \in Nat /\ s \in [1..n -> S] /\ v \in [1..n -> S]
    BY <1>1, <1>2, <1>3
  <2> HIDE DEF S
  <2> QED BY <1>5, <1>6, <2>1, SameStack
<1> QED BY <1>7 DEF v

(* The same in the next state.                                             *)
LEMMA StackIsNext == (\A t, s : Stacked(t, s) => StackOf(t) = s)'
<1> QED BY StackIs, PTL

(* A terminal none of whose processes, parents and top are touched keeps   *)
(* its stack.                                                              *)
LEMMA KeptStack ==
  ASSUME NEW t, NEW s, Stacked(t, s),
         Owned(t)' = Owned(t), PID'[t] = PID[t],
         \A p \in Owned(t) : parentId'[p] = parentId[p]
  PROVE  Stacked(t, s)'
<1>1. s \in [1..Cardinality(Owned(t)) -> Owned(t)]
  BY DEF Stacked
<1>2. DOMAIN s = 1..Cardinality(Owned(t)) /\ \A i \in DOMAIN s : s[i] \in Owned(t)
  BY <1>1
<1>3. IsStackOf(t, s)'
  BY <1>2 DEF Stacked, IsStackOf
<1> QED BY <1>1, <1>3 DEF Stacked

(* The processes of a terminal without a top are none, and those of one    *)
(* with a top are some.                                                    *)
LEMMA OwnedIff ==
  ASSUME TypeOK, TableOK, NEW t \in Terminals
  PROVE  /\ PID[t] = NoPid <=> Owned(t) = {}
         /\ PID[t] # NoPid => PID[t] \in Owned(t) /\ PID[t] \in Pids
         /\ Owned(t) \subseteq Live
<1> USE NumPidsAssumption DEF Terminals, Pids, NoPid
<1>1. Owned(t) \subseteq Live
  BY DEF Owned, Live, Terminals
<1>2. PID[t] # NoPid => PID[t] \in Owned(t) /\ PID[t] \in Pids
  BY DEF TypeOK, TableOK, StacksOK, TopsOwned, Owned
<1>3. Owned(t) # {} => PID[t] # NoPid
  BY <1>1 DEF TableOK, StacksOK, TopsHaveNoChild, Owned
<1> QED BY <1>1, <1>2, <1>3

(* A process that is started goes on top.                                  *)
LEMMA PushStack ==
  ASSUME TypeOK, TableOK, NEW t \in Terminals, NEW sched, Push(t, sched),
         NEW s, Stacked(t, s)
  PROVE  \E p \in Pids \ Live :
           /\ Stacked(t, Append(s, p))'
           /\ \A r \in Terminals \ {t} : \A u : Stacked(r, u) => Stacked(r, u)'
<1> PICK p \in Pids :
      /\ pid_bitmap[p] = 0
      /\ PID' = [PID EXCEPT ![0] = PID[0] + 1, ![t] = p]
      /\ pid_bitmap' = [pid_bitmap EXCEPT ![p] = t]
      /\ parentId' = [parentId EXCEPT ![p] = PID[t]]
  BY DEF Push, Launch, IsNextAvail
<1> DEFINE n == Cardinality(Owned(t))
           v == Append(s, p)
<1>1. t \in 0..3 /\ t # 0 /\ p \notin Live /\ p \notin Owned(t)
  BY DEF Terminals, Live, Owned
<1>2. /\ PID'[t] = p /\ parentId'[p] = PID[t]
      /\ \A r \in Terminals \ {t} : PID'[r] = PID[r]
      /\ \A q \in Pids \ {p} : parentId'[q] = parentId[q]
  BY <1>1 DEF TypeOK, Terminals
<1>3. /\ Owned(t)' = Owned(t) \cup {p}
      /\ \A r \in Terminals \ {t} : Owned(r)' = Owned(r) /\ p \notin Owned(r)
  BY <1>1 DEF TypeOK, Owned, Terminals
<1>4. Cardinality(Owned(t)') = n + 1
  BY <1>1, <1>3, OwnedFinite, FS_AddElement
<1>5. /\ n \in Nat /\ s \in [1..n -> Owned(t)]
      /\ s \in Seq(Owned(t)) /\ Len(s) = n /\ DOMAIN s = 1..n
      /\ s = <<>> <=> n = 0
  <2>1. n \in Nat /\ s \in [1..n -> Owned(t)]
    BY OwnedFinite DEF Stacked
  <2> HIDE DEF n
  <2> QED BY <2>1, IsSequence
<1>6. /\ PID[t] = IF n = 0 THEN NoPid ELSE s[n]
      /\ \A i \in 1..n : parentId[s[i]] = IF i = 1 THEN NoPid ELSE s[i - 1]
      /\ \A i, j \in 1..n : s[i] = s[j] => i = j
      /\ \A i \in 1..n : s[i] \in Owned(t) /\ s[i] \in Pids /\ s[i] # p
  BY <1>1, <1>5 DEF Stacked, IsStackOf, Owned
<1> HIDE DEF n
<1>7. /\ v \in [1..(n + 1) -> Owned(t) \cup {p}]
      /\ Len(v) = n + 1 /\ DOMAIN v = 1..(n + 1) /\ v # <<>>
      /\ \A i \in 1..n : v[i] = s[i]
      /\ v[n + 1] = p
  <2>1. /\ s \in Seq(Owned(t) \cup {p}) /\ p \in Owned(t) \cup {p}
    BY <1>5
  <2>2. /\ v \in Seq(Owned(t) \cup {p}) /\ Len(v) = n + 1
        /\ \A i \in 1..n : v[i] = s[i]
        /\ v[n + 1] = p
    BY <1>5, <2>1, AppendProperties
  <2> HIDE DEF v
  <2>3. DOMAIN v = 1..(n + 1) /\ v \in [1..(n + 1) -> Owned(t) \cup {p}] /\ v # <<>>
    BY <1>5, <2>2, LenProperties
  <2> QED BY <2>2, <2>3
<1> HIDE DEF v
<1>8. IsStackOf(t, v)'
  <2>1. PID'[t] = v[Len(v)]
    BY <1>2, <1>7
  <2>2. ASSUME NEW i \in 1..(n + 1)
        PROVE  parentId'[v[i]] = IF i = 1 THEN NoPid ELSE v[i - 1]
    <3>1. CASE i = n + 1
      <4>1. parentId'[v[i]] = IF n = 0 THEN NoPid ELSE s[n]
        BY <1>2, <1>6, <1>7, <3>1
      <4>2. n # 0 => n \in 1..n /\ (n + 1) - 1 = n
        BY <1>5
      <4>3. i = 1 <=> n = 0
        BY <1>5, <3>1
      <4> QED BY <1>7, <3>1, <4>1, <4>2, <4>3
    <3>2. CASE i # n + 1
      <4>1. i \in 1..n /\ (i # 1 => i - 1 \in 1..n)
        BY <1>5, <3>2
      <4>2. parentId'[v[i]] = parentId[s[i]]
        BY <1>2, <1>6, <1>7, <4>1
      <4> QED BY <1>6, <1>7, <4>1, <4>2
    <3> QED BY <3>1, <3>2
  <2> QED BY <1>7, <2>1, <2>2 DEF IsStackOf
<1>9. \A i, j \in 1..(n + 1) : v[i] = v[j] => i = j
  <2>1. \A i \in 1..(n + 1) : i = n + 1 \/ i \in 1..n
    BY <1>5
  <2> QED BY <1>6, <1>7, <2>1
<1>10. Stacked(t, v)'
  BY <1>3, <1>4, <1>7, <1>8, <1>9 DEF Stacked
<1>11. ASSUME NEW r \in Terminals \ {t}, NEW u, Stacked(r, u) PROVE Stacked(r, u)'
  <2>1. /\ Owned(r)' = Owned(r) /\ PID'[r] = PID[r]
        /\ \A q \in Owned(r) : parentId'[q] = parentId[q]
    BY <1>2, <1>3 DEF Owned
  <2> QED BY <1>11, <2>1, KeptStack
<1> QED BY <1>1, <1>10, <1>11 DEF v

(* The process that ends is taken off the top, and the one below it is the *)
(* new top.                                                                *)
LEMMA PopStack ==
  ASSUME TypeOK, TableOK, NEW t \in Terminals, PID[t] # NoPid,
         NEW sched, Pop(t, sched), NEW s, Stacked(t, s)
  PROVE  /\ Len(s) > 1
         /\ Stacked(t, SubSeq(s, 1, Len(s) - 1))'
         /\ \A r \in Terminals \ {t} : \A u : Stacked(r, u) => Stacked(r, u)'
<1> DEFINE n == Cardinality(Owned(t))
           v == SubSeq(s, 1, Len(s) - 1)
           p == PID[t]
<1>1. /\ PID' = [PID EXCEPT ![0] = PID[0] - 1, ![t] = parentId[p]]
      /\ pid_bitmap' = [pid_bitmap EXCEPT ![p] = 0]
      /\ parentId' = parentId /\ parentId[p] # NoPid
  BY DEF Pop, ReturnToParent, Freed
<1>2. t \in 0..3 /\ t # 0 /\ p \in Owned(t) /\ p \in Pids /\ pid_bitmap[p] = t
  BY OwnedIff DEF Terminals, Owned
<1> HIDE DEF p
<1>3. /\ PID'[t] = parentId[p]
      /\ \A r \in Terminals \ {t} : PID'[r] = PID[r]
  BY <1>1, <1>2 DEF TypeOK, Terminals
<1>4. /\ Owned(t)' = Owned(t) \ {p}
      /\ \A r \in Terminals \ {t} : Owned(r)' = Owned(r)
  BY <1>1, <1>2 DEF TypeOK, Owned, Terminals
<1>5. Cardinality(Owned(t)') = n - 1
  BY ZenonT(40), <1>2, <1>4, OwnedFinite, FS_RemoveElement
<1>6. /\ n \in Nat /\ s \in [1..n -> Owned(t)]
      /\ s \in Seq(Owned(t)) /\ Len(s) = n /\ DOMAIN s = 1..n
      /\ s = <<>> <=> n = 0
  <2>1. n \in Nat /\ s \in [1..n -> Owned(t)]
    BY OwnedFinite DEF Stacked
  <2> HIDE DEF n
  <2> QED BY <2>1, IsSequence
<1>7. /\ p = IF n = 0 THEN NoPid ELSE s[n]
      /\ \A i \in 1..n : parentId[s[i]] = IF i = 1 THEN NoPid ELSE s[i - 1]
      /\ \A i, j \in 1..n : s[i] = s[j] => i = j
      /\ \A i \in 1..n : s[i] \in Owned(t)
  BY <1>6 DEF Stacked, IsStackOf, p
<1> HIDE DEF n
<1>8. n > 1 /\ s[n] = p /\ parentId[p] = s[n - 1]
  <2>1. n # 0
    BY <1>7 DEF p
  <2>2. n \in 1..n
    BY <1>6, <2>1
  <2>3. n # 1
    BY <1>1, <1>7, <2>1, <2>2
  <2> QED BY <1>6, <1>7, <2>1, <2>2, <2>3
<1>9. /\ v \in [1..(n - 1) -> Owned(t) \ {p}]
      /\ Len(v) = n - 1 /\ DOMAIN v = 1..(n - 1) /\ v # <<>>
      /\ \A i \in 1..(n - 1) : v[i] = s[i]
  <2>1. 1 \in 1..(Len(s) + 1) /\ n - 1 \in 0..Len(s)
    BY <1>6, <1>8
  <2>2. v \in Seq(Owned(t)) /\ Len(v) = n - 1 /\ \A i \in 1..(n - 1) : v[i] = s[i]
    <3>1. /\ v \in Seq(Owned(t))
          /\ Len(v) = IF 1 <= n - 1 THEN (n - 1) - 1 + 1 ELSE 0
          /\ \A i \in 1..((n - 1) - 1 + 1) : v[i] = s[1 + i - 1]
      <4>1. v = SubSeq(s, 1, n - 1)
        BY <1>6
      <4> HIDE DEF v
      <4> QED BY <1>6, <2>1, <4>1, SubSeqProperties
    <3> HIDE DEF v
    <3>2. (n - 1) - 1 + 1 = n - 1 /\ \A i \in 1..(n - 1) : 1 + i - 1 = i
      BY <1>6, <1>8
    <3> QED BY <1>6, <1>8, <3>1, <3>2
  <2> HIDE DEF v
  <2>3. DOMAIN v = 1..(n - 1) /\ v # <<>>
    BY <1>6, <1>8, <2>2, LenProperties
  <2>4. \A i \in 1..(n - 1) : i \in 1..n /\ n \in 1..n /\ i # n
    BY <1>6, <1>8
  <2>5. \A i \in 1..(n - 1) : v[i] \in Owned(t) \ {p}
    BY <1>7, <1>8, <2>2, <2>4
  <2> QED BY <2>2, <2>3, <2>5
<1> HIDE DEF v
<1>10. IsStackOf(t, v)'
  <2>1. PID'[t] = v[Len(v)]
    <3>1. n - 1 \in 1..(n - 1)
      BY <1>6, <1>8
    <3> QED BY <1>3, <1>8, <1>9, <3>1
  <2>2. \A i \in 1..(n - 1) : parentId'[v[i]] = IF i = 1 THEN NoPid ELSE v[i - 1]
    <3>1. \A i \in 1..(n - 1) : i \in 1..n /\ (i # 1 => i - 1 \in 1..(n - 1))
      BY <1>6, <1>8
    <3> QED BY <1>1, <1>7, <1>9, <3>1
  <2> QED BY <1>9, <2>1, <2>2 DEF IsStackOf
<1>11. \A i, j \in 1..(n - 1) : v[i] = v[j] => i = j
  <2>1. \A i \in 1..(n - 1) : i \in 1..n
    BY <1>6, <1>8
  <2> QED BY <1>7, <1>9, <2>1
<1>12. Stacked(t, v)'
  BY <1>4, <1>5, <1>9, <1>10, <1>11 DEF Stacked
<1>13. ASSUME NEW r \in Terminals \ {t}, NEW u, Stacked(r, u) PROVE Stacked(r, u)'
  <2>1. /\ Owned(r)' = Owned(r) /\ PID'[r] = PID[r]
        /\ \A q \in Owned(r) : parentId'[q] = parentId[q]
    BY <1>1, <1>3, <1>4
  <2> QED BY <1>13, <2>1, KeptStack
<1> QED BY <1>6, <1>8, <1>12, <1>13 DEF v

(* A new shell takes the place of the only process of a terminal.          *)
LEMMA RespawnStack ==
  ASSUME TypeOK, TableOK, NEW t \in Terminals, PID[t] # NoPid,
         NEW sched, Respawn(t, sched), NEW s, Stacked(t, s)
  PROVE  /\ Len(s) = 1
         /\ \E p \in (Pids \ Live) \cup {PID[t]} : Stacked(t, <<p>>)'
         /\ \A r \in Terminals \ {t} : \A u : Stacked(r, u) => Stacked(r, u)'
<1> DEFINE n == Cardinality(Owned(t))
           p == PID[t]
<1>1. /\ t \in 0..3 /\ t # 0 /\ p \in Owned(t) /\ p \in Pids /\ pid_bitmap[p] = t
      /\ parentId[p] = NoPid
  BY OwnedIff DEF Terminals, Owned, Respawn
<1>2. PICK q \in Pids :
      /\ Freed(pid_bitmap, p)[q] = 0
      /\ PID' = [PID EXCEPT ![0] = PID[0] - 1 + 1, ![t] = q]
      /\ pid_bitmap' = [Freed(pid_bitmap, p) EXCEPT ![q] = t]
      /\ parentId' = [parentId EXCEPT ![q] = NoPid]
  BY DEF Respawn, Launch, IsNextAvail
<1> HIDE DEF p
<1>3. /\ n \in Nat /\ s \in [1..n -> Owned(t)]
      /\ Len(s) = n /\ DOMAIN s = 1..n
      /\ s = <<>> <=> n = 0
  <2>1. n \in Nat /\ s \in [1..n -> Owned(t)]
    BY OwnedFinite DEF Stacked
  <2> HIDE DEF n
  <2> QED BY <2>1, IsSequence
<1>4. /\ p = IF n = 0 THEN NoPid ELSE s[n]
      /\ \A i \in 1..n : parentId[s[i]] = IF i = 1 THEN NoPid ELSE s[i - 1]
      /\ \A i \in 1..n : s[i] \in Owned(t) /\ s[i] \in Pids
  BY <1>3 DEF Stacked, IsStackOf, p, Owned
<1>5. n = 1
  <2> HIDE DEF n
  <2>1. n # 0
    BY <1>4 DEF p
  <2>2. n \in 1..n /\ (n # 1 => n - 1 \in 1..n)
    BY <1>3, <2>1
  <2>3. n # 1 => s[n - 1] = NoPid
    BY <1>1, <1>4, <2>1, <2>2
  <2> QED BY <1>4, <2>2, <2>3, NumPidsAssumption DEF Pids, NoPid
<1>6. Owned(t) = {p}
  <2>1. PICK x : Owned(t) = {x}
    BY <1>5, OwnedFinite, FS_Singleton
  <2> QED BY <1>1, <2>1
<1>7. q \in (Pids \ Live) \cup {p}
  BY <1>1, <1>2 DEF Freed, Live, TypeOK
<1>8. /\ PID'[t] = q /\ parentId'[q] = NoPid
      /\ \A r \in Terminals \ {t} : PID'[r] = PID[r]
      /\ \A r \in Pids \ {q} : parentId'[r] = parentId[r]
  BY <1>1, <1>2 DEF TypeOK, Terminals
<1>9. Owned(t)' = {q}
  BY <1>1, <1>2, <1>6 DEF TypeOK, Owned, Freed
<1>10. \A r \in Terminals \ {t} : Owned(r)' = Owned(r) /\ q \notin Owned(r)
  BY <1>1, <1>2, <1>7 DEF TypeOK, Owned, Terminals, Freed, Live
<1>11. Stacked(t, <<q>>)'
  <2>1. Cardinality(Owned(t)') = 1
    BY <1>9, FS_Singleton
  <2>2. /\ <<q>> \in [1..1 -> {q}] /\ DOMAIN <<q>> = 1..1 /\ Len(<<q>>) = 1
        /\ <<q>> # <<>> /\ <<q>>[1] = q
    OBVIOUS
  <2>3. IsStackOf(t, <<q>>)'
    BY <1>8, <2>2 DEF IsStackOf
  <2>4. /\ <<q>> \in [1..Cardinality(Owned(t)') -> Owned(t)']
        /\ \A i, j \in DOMAIN <<q>> : i = j
    BY <1>9, <2>1, <2>2
  <2> QED BY <2>3, <2>4 DEF Stacked
<1>12. ASSUME NEW r \in Terminals \ {t}, NEW u, Stacked(r, u) PROVE Stacked(r, u)'
  <2>1. /\ Owned(r)' = Owned(r) /\ PID'[r] = PID[r]
        /\ \A x \in Owned(r) : parentId'[x] = parentId[x]
    BY <1>8, <1>10 DEF Owned
  <2> QED BY <1>12, <2>1, KeptStack
<1> QED BY <1>3, <1>5, <1>7, <1>11, <1>12 DEF p

(* Each terminal has the stack that StackOf finds, and it holds live        *)
(* processes only.                                                          *)
LEMMA AllStacked ==
  ASSUME TypeOK, TableOK, Chained
  PROVE  /\ \A t \in Terminals : Stacked(t, AllStacks[t])
         /\ Pids \ Live \subseteq Stacks!Fresh
<1>1. ASSUME NEW t \in Terminals PROVE Stacked(t, AllStacks[t])
  BY StackIs DEF Chained, AllStacks
<1>2. ASSUME NEW t \in Terminals, NEW i \in DOMAIN AllStacks[t] PROVE AllStacks[t][i] \in Live
  <2>1. AllStacks[t][i] \in Owned(t)
    BY <1>1 DEF Stacked
  <2> QED BY <2>1, OwnedIff
<1>3. Stacks!Used \subseteq Live
  BY <1>2 DEF Stacks!Used, Stacks!Terminals, Terminals, AllStacks
<1> QED BY <1>1, <1>3 DEF Stacks!Fresh

(* When the stack of one terminal becomes u and the others stay, the        *)
(* refinement sees just that.                                               *)
LEMMA OneStackMoves ==
  ASSUME Chained, NEW t \in Terminals, NEW u, Stacked(t, u)',
         \A r \in Terminals \ {t} : \A s : Stacked(r, s) => Stacked(r, s)'
  PROVE  Chained' /\ AllStacks' = [AllStacks EXCEPT ![t] = u]
<1>1. StackOf(t)' = u
  BY StackIsNext
<1>2. ASSUME NEW r \in Terminals \ {t}
      PROVE  StackOf(r)' = StackOf(r) /\ \E s : Stacked(r, s)'
  <2>1. PICK s : Stacked(r, s)
    BY DEF Chained
  <2>2. Stacked(r, s)'
    BY <2>1
  <2> QED BY <2>1, <2>2, StackIs, StackIsNext
<1>3. Chained'
  BY <1>2 DEF Chained
<1> QED BY <1>1, <1>2, <1>3 DEF AllStacks

(* execute() and the first visit of the timer push a fresh process.         *)
LEMMA PushMoves ==
  ASSUME TypeOK, TableOK, Chained, NEW t \in Terminals, NEW sched, Push(t, sched)
  PROVE  /\ Chained'
         /\ \E p \in Stacks!Fresh :
              AllStacks' = [AllStacks EXCEPT ![t] = Append(AllStacks[t], p)]
<1>1. PICK s : s = AllStacks[t] /\ Stacked(t, s)
  BY AllStacked
<1>2. PICK p \in Pids \ Live :
        /\ Stacked(t, Append(s, p))'
        /\ \A r \in Terminals \ {t} : \A u : Stacked(r, u) => Stacked(r, u)'
  BY <1>1, PushStack
<1>3. p \in Stacks!Fresh
  BY AllStacked
<1> QED BY <1>1, <1>2, <1>3, OneStackMoves

(* halt() pops the top of a stack, or replaces its only process by a fresh  *)
(* one or by one of the same name.                                          *)
LEMMA HaltMoves ==
  ASSUME TypeOK, TableOK, Chained, NEW t \in Terminals, PID[t] # NoPid,
         NEW sched, HaltTop(t, sched)
  PROVE  Chained' /\ AllStacks[t] # <<>> /\ Stacks!End(t)
<1>1. PICK s : s = AllStacks[t] /\ Stacked(t, s)
  BY AllStacked
<1>2. s # <<>> /\ s[Len(s)] = PID[t]
  BY <1>1 DEF Stacked, IsStackOf
<1>3. CASE Pop(t, sched)
  <2>1. /\ Len(s) > 1
        /\ Stacked(t, SubSeq(s, 1, Len(s) - 1))'
        /\ \A r \in Terminals \ {t} : \A u : Stacked(r, u) => Stacked(r, u)'
    BY <1>1, <1>3, PopStack
  <2>2. Chained' /\ AllStacks' = [AllStacks EXCEPT ![t] = SubSeq(s, 1, Len(s) - 1)]
    BY <2>1, OneStackMoves
  <2> QED BY <1>1, <1>2, <2>1, <2>2 DEF Stacks!End, Stacks!Bottom
<1>4. CASE Respawn(t, sched)
  <2>1. Len(s) = 1 /\ \A r \in Terminals \ {t} : \A u : Stacked(r, u) => Stacked(r, u)'
    BY <1>1, <1>4, RespawnStack
  <2>2. PICK p \in (Pids \ Live) \cup {PID[t]} : Stacked(t, <<p>>)'
    BY <1>1, <1>4, RespawnStack
  <2>3. Chained' /\ AllStacks' = [AllStacks EXCEPT ![t] = <<p>>]
    BY <2>1, <2>2, OneStackMoves
  <2>4. p \in Stacks!Fresh \cup {Stacks!Top(t)}
    BY <1>1, <1>2, <2>2, AllStacked DEF Stacks!Top
  <2> QED BY <1>1, <1>2, <2>1, <2>3, <2>4 DEF Stacks!End
<1> QED BY <1>3, <1>4 DEF HaltTop, Pop

(* A step of the scheduler is a step of the stacks or changes none of them, *)
(* and every terminal still has its stack.                                  *)
LEMMA StacksStep ==
  ASSUME IInv, Chained, [Next]_vars
  PROVE  Chained' /\ [Stacks!Next]_(Stacks!vars)
<1> USE DEF IInv
<1> DEFINE Goal == Chained' /\ [Stacks!Next]_(Stacks!vars)
<1>1. /\ terminal_curr \in Terminals /\ PID[terminal_curr] # NoPid
      /\ Candidate \in Terminals
  BY DEF TypeOK, DisplayOK, Candidate, set_terminal_next, Terminals
<1>2. ASSUME UNCHANGED <<PID, pid_bitmap, parentId>>
      PROVE  Chained' /\ AllStacks' = AllStacks
  <2>1. \A t : /\ Owned(t)' = Owned(t) /\ PID'[t] = PID[t]
               /\ \A p \in Owned(t) : parentId'[p] = parentId[p]
    BY <1>2 DEF Owned
  <2>2. \A t, s : Stacked(t, s) => Stacked(t, s)'
    BY <2>1, KeptStack
  <2>3. \A t \in Terminals : \E s : Stacked(t, s) /\ Stacked(t, s)'
    BY <2>2 DEF Chained
  <2>4. \A t \in Terminals : StackOf(t)' = StackOf(t)
    BY <2>3, StackIs, StackIsNext
  <2> QED BY <2>3, <2>4 DEF Chained, AllStacks
<1>3. CASE UNCHANGED <<PID, pid_bitmap, parentId, terminal_curr>>
  BY <1>2, <1>3 DEF Stacks!vars
<1>4. CASE Execute
  <2>1. UNCHANGED terminal_curr /\ Push(terminal_curr, schedule_esp)
    BY <1>4 DEF Execute, Push
  <2>2. Chained' /\ Stacks!Start
    BY <1>1, <2>1, PushMoves DEF Stacks!Start
  <2> QED BY <2>2 DEF Stacks!Next
<1>5. CASE Halt
  <2>1. UNCHANGED terminal_curr /\ HaltTop(terminal_curr, schedule_esp)
    BY <1>5 DEF Halt
  <2>2. Chained' /\ Stacks!End(terminal_curr)
    BY <1>1, <2>1, HaltMoves
  <2> QED BY <2>1, <2>2 DEF Stacks!Next
<1>6. ASSUME Chained', Stacks!Resume(Candidate) PROVE Goal
  BY <1>1, <1>6 DEF Stacks!Next, Stacks!Terminals, Terminals
<1>7. CASE PitCreate
  <2>1. /\ Candidate # terminal_curr /\ terminal_curr' = Candidate
        /\ PID[Candidate] = NoPid /\ Push(Candidate, SavedContext)
    BY <1>7 DEF PitCreate, Push
  <2>2. AllStacks[Candidate] = <<>>
    <3>1. PICK s : s = AllStacks[Candidate] /\ Stacked(Candidate, s)
      BY <1>1, AllStacked
    <3>2. Cardinality(Owned(Candidate)) = 0
      BY <1>1, <2>1, OwnedIff, FS_EmptySet
    <3>3. s \in [1..0 -> Owned(Candidate)]
      BY <3>1, <3>2 DEF Stacked
    <3> QED BY <3>1, <3>3, IsSequence
  <2>3. PICK p \in Stacks!Fresh :
          Chained' /\ AllStacks' = [AllStacks EXCEPT ![Candidate] = Append(<<>>, p)]
    BY <1>1, <2>1, <2>2, PushMoves
  <2>4. Append(<<>>, p) = <<p>>
    OBVIOUS
  <2> QED BY <1>6, <2>1, <2>2, <2>3, <2>4 DEF Stacks!Resume
<1>8. CASE PitSwitch
  <2>1. /\ Candidate # terminal_curr /\ terminal_curr' = Candidate
        /\ PID[Candidate] # NoPid /\ Chained' /\ AllStacks' = AllStacks
    BY <1>2, <1>8 DEF PitSwitch, SwitchTo, procVars
  <2>2. AllStacks[Candidate] # <<>>
    BY <1>1, <2>1, AllStacked DEF Stacked, IsStackOf
  <2> QED BY <1>6, <2>1, <2>2 DEF Stacks!Resume
<1>9. CASE PitSwitchAndHalt
  <2>1. /\ Candidate # terminal_curr /\ terminal_curr' = Candidate
        /\ PID[Candidate] # NoPid /\ HaltTop(Candidate, SavedContext)
    BY <1>9 DEF PitSwitchAndHalt, SwitchTo
  <2>2. Chained' /\ AllStacks[Candidate] # <<>> /\ Stacks!End(Candidate)
    BY <1>1, <2>1, HaltMoves
  <2> QED BY <1>6, <2>1, <2>2 DEF Stacks!Resume
<1>10. \/ UNCHANGED <<PID, pid_bitmap, parentId, terminal_curr>>
       \/ Execute \/ Halt \/ PitCreate \/ PitSwitch \/ PitSwitchAndHalt
  BY DEF Next, Pit, TerminalRead, AltFn, CtrlC, PitStay, PitLimit, vars, procVars
<1> QED BY <1>3, <1>4, <1>5, <1>7, <1>8, <1>9, <1>10

(* After the boot terminal 1 holds the first shell and the others nothing.  *)
LEMMA StacksInit ==
  ASSUME Init
  PROVE  Chained /\ Stacks!Init
<1> USE NumPidsAssumption
<1>1. Owned(1) = {0} /\ Owned(2) = {} /\ Owned(3) = {} /\ 0 \in Pids
  BY DEF Init, Owned, Pids
<1>2. PID[1] = 0 /\ PID[2] = NoPid /\ PID[3] = NoPid /\ parentId[0] = NoPid
  BY <1>1 DEF Init
<1>3. Stacked(1, <<0>>)
  <2>1. Cardinality(Owned(1)) = 1
    BY <1>1, FS_Singleton
  <2>2. /\ <<0>> \in [1..1 -> {0}] /\ DOMAIN <<0>> = 1..1 /\ Len(<<0>>) = 1
        /\ <<0>> # <<>> /\ <<0>>[1] = 0
    OBVIOUS
  <2>3. IsStackOf(1, <<0>>)
    BY <1>2, <2>2 DEF IsStackOf
  <2>4. /\ <<0>> \in [1..Cardinality(Owned(1)) -> Owned(1)]
        /\ \A i, j \in DOMAIN <<0>> : i = j
    BY <1>1, <2>1, <2>2
  <2> QED BY <2>3, <2>4 DEF Stacked
<1>4. ASSUME NEW t \in {2, 3} PROVE Stacked(t, <<>>)
  <2>1. Owned(t) = {} /\ Cardinality(Owned(t)) = 0 /\ PID[t] = NoPid
    BY <1>1, <1>2, FS_EmptySet
  <2>2. <<>> \in [1..0 -> {}] /\ DOMAIN <<>> = {}
    OBVIOUS
  <2> QED BY <2>1, <2>2 DEF Stacked, IsStackOf
<1>5. Chained
  BY <1>3, <1>4 DEF Chained, Terminals
<1>6. AllStacks = [t \in Terminals |-> IF t = 1 THEN <<0>> ELSE <<>>]
  BY <1>3, <1>4, StackIs DEF AllStacks, Terminals
<1>7. 0 \in Pids /\ terminal_curr = 1
  BY <1>1 DEF Init
<1> QED BY <1>5, <1>6, <1>7 DEF Stacks!Init, Stacks!Terminals, Terminals

(* The processes of each terminal come and go as on a stack: whatever       *)
(* execute(), halt(), the timer and the keyboard do, in any order and for   *)
(* any number of pids, no process is lost from its stack, resumed twice, or *)
(* resumed by the end of another's child.                                   *)
THEOREM SchedulerImplementsStacks == Spec => ImplementsStacks
<1>1. Init => Chained /\ Stacks!Init
  BY StacksInit
<1>2. IInv /\ Chained /\ [Next]_vars => Chained' /\ [Stacks!Next]_(Stacks!vars)
  BY StacksStep
<1> QED
  BY <1>1, <1>2, Invariance, PTL DEF Spec, ImplementsStacks, Stacks!Spec

=============================================================================
