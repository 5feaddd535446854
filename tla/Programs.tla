------------------------------ MODULE Programs ------------------------------
(***************************************************************************)
(* The programs (ProgramText) on top of the system calls: what execute()   *)
(* makes of a command, what a call returns to a program, what becomes of   *)
(* the status a program ends with, and what the shell says of it.          *)
(*                                                                         *)
(* A command is a record: how many blanks it begins with, its name, how    *)
(* long that is, and what follows.                                         *)
(***************************************************************************)
EXTENDS TerminalSwitch, ProgramText

CONSTANTS
  NumPids,      \* processes at a time; 6 in the code
  NameSize,     \* the buffer for a name in execute(); 32 in the code
  Directory,    \* the names in the file system that are not programs
  Executables,  \* those that are
  Commands,     \* what is typed at a shell
  Used          \* bound: the terminals the user asks for, and terminal 1

ASSUME ProgramsAssumption ==
  /\ NumPids \in Nat \ {0} /\ NumFds \in Nat /\ NumFds > 2 /\ NameSize \in Nat
  /\ Used \subseteq Terminals /\ 1 \in Used
  /\ Executables \subseteq {"cat", "ls", "grep", "sigtest", "hello", "counter", "testprint",
                           "pingpong", "fish", "syserr", "shell"}

\* What syserr takes for granted of the files: it opens the directory, and three
\* names that it expects not to find.
ASSUME ImageAssumption ==
  /\ "." \in Directory
  /\ {"helloo", "shel", ""} \cap (Directory \cup Executables) = {}

VARIABLES
  stack,         \* the processes of each terminal, the running one last
  args,          \* the argument buffer; there is one for all processes
  kb_exit_flag,  \* the terminals whose program is to be halted by the timer
  said,          \* what the shell of each terminal said of the last command
  ended          \* history: how that command ended

progVars == <<stack, args, kb_exit_flag, said, ended>>
vars == <<switchVars, progVars>>

NoArgs == ""
Fds == 2..(NumFds - 1)

\* A process: its program and the test chosen, the place it is at, the result of
\* the tests and the failures counted, what getargs() gave it, what execute()
\* returned to it, its open descriptors; as history, the arguments of its command.
Process(prog, choice, given) ==
  [prog |-> prog, choice |-> choice, at |-> At(1), fail |-> 0, cnt |-> 0, buf |-> "not asked",
   rval |-> 0, open |-> {}, given |-> given]

Shell == Process("shell", 0, NoArgs)

Init ==
  /\ SwitchInit
  /\ stack = [t \in Used |-> IF t = 1 THEN <<Shell>> ELSE <<>>]
  /\ args = NoArgs /\ kb_exit_flag = {}
  /\ said = [t \in Used |-> "nothing"] /\ ended = [t \in Used |-> "none"]

Top(t) == Len(stack[t])
Me == stack[terminal_curr][Top(terminal_curr)]
StackWith(t, p) == [stack EXCEPT ![t][Top(t)] = p]

AtLimit == Cardinality({p \in Used \X (1..NumPids) : p[2] <= Top(p[1])}) = NumPids

-----------------------------------------------------------------------------
(* The end of a program                                                    *)

\* Mutant: the status is passed on as it is.
WholeStatus(status) == status

\* The low byte of the status; 256 is kept to tell an exception.
StatusReturned(status) == IF status = 256 THEN 256 ELSE status % 256

\* The program below the one on top of terminal t goes on after its execute().
Resumed(t, status) ==
  [stack[t][Top(t) - 1] EXCEPT !.rval = StatusReturned(status), !.at = At(2)]

\* The program on top of terminal t ends.  The one below finds the status in the
\* place of what execute() returns; a shell with none below is started again,
\* with empty arguments.
HaltTop(t, status, how) ==
  IF Top(t) > 1
  THEN /\ stack' = [stack EXCEPT ![t] = Append(SubSeq(@, 1, Top(t) - 2), Resumed(t, status))]
       /\ ended' = [ended EXCEPT ![t] = how]
       /\ UNCHANGED <<args, said>>
  ELSE /\ stack' = [stack EXCEPT ![t] = <<Shell>>]
       /\ args' = NoArgs
       /\ ended' = [ended EXCEPT ![t] = "none"] /\ said' = [said EXCEPT ![t] = "nothing"]

HaltSelf(status, how) ==
  HaltTop(terminal_curr, status, how) /\ UNCHANGED <<switchVars, kb_exit_flag>>

-----------------------------------------------------------------------------
(* execute() and the shell                                                 *)

\* The name is copied while the place in the command is within the size of the
\* buffer for the name, so leading blanks count too; what does not fit becomes
\* part of the arguments.
NameFits(c) == c.lead + c.len <= NameSize
Name(c) == IF NameFits(c) THEN c.name ELSE "cut"
Rest(c) == IF NameFits(c) THEN c.rest ELSE "cut"

AtPrompt == stack[terminal_curr] # <<>> /\ Me.prog = "shell" /\ Me.at = At(1)

\* execute() returns -1 to the shell.
Refused(how) ==
  /\ stack' = StackWith(terminal_curr, [Me EXCEPT !.rval = -1, !.at = At(2)])
  /\ ended' = [ended EXCEPT ![terminal_curr] = how]
  /\ UNCHANGED <<switchVars, kb_exit_flag, said>>

\* No process is left, or there are only blanks: the arguments stay.
ExecuteNothing(c) ==
  /\ AtPrompt /\ (AtLimit \/ c.len = 0)
  /\ Refused(IF AtLimit THEN "no process" ELSE "not found")
  /\ UNCHANGED args

\* The arguments are stored before the name is looked up.
ExecuteUnknown(c) ==
  /\ AtPrompt /\ ~AtLimit /\ c.len > 0 /\ Name(c) \notin Executables
  /\ args' = Rest(c)
  /\ Refused("not found")

Execute(c) ==
  /\ AtPrompt /\ ~AtLimit /\ c.len > 0 /\ Name(c) \in Executables
  /\ args' = Rest(c)
  /\ \E choice \in TestChoices(Name(c)) :
       stack' = [stack EXCEPT ![terminal_curr] = Append(@, Process(Name(c), choice, c.rest))]
  /\ UNCHANGED <<switchVars, kb_exit_flag, said, ended>>

\* The command "exit", which the shell knows itself.
ShellExit == AtPrompt /\ HaltSelf(0, "normal")

ShellReports ==
  /\ stack[terminal_curr] # <<>> /\ Me.prog = "shell" /\ Me.at = At(2)
  /\ said' = [said EXCEPT ![terminal_curr] =
                IF Me.rval = -1 THEN "no such command"
                ELSE IF Me.rval = 256 THEN "program terminated by exception"
                ELSE IF Me.rval # 0 THEN "program terminated abnormally" ELSE "nothing"]
  /\ stack' = StackWith(terminal_curr, [Me EXCEPT !.at = At(1)])
  /\ UNCHANGED <<switchVars, args, kb_exit_flag, ended>>

-----------------------------------------------------------------------------
(* What the other calls return: -1, 0 or more                              *)

IsOpen(p, fd) == fd \in p.open \cup {0, 1}

\* Mutant: descriptor 1 can be read.
ReadableUnlessNegative(fd) == fd >= 0 /\ fd < NumFds

MayRead(fd) == fd >= 0 /\ fd # 1 /\ fd < NumFds
MayWrite(fd) == fd > 0 /\ fd < NumFds
MayClose(fd) == fd > 1 /\ fd < NumFds

\* The descriptor open() takes, and the names it finds.
FreeFds(p) == Fds \ p.open
Lowest(S) == CHOOSE i \in S : \A j \in S : i <= j
Found(p, name) == name = "entry" \/ (IF name = "argument" THEN p.buf ELSE name)
                                       \in Directory \cup Executables

\* A line has at least one character; a file or a directory may be at its end.
Results(p, call, on) ==
  CASE call = "getargs" -> IF args = NoArgs THEN {-1} ELSE {0}
    [] call = "open" -> IF FreeFds(p) = {} \/ ~Found(p, on) THEN {-1} ELSE {1}
    [] call = "read" -> IF ~MayRead(on) \/ ~IsOpen(p, on) THEN {-1}
                        ELSE IF on = 0 THEN {1} ELSE {0, 1}
    [] call = "write" -> IF ~MayWrite(on) \/ ~IsOpen(p, on) THEN {-1} ELSE {1}
    [] call = "close" -> IF ~MayClose(on) \/ ~IsOpen(p, on) THEN {-1} ELSE {0}
    [] call = "vidmap" -> IF on = "user" THEN {0} ELSE {-1}
    [] call = "number" -> IF on \in 1..10 THEN {0} ELSE {-1}
    [] OTHER -> {0}

\* What a call leaves in the process.
AfterCall(p, call, on, r) ==
  CASE call = "getargs" -> [p EXCEPT !.buf = IF r = -1 THEN NoArgs ELSE args]
    [] call = "open" /\ r # -1 -> [p EXCEPT !.open = @ \cup {Lowest(FreeFds(p))}]
    [] call = "close" /\ r # -1 -> [p EXCEPT !.open = @ \ {on}]
    [] OTHER -> p

\* What a test makes of a result.
Judged(p, wants, r) ==
  CASE wants = "failure" /\ r # -1 -> [p EXCEPT !.fail = 2]
    [] wants = "count" /\ r = -1 -> [p EXCEPT !.cnt = @ + 1]
    [] wants = "one failure" /\ p.cnt # 1 -> [p EXCEPT !.fail = 2]
    [] OTHER -> p

InProgram == stack[terminal_curr] # <<>> /\ Me.prog # "shell"

\* A program makes its next call.
Call ==
  /\ InProgram /\ "at" \in DOMAIN Me.at
  /\ LET s == Text(Me.prog, Me.choice)[Me.at.at]
     IN  /\ s.call # "fault"
         /\ \E r \in Results(Me, s.call, s.on) : \E there \in s.next[r] :
              stack' = StackWith(terminal_curr,
                         [Judged(AfterCall(Me, s.call, s.on, r), s.wants, r) EXCEPT !.at = there])
  /\ UNCHANGED <<switchVars, args, kb_exit_flag, said, ended>>

\* main() returns, or the program calls halt().
Return ==
  /\ InProgram /\ "at" \notin DOMAIN Me.at
  /\ LET status == IF Me.at = Outcome THEN Me.fail ELSE Me.at.exit
     IN  HaltSelf(status, IF status = 0 THEN "normal" ELSE "abnormal")

\* An exception of the program ends in halt(256).
Fault ==
  /\ InProgram /\ "at" \in DOMAIN Me.at
  /\ Text(Me.prog, Me.choice)[Me.at.at].call = "fault"
  /\ HaltSelf(256, "exception")

-----------------------------------------------------------------------------
(* Interrupts                                                              *)

KeyCtrlC ==
  IF terminal_curr = terminal_on_display_curr THEN HaltSelf(0, "ended by the user")
  ELSE /\ kb_exit_flag' = kb_exit_flag \cup {terminal_on_display_curr}
       /\ UNCHANGED <<switchVars, stack, args, said, ended>>

\* The CPU goes to a terminal for the first time: execute("shell").
PitCreate(n) ==
  /\ n \notin started /\ ~AtLimit /\ GoTo(n)
  /\ stack' = [stack EXCEPT ![n] = <<Shell>>] /\ args' = NoArgs
  /\ UNCHANGED <<kb_exit_flag, said, ended>>

PitSwitch(n) ==
  /\ n \in started \ kb_exit_flag /\ GoTo(n)
  /\ UNCHANGED progVars

PitSwitchAndHalt(n) ==
  /\ n \in started \cap kb_exit_flag /\ GoTo(n)
  /\ HaltTop(n, 0, "ended by the user")
  /\ kb_exit_flag' = kb_exit_flag \ {n}

PitRefuse(n) == AtLimit /\ Refuse(n) /\ UNCHANGED progVars

KeyRequest(n) == Request(n) /\ UNCHANGED progVars

Next ==
  \/ \E c \in Commands : ExecuteNothing(c) \/ ExecuteUnknown(c) \/ Execute(c)
  \/ ShellExit \/ ShellReports \/ Call \/ Return \/ Fault \/ KeyCtrlC
  \/ \E n \in Used : PitCreate(n) \/ PitSwitch(n) \/ PitSwitchAndHalt(n) \/ PitRefuse(n)
                     \/ KeyRequest(n)

Spec == Init /\ [][Next]_vars

-----------------------------------------------------------------------------
(* Properties                                                              *)

\* What the shell says of a command tells how it ended, whatever status it ended
\* with, whoever ended it, and whatever the other terminals did meanwhile.  Of a
\* program for which no process is left the shell says that there is no such
\* command, and so it does of a name that leading blanks have cut: both are taken
\* as right here, although the comment on execute() keeps negative results for
\* programs that were not found.
ReportsRight ==
  \A t \in Used : Top(t) > 0 /\ stack[t][Top(t)].prog = "shell" /\ stack[t][Top(t)].at = At(1) =>
    said[t] = CASE ended[t] \in {"not found", "no process"} -> "no such command"
                [] ended[t] = "exception" -> "program terminated by exception"
                [] ended[t] = "abnormal" -> "program terminated abnormally"
                [] OTHER -> "nothing"

\* No test of syserr ever finds a call that should have failed, in any choice of
\* the tests, alone or on two terminals at the same time.
SysErrPasses ==
  \A t \in Used : \A i \in 1..Top(t) : stack[t][i].fail = 0

\* A program that asks for its arguments gets those of its own command.
\* (What the comment in execute() says of the buffer; the code does not.)
ArgsKept ==
  \A t \in Used : \A i \in 1..Top(t) : stack[t][i].buf \in {"not asked", stack[t][i].given}
=============================================================================
