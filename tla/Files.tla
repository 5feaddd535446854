-------------------------------- MODULE Files --------------------------------
(***************************************************************************)
(* The file descriptors of processes (open, close, read, execute and halt  *)
(* in system_calls.c) over the file system.                                *)
(*                                                                         *)
(* read() enables interrupts, so the terminal can lose the CPU, or its     *)
(* program be ended, between file_read()'s copying and its addition to     *)
(* the position; the other calls are one step.  A system call looks its    *)
(* descriptors up through the running terminal every time.                 *)
(***************************************************************************)
EXTENDS TerminalSwitch, FileSystem

CONSTANTS NumFds,    \* descriptors of a process; 8 in the code
          Names,     \* bound: the names programs open
          Sizes,     \* bound: the numbers of bytes programs read
          MaxDepth,  \* bound: processes on a terminal
          MaxOpen,   \* bound: descriptors open at a time
          Used       \* bound: the terminals that run

ASSUME FilesAssumption ==
  /\ NumFds \in Nat /\ NumFds >= 2
  /\ Sizes \subseteq Nat \ {0}
  /\ MaxDepth \in Nat \ {0} /\ MaxOpen \in Nat
  /\ Used \subseteq Terminals /\ 1 \in Used

VARIABLES
  fd_arr,  \* the descriptors of each process on each terminal, the running one last
  call     \* the read in progress on each terminal: its descriptor and result

fileVars == <<fd_arr, call>>
vars == <<switchVars, fileVars>>

\* Descriptors 0 and 1 are the terminal's for good: open() does not look at them
\* and close() refuses them.
Fds == 2..(NumFds - 1)

\* A descriptor, with the history of what has been read through it.
Fd(type, inode) == [type |-> type, inode |-> inode, filePos |-> 0, got |-> <<>>]

NewProcess == [i \in Fds |-> Fd("free", 0)]

NoCall == [fd |-> 0, retval |-> 0, data |-> <<>>]

Init ==
  /\ SwitchInit
  /\ fd_arr = [t \in Used |-> <<NewProcess>>]
  /\ call = [t \in Used |-> NoCall]

InProgram == call[terminal_curr] = NoCall

\* get_pcb_process(): the process on top of the running terminal.
Top(t) == Len(fd_arr[t])
MyFd(i) == fd_arr[terminal_curr][Top(terminal_curr)][i]
WithMyFd(i, d) == [fd_arr EXCEPT ![terminal_curr][Top(terminal_curr)][i] = d]

InUse == {x \in Used \X (1..MaxDepth) \X Fds :
            x[2] <= Top(x[1]) /\ fd_arr[x[1]][x[2]][x[3]].type # "free"}

-----------------------------------------------------------------------------
(* System calls of the running program                                     *)

\* What open() makes of a name; it knows "rtc" before it looks at the directory.
Opened(name) ==
  LET requested == read_dentry_by_name(name)
  IN  IF name = "rtc" THEN Fd("rtc", 0)
      ELSE CASE requested.fileType = 0 -> Fd("rtc", 0)
             [] requested.fileType = 1 -> Fd("dir", 0)
             [] requested.fileType = 2 -> Fd("file", requested.inodeNum)

\* The first free descriptor is taken, if the name is known.
Open ==
  /\ InProgram /\ Cardinality(InUse) < MaxOpen
  /\ \E i \in Fds, name \in Names :
       /\ name = "rtc" \/ Matches(name) # {}
       /\ MyFd(i).type = "free" /\ \A j \in Fds : j < i => MyFd(j).type # "free"
       /\ fd_arr' = WithMyFd(i, Opened(name))
  /\ UNCHANGED <<switchVars, call>>

Close ==
  /\ InProgram
  /\ \E i \in Fds : MyFd(i).type # "free" /\ fd_arr' = WithMyFd(i, Fd("free", 0))
  /\ UNCHANGED <<switchVars, call>>

\* dir_read(): one entry, and the position moves by one.  (What it returns is the
\* number asked for, whatever the length of the name.)
dir_read(filePos) ==
  IF filePos >= Len(dirList) THEN Result(0, <<>>) ELSE Result(1, << <<-1, filePos>> >>)

\* read() up to where file_read() or dir_read() has its result.
Read ==
  /\ InProgram
  /\ \E i \in Fds, n \in Sizes :
       /\ MyFd(i).type \in {"file", "dir"}
       /\ LET result == IF MyFd(i).type = "dir" THEN dir_read(MyFd(i).filePos)
                        ELSE read_data(MyFd(i).inode, MyFd(i).filePos, n)
          IN  call' = [call EXCEPT ![terminal_curr] =
                         [fd |-> i, retval |-> result.retval, data |-> result.data]]
  /\ UNCHANGED <<switchVars, fd_arr>>

Moved(d, c) == [d EXCEPT !.filePos = IF c.retval = -1 THEN @ ELSE @ + c.retval,
                         !.got = @ \o c.data]

\* Mutant: the position moves in the process of the terminal on show.
AdvanceShown ==
  LET c == call[terminal_curr]
      s == terminal_on_display_curr
  IN  /\ ~InProgram
      /\ fd_arr' = [fd_arr EXCEPT ![s][Top(s)][c.fd] = Moved(@, c)]
      /\ call' = [call EXCEPT ![terminal_curr] = NoCall]
      /\ UNCHANGED switchVars

\* The rest of the read: the position moves by what was read.
Advance ==
  LET c == call[terminal_curr]
  IN  /\ ~InProgram
      /\ fd_arr' = WithMyFd(c.fd, Moved(MyFd(c.fd), c))
      /\ call' = [call EXCEPT ![terminal_curr] = NoCall]
      /\ UNCHANGED switchVars

\* execute(): the descriptors of the new process are cleared.
Execute ==
  /\ InProgram
  /\ Top(terminal_curr) < MaxDepth
  /\ fd_arr' = [fd_arr EXCEPT ![terminal_curr] = Append(@, NewProcess)]
  /\ UNCHANGED <<switchVars, call>>

\* What halt() leaves of the processes of terminal t: the parent, or a new shell.
Ended(t) == IF Top(t) > 1 THEN SubSeq(fd_arr[t], 1, Top(t) - 1) ELSE <<NewProcess>>

HaltTop(t) ==
  /\ fd_arr' = [fd_arr EXCEPT ![t] = Ended(t)]
  /\ call' = [call EXCEPT ![t] = NoCall]

\* halt() called by the program or, at any point of a read, by Ctrl+C or an
\* exception.
Halt == HaltTop(terminal_curr) /\ UNCHANGED switchVars

-----------------------------------------------------------------------------
\* The CPU goes to terminal n, where a Ctrl+C may have been pressed meanwhile.
PitGoTo(n) ==
  /\ GoTo(n)
  /\ \/ UNCHANGED fileVars
     \/ n \in started /\ HaltTop(n)

KeyRequest(t) == Request(t) /\ UNCHANGED fileVars

Next ==
  \/ Open \/ Close \/ Read \/ Advance \/ Execute \/ Halt
  \/ \E t \in Used : PitGoTo(t) \/ KeyRequest(t)

Spec == Init /\ [][Next]_vars

-----------------------------------------------------------------------------
(* Properties                                                              *)

\* What a descriptor stands for: how much of it there is, and its contents.
Size(d) == IF d.type = "dir" THEN Len(dirList) ELSE Inode[d.inode].length
Content(d, p) == IF d.type = "dir" THEN <<-1, p>> ELSE FileByte(d.inode, p)

Readable(d) == d.type \in {"file", "dir"}

Descriptor == [type : {"free", "rtc", "dir", "file"}, inode : Inodes, filePos : Nat,
               got : Seq(Places)]

TypeOK ==
  /\ SwitchTypeOK
  /\ fd_arr \in [Used -> Seq([Fds -> Descriptor])]
  /\ \A t \in Used : Top(t) \in 1..MaxDepth
  /\ call \in [Used -> [fd : Fds \cup {0}, retval : Int, data : Seq(Places)]]

\* Through each descriptor a program gets the contents in order from the start,
\* nothing twice and nothing left out, however its reads are cut up, preempted
\* or mixed with those of other descriptors, processes and terminals.
ReadsInOrder ==
  \A t \in Used : \A p \in 1..Top(t), i \in Fds :
    LET d == fd_arr[t][p][i]
    IN  /\ Len(d.got) = d.filePos
        /\ \A k \in 1..d.filePos : d.got[k] = Content(d, k - 1)

\* A read fails never, and gives nothing only at the end.
ReadsGiveBytes ==
  \A t \in Used : call[t] # NoCall =>
    LET d == fd_arr[t][Top(t)][call[t].fd]
    IN  \/ call[t].retval > 0
        \/ call[t].retval = 0 /\ d.filePos >= Size(d)

\* A directory, and a file of one block, is read no further than its end.
ShortOnesEnd ==
  \A t \in Used : \A p \in 1..Top(t), i \in Fds :
    LET d == fd_arr[t][p][i]
    IN  Readable(d) /\ (d.type = "dir" \/ Size(d) <= BlockSize) => d.filePos <= Size(d)

\* A file gives its own bytes only.  (What the comment of file_read() says; the
\* code goes on to the end of the block and beyond.)
ReadsEnd ==
  \A t \in Used : \A p \in 1..Top(t), i \in Fds :
    LET d == fd_arr[t][p][i] IN Readable(d) => d.filePos <= Size(d)

=============================================================================
