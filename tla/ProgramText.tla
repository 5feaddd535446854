---------------------------- MODULE ProgramText ----------------------------
(***************************************************************************)
(* The programs of src/syscalls and src/fish, as the calls they make.  A   *)
(* step is a call with its argument and the places where the program may   *)
(* go on after each kind of result: -1, 0, or more.  A place is a step, or *)
(* the exit with a status or with the outcome of the tests.  Computing and *)
(* printing are left out, and so is what cannot fail: a write to the       *)
(* terminal whose result is not looked at.                                 *)
(***************************************************************************)
EXTENDS Integers, SequencesExt

CONSTANT NumFds       \* descriptors of a process; 8 in the code

At(n) == [at |-> n]
Exit(s) == [exit |-> s]
Outcome == [outcome |-> "of the tests"]

Step(call, on, fails, zero, more) ==
  [call |-> call, on |-> on, next |-> [r \in {-1, 0, 1} |-> <<fails, zero, more>>[r + 2]],
   wants |-> "any"]

\* A call that must succeed for the program to go on, to step n.
Must(call, on, status, n) == Step(call, on, {Exit(status)}, {At(n)}, {At(n)})

\* A call whose result is not looked at.
Just(call, on, n) == Step(call, on, {At(n)}, {At(n)}, {At(n)})

\* A program has opened nothing before, so its descriptors are 2, 3 and 4.
cat == << Must("getargs", 0, 3, 2), Must("open", "argument", 2, 3),
          Step("read", 2, {Exit(3)}, {Exit(0)}, {At(4)}), Must("write", 1, 3, 3) >>

ls == << Must("open", ".", 2, 2),
         Step("read", 2, {Exit(3)}, {Exit(0)}, {At(3)}), Must("write", 1, 3, 2) >>

\* Steps 4 to 6 are do_one_file(); directories are passed over.
grep == << Must("getargs", 0, 3, 2), Must("open", ".", 2, 3),
           Step("read", 2, {Exit(3)}, {Exit(0)}, {At(3), At(4)}),
           Must("open", "entry", 3, 5),
           Step("read", 3, {Exit(3)}, {At(6)}, {At(5)}), Must("close", 3, 3, 3) >>

\* The program stores through a null pointer after it has read a name.
sigtest == << Must("getargs", 0, 3, 2), Must("read", 0, 3, 3), Just("fault", 0, 3) >>

\* hello and counter read a line; what they do with it ends with 0.
hello == << Must("read", 0, 3, 2), Step("write", 1, {Exit(0)}, {Exit(0)}, {Exit(0)}) >>
counter == << Must("read", 0, 3, 2), Step("write", 1, {Exit(0)}, {Exit(0)}, {Exit(0), At(2)}) >>

testprint == << Step("write", 1, {Exit(0)}, {Exit(0)}, {Exit(0)}) >>

\* It draws and waits for the clock for ever.
pingpong == << Just("open", "rtc", 2), Just("write", 2, 3), Just("write", 1, 4), Just("read", 2, 3) >>

\* Steps 3 to 12 are add_frames(): both files are read byte by byte, each waiting at
\* the end of its line (5, 6); once one has ended, the other is read on (7, 9) and
\* each further row closes the first again (8, 10); then both are closed.
fish == << Must("vidmap", "user", -1, 2), Just("open", "rtc", 3),
           Must("open", "frame0.txt", -1, 4), Must("open", "frame1.txt", -1, 5),
           Step("read", 3, {At(5), At(6)}, {At(7), At(8)}, {At(5), At(6)}),
           Step("read", 4, {At(5), At(6)}, {At(9), At(10)}, {At(5), At(6)}),
           Step("read", 4, {At(7), At(8)}, {At(11)}, {At(7), At(8)}), Just("close", 3, 7),
           Step("read", 3, {At(9), At(10)}, {At(11)}, {At(9), At(10)}), Just("close", 4, 9),
           Just("close", 3, 12), Just("close", 4, 13),
           Just("write", 2, 14),
           Step("read", 2, {At(14), At(15)}, {At(14), At(15)}, {At(14), At(15)}),
           Step("close", 2, {Exit(0)}, {Exit(0)}, {Exit(0)}) >>

-----------------------------------------------------------------------------
(* syserr, the repository's test of the calls that must fail               *)

\* A call of a test: it should fail, its failures are counted, or neither.
Tried(call, on, wants) == [call |-> call, on |-> on, wants |-> wants]

OnAll(call, fds) == [i \in 1..Len(fds) |-> Tried(call, fds[i], "failure")]
UpFrom(n) == [i \in 1..(NumFds - n) |-> n + i - 1]
NoFd(fd) == << Tried("read", fd, "failure"), Tried("write", fd, "failure"), Tried("close", fd, "failure") >>

err_neg_fd == NoFd(-1)
err_big_fd == NoFd(NumFds)

\* One open more than there are descriptors; the test passes if one has failed.
err_open_lots ==
  [i \in 1..(NumFds - 1) |-> Tried("open", ".", "count")]
    \o [i \in 1..(NumFds - 2) |-> Tried("close", i + 1, "any")]
    \o << Tried("verdict", 0, "one failure") >>

err_open == << Tried("open", "helloo", "failure"), Tried("open", "shel", "failure"),
               Tried("open", "", "failure") >>
err_unopened == OnAll("close", UpFrom(0)) \o OnAll("read", UpFrom(2)) \o OnAll("write", UpFrom(2))
err_vidmap == OnAll("vidmap", <<"null", "kernel">>)
err_stdin_out == << Tried("write", 0, "failure"), Tried("read", 1, "failure") >>
err_syscall_num == OnAll("number", <<11, -1, 0>>)

Tests == << err_neg_fd, err_big_fd, err_open_lots, err_open, err_unopened, err_vidmap,
            err_stdin_out, err_syscall_num >>

\* The tests that are run when n is chosen; none for a number that is not one.
Chosen(n) ==
  IF n = 0 THEN err_neg_fd \o err_big_fd \o err_open_lots \o err_open \o err_unopened
                  \o err_vidmap \o err_stdin_out \o err_syscall_num
  ELSE IF n \in DOMAIN Tests THEN Tests[n] ELSE <<>>

\* The number is read; then test follows test, and the result is the status.
syserr(n) ==
  LET tests == Chosen(n)
      end == IF tests = <<>> THEN {Exit(0)} ELSE {Outcome}
      After(i) == IF i = Len(tests) THEN end ELSE {At(i + 2)}
  IN  << Step("read", 0, {Exit(2)}, After(0), After(0)) >>
        \o [i \in 1..Len(tests) |->
              [call |-> tests[i].call, on |-> tests[i].on, wants |-> tests[i].wants,
               next |-> [r \in {-1, 0, 1} |-> After(i)]]]

-----------------------------------------------------------------------------
TestChoices(prog) == IF prog = "syserr" THEN 0..9 ELSE {0}

Text(prog, choice) ==
  CASE prog = "cat" -> cat [] prog = "ls" -> ls [] prog = "grep" -> grep
    [] prog = "sigtest" -> sigtest [] prog = "hello" -> hello [] prog = "counter" -> counter
    [] prog = "testprint" -> testprint [] prog = "pingpong" -> pingpong [] prog = "fish" -> fish
    [] prog = "syserr" -> syserr(choice)
=============================================================================
