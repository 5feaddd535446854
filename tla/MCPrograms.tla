----------------------------- MODULE MCPrograms -----------------------------
(***************************************************************************)
(* The programs on a small instance.                                       *)
(***************************************************************************)
EXTENDS Programs

Typed(lead, name, len, rest) == [lead |-> lead, name |-> name, len |-> len, rest |-> rest]

\* Commands that are found, that are not, that begin with blanks up to and beyond
\* the buffer for the name, and that consist of blanks.
MCCommands == {Typed(0, "cat", 3, "frame0.txt"), Typed(1, "sigtest", 7, "1"),
               Typed(0, "syserr", 6, ""), Typed(0, "fish", 4, ""),
               Typed(7, "cat", 3, "."), Typed(8, "cat", 3, "."),
               Typed(0, "ls", 2, ""), Typed(0, "grep", 4, "very"), Typed(0, "hello", 5, ""),
               Typed(0, "counter", 7, ""), Typed(0, "testprint", 9, ""),
               Typed(0, "pingpong", 8, ""),
               Typed(0, "shell", 5, ""), Typed(0, "nosuch", 6, "."), Typed(2, "", 0, "")}
=============================================================================
