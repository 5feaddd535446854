--------------------------- MODULE ProgramsProofs ---------------------------
(***************************************************************************)
(* What the shell says of a command is true, and the tests of syserr pass, *)
(* for any number of processes and descriptors, any files and any commands.*)
(* First what the texts of the programs are, then the steps of the system. *)
(***************************************************************************)
EXTENDS Programs, WellFoundedInduction, TLAPS

Statuses == {0, 2, 3, -1}

\* The places of a program of n steps.
PlacesOf(n) == [at : 1..n] \cup [exit : Statuses] \cup {Outcome}
AllPlaces == [at : Nat] \cup [exit : Statuses] \cup {Outcome}

Wants == {"any", "failure", "count", "one failure"}

\* A step of a program of n steps goes on at places of it.
IsStep(s, n) == s.wants \in Wants /\ s.next \in [{-1, 0, 1} -> SUBSET PlacesOf(n)]

\* A text of a program: its steps, none of which judges a result.
IsText(text) ==
  /\ Len(text) \in Nat \ {0} /\ DOMAIN text = 1..Len(text)
  /\ \A i \in 1..Len(text) : IsStep(text[i], Len(text)) /\ text[i].wants = "any"

(* A step is what it is made of.                                           *)
LEMMA StepIs ==
  ASSUME NEW n \in Nat, NEW call, NEW on,
         NEW fails \in SUBSET PlacesOf(n), NEW zero \in SUBSET PlacesOf(n),
         NEW more \in SUBSET PlacesOf(n)
  PROVE  LET s == Step(call, on, fails, zero, more)
         IN  IsStep(s, n) /\ s.wants = "any" /\ s.call = call /\ s.on = on
<1> DEFINE f == [r \in {-1, 0, 1} |-> <<fails, zero, more>>[r + 2]]
<1>1. f \in [{-1, 0, 1} -> SUBSET PlacesOf(n)]
  <2>1. ASSUME NEW r \in {-1, 0, 1} PROVE <<fails, zero, more>>[r + 2] \in SUBSET PlacesOf(n)
    <3>1. CASE r = -1
      BY <3>1
    <3>2. CASE r = 0
      BY <3>2
    <3>3. CASE r = 1
      BY <3>3
    <3> QED BY <3>1, <3>2, <3>3
  <2> QED BY <2>1
<1> HIDE DEF f
<1> DEFINE s == [call |-> call, on |-> on, next |-> f, wants |-> "any"]
<1>2. s.wants = "any" /\ s.call = call /\ s.on = on /\ s.next = f
  OBVIOUS
<1>3. Step(call, on, fails, zero, more) = s
  BY DEF Step, f
<1> HIDE DEF s
<1> QED BY <1>1, <1>2, <1>3 DEF IsStep, Wants

(* The places a text names.                                                *)
LEMMA PlacesAre ==
  ASSUME NEW n \in Nat
  PROVE  /\ \A k \in 1..n : At(k) \in PlacesOf(n)
         /\ \A s \in Statuses : Exit(s) \in PlacesOf(n)
         /\ Outcome \in PlacesOf(n)
BY DEF PlacesOf, At, Exit

LEMMA MustIs ==
  ASSUME NEW n \in Nat, NEW call, NEW on, NEW status \in Statuses, NEW k \in 1..n
  PROVE  IsStep(Must(call, on, status, k), n) /\ Must(call, on, status, k).wants = "any"
BY PlacesAre, StepIs DEF Must

LEMMA JustIs ==
  ASSUME NEW n \in Nat, NEW call, NEW on, NEW k \in 1..n
  PROVE  IsStep(Just(call, on, k), n) /\ Just(call, on, k).wants = "any"
BY PlacesAre, StepIs DEF Just

LEMMA CatText == IsText(cat)
<1> DEFINE a == Must("getargs", 0, 3, 2)
           b == Must("open", "argument", 2, 3)
           c == Step("read", 2, {Exit(3)}, {Exit(0)}, {At(4)})
           d == Must("write", 1, 3, 3)
<1>1. 4 \in Nat /\ \A k \in {2, 3, 4} : k \in 1..4 /\ {0, 2, 3} \subseteq Statuses
  BY DEF Statuses
<1>2. /\ {At(4)} \in SUBSET PlacesOf(4)
      /\ {Exit(0)} \in SUBSET PlacesOf(4)
      /\ {Exit(3)} \in SUBSET PlacesOf(4)
  BY <1>1, PlacesAre
<1>3. IsStep(a, 4) /\ a.wants = "any"
  BY <1>1, MustIs
<1>4. IsStep(b, 4) /\ b.wants = "any"
  BY <1>1, MustIs
<1>5. IsStep(c, 4) /\ c.wants = "any"
  BY <1>1, <1>2, StepIs
<1>6. IsStep(d, 4) /\ d.wants = "any"
  BY <1>1, MustIs
<1>7. cat = <<a, b, c, d>>
  BY DEF cat
<1> HIDE DEF a, b, c, d
<1> QED BY <1>3, <1>4, <1>5, <1>6, <1>7 DEF IsText

LEMMA LsText == IsText(ls)
<1> DEFINE a == Must("open", ".", 2, 2)
           b == Step("read", 2, {Exit(3)}, {Exit(0)}, {At(3)})
           c == Must("write", 1, 3, 2)
<1>1. 3 \in Nat /\ \A k \in {2, 3} : k \in 1..3 /\ {0, 2, 3} \subseteq Statuses
  BY DEF Statuses
<1>2. /\ {At(3)} \in SUBSET PlacesOf(3)
      /\ {Exit(0)} \in SUBSET PlacesOf(3)
      /\ {Exit(3)} \in SUBSET PlacesOf(3)
  BY <1>1, PlacesAre
<1>3. IsStep(a, 3) /\ a.wants = "any"
  BY <1>1, MustIs
<1>4. IsStep(b, 3) /\ b.wants = "any"
  BY <1>1, <1>2, StepIs
<1>5. IsStep(c, 3) /\ c.wants = "any"
  BY <1>1, MustIs
<1>6. ls = <<a, b, c>>
  BY DEF ls
<1> HIDE DEF a, b, c
<1> QED BY <1>3, <1>4, <1>5, <1>6 DEF IsText

LEMMA GrepText == IsText(grep)
<1> DEFINE a == Must("getargs", 0, 3, 2)
           b == Must("open", ".", 2, 3)
           c == Step("read", 2, {Exit(3)}, {Exit(0)}, {At(3), At(4)})
           d == Must("open", "entry", 3, 5)
           e == Step("read", 3, {Exit(3)}, {At(6)}, {At(5)})
           f == Must("close", 3, 3, 3)
<1>1. 6 \in Nat /\ \A k \in {2, 3, 4, 5, 6} : k \in 1..6 /\ {0, 2, 3} \subseteq Statuses
  BY DEF Statuses
<1>2. /\ {At(3), At(4)} \in SUBSET PlacesOf(6)
      /\ {At(5)} \in SUBSET PlacesOf(6)
      /\ {At(6)} \in SUBSET PlacesOf(6)
      /\ {Exit(0)} \in SUBSET PlacesOf(6)
      /\ {Exit(3)} \in SUBSET PlacesOf(6)
  BY <1>1, PlacesAre
<1>3. IsStep(a, 6) /\ a.wants = "any"
  BY <1>1, MustIs
<1>4. IsStep(b, 6) /\ b.wants = "any"
  BY <1>1, MustIs
<1>5. IsStep(c, 6) /\ c.wants = "any"
  BY <1>1, <1>2, StepIs
<1>6. IsStep(d, 6) /\ d.wants = "any"
  BY <1>1, MustIs
<1>7. IsStep(e, 6) /\ e.wants = "any"
  BY <1>1, <1>2, StepIs
<1>8. IsStep(f, 6) /\ f.wants = "any"
  BY <1>1, MustIs
<1>9. grep = <<a, b, c, d, e, f>>
  BY DEF grep
<1> HIDE DEF a, b, c, d, e, f
<1> QED BY <1>3, <1>4, <1>5, <1>6, <1>7, <1>8, <1>9 DEF IsText

LEMMA SigtestText == IsText(sigtest)
<1> DEFINE a == Must("getargs", 0, 3, 2)
           b == Must("read", 0, 3, 3)
           c == Just("fault", 0, 3)
<1>1. 3 \in Nat /\ \A k \in {2, 3} : k \in 1..3 /\ {3} \subseteq Statuses
  BY DEF Statuses
<1>2. IsStep(a, 3) /\ a.wants = "any"
  BY <1>1, MustIs
<1>3. IsStep(b, 3) /\ b.wants = "any"
  BY <1>1, MustIs
<1>4. IsStep(c, 3) /\ c.wants = "any"
  BY <1>1, JustIs
<1>5. sigtest = <<a, b, c>>
  BY DEF sigtest
<1> HIDE DEF a, b, c
<1> QED BY <1>2, <1>3, <1>4, <1>5 DEF IsText

LEMMA HelloText == IsText(hello)
<1> DEFINE a == Must("read", 0, 3, 2)
           b == Step("write", 1, {Exit(0)}, {Exit(0)}, {Exit(0)})
<1>1. 2 \in Nat /\ \A k \in {2} : k \in 1..2 /\ {0, 3} \subseteq Statuses
  BY DEF Statuses
<1>2. {Exit(0)} \in SUBSET PlacesOf(2)
  BY <1>1, PlacesAre
<1>3. IsStep(a, 2) /\ a.wants = "any"
  BY <1>1, MustIs
<1>4. IsStep(b, 2) /\ b.wants = "any"
  BY <1>1, <1>2, StepIs
<1>5. hello = <<a, b>>
  BY DEF hello
<1> HIDE DEF a, b
<1> QED BY <1>3, <1>4, <1>5 DEF IsText

LEMMA CounterText == IsText(counter)
<1> DEFINE a == Must("read", 0, 3, 2)
           b == Step("write", 1, {Exit(0)}, {Exit(0)}, {Exit(0), At(2)})
<1>1. 2 \in Nat /\ \A k \in {2} : k \in 1..2 /\ {0, 3} \subseteq Statuses
  BY DEF Statuses
<1>2. /\ {Exit(0), At(2)} \in SUBSET PlacesOf(2)
      /\ {Exit(0)} \in SUBSET PlacesOf(2)
  BY <1>1, PlacesAre
<1>3. IsStep(a, 2) /\ a.wants = "any"
  BY <1>1, MustIs
<1>4. IsStep(b, 2) /\ b.wants = "any"
  BY <1>1, <1>2, StepIs
<1>5. counter = <<a, b>>
  BY DEF counter
<1> HIDE DEF a, b
<1> QED BY <1>3, <1>4, <1>5 DEF IsText

LEMMA TestprintText == IsText(testprint)
<1> DEFINE a == Step("write", 1, {Exit(0)}, {Exit(0)}, {Exit(0)})
<1>1. 1 \in Nat /\ {0} \subseteq Statuses
  BY DEF Statuses
<1>2. {Exit(0)} \in SUBSET PlacesOf(1)
  BY <1>1, PlacesAre
<1>3. IsStep(a, 1) /\ a.wants = "any"
  BY <1>1, <1>2, StepIs
<1>4. testprint = <<a>>
  BY DEF testprint
<1> HIDE DEF a
<1> QED BY <1>3, <1>4 DEF IsText

LEMMA PingpongText == IsText(pingpong)
<1> DEFINE a == Just("open", "rtc", 2)
           b == Just("write", 2, 3)
           c == Just("write", 1, 4)
           d == Just("read", 2, 3)
<1>1. 4 \in Nat /\ \A k \in {2, 3, 4} : k \in 1..4 /\ {} \subseteq Statuses
  BY DEF Statuses
<1>2. IsStep(a, 4) /\ a.wants = "any"
  BY <1>1, JustIs
<1>3. IsStep(b, 4) /\ b.wants = "any"
  BY <1>1, JustIs
<1>4. IsStep(c, 4) /\ c.wants = "any"
  BY <1>1, JustIs
<1>5. IsStep(d, 4) /\ d.wants = "any"
  BY <1>1, JustIs
<1>6. pingpong = <<a, b, c, d>>
  BY DEF pingpong
<1> HIDE DEF a, b, c, d
<1> QED BY <1>2, <1>3, <1>4, <1>5, <1>6 DEF IsText

LEMMA FishText == IsText(fish)
<1> DEFINE a == Must("vidmap", "user", -1, 2)
           b == Just("open", "rtc", 3)
           c == Must("open", "frame0.txt", -1, 4)
           d == Must("open", "frame1.txt", -1, 5)
           e == Step("read", 3, {At(5), At(6)}, {At(7), At(8)}, {At(5), At(6)})
           f == Step("read", 4, {At(5), At(6)}, {At(9), At(10)}, {At(5), At(6)})
           g == Step("read", 4, {At(7), At(8)}, {At(11)}, {At(7), At(8)})
           h == Just("close", 3, 7)
           i == Step("read", 3, {At(9), At(10)}, {At(11)}, {At(9), At(10)})
           j == Just("close", 4, 9)
           k == Just("close", 3, 12)
           l == Just("close", 4, 13)
           m == Just("write", 2, 14)
           n == Step("read", 2, {At(14), At(15)}, {At(14), At(15)}, {At(14), At(15)})
           o == Step("close", 2, {Exit(0)}, {Exit(0)}, {Exit(0)})
<1>1. 15 \in Nat /\ \A x \in 2..15 : x \in 1..15 /\ {-1, 0} \subseteq Statuses
  BY DEF Statuses
<1>2. /\ {At(5), At(6)} \in SUBSET PlacesOf(15)
      /\ {At(7), At(8)} \in SUBSET PlacesOf(15)
      /\ {At(9), At(10)} \in SUBSET PlacesOf(15)
      /\ {At(14), At(15)} \in SUBSET PlacesOf(15)
      /\ {At(11)} \in SUBSET PlacesOf(15)
      /\ {Exit(0)} \in SUBSET PlacesOf(15)
  BY <1>1, PlacesAre
<1>3. IsStep(a, 15) /\ IsStep(c, 15) /\ IsStep(d, 15)
  BY <1>1, MustIs
<1>4. IsStep(b, 15) /\ IsStep(h, 15) /\ IsStep(j, 15)
  BY <1>1, JustIs
<1>5. IsStep(k, 15) /\ IsStep(l, 15) /\ IsStep(m, 15)
  BY <1>1, JustIs
<1>6. IsStep(e, 15) /\ IsStep(f, 15)
  BY <1>1, <1>2, StepIs
<1>7. IsStep(g, 15) /\ IsStep(i, 15)
  BY <1>1, <1>2, StepIs
<1>8. IsStep(n, 15) /\ IsStep(o, 15)
  BY <1>1, <1>2, StepIs
<1>9. \A x \in {a, b, c, d, e, f, g, h, i, j, k, l, m, n, o} : x.wants = "any"
  BY DEF Must, Just, Step
<1>10. fish = <<a, b, c, d, e, f, g, h, i, j, k, l, m, n, o>>
  BY DEF fish
<1> HIDE DEF a, b, c, d, e, f, g, h, i, j, k, l, m, n, o
<1> QED BY <1>3, <1>4, <1>5, <1>6, <1>7, <1>8, <1>9, <1>10 DEF IsText

-----------------------------------------------------------------------------
(* The tests of syserr: all the calls but those of err_open_lots() have to *)
(* fail for a process that has no file open.                               *)

Calls == {"read", "write", "close", "open", "vidmap", "number", "verdict"}
Names == {".", "helloo", "shel", "", "null", "kernel"}
TestSet == [call : Calls, on : Int \cup Names, wants : Wants]

MustFail(e) ==
  /\ e \in TestSet /\ e.wants = "failure"
  /\ \/ e.call = "read" /\ (~MayRead(e.on) \/ e.on \notin {0, 1})
     \/ e.call = "write" /\ (~MayWrite(e.on) \/ e.on \notin {0, 1})
     \/ e.call = "close" /\ (~MayClose(e.on) \/ e.on \notin {0, 1})
     \/ e.call = "open" /\ e.on \in {"helloo", "shel", ""}
     \/ e.call = "vidmap" /\ e.on # "user"
     \/ e.call = "number" /\ e.on \notin 1..10

AllFail(s) == s \in Seq(TestSet) /\ \A i \in 1..Len(s) : MustFail(s[i])

LotsLength == 2 * NumFds - 2

\* The tests s, with err_open_lots() after the first o calls.
LotsAfter(s, o) ==
  /\ s \in Seq(TestSet) /\ o \in Nat /\ o + LotsLength <= Len(s)
  /\ \A i \in 1..Len(s) :
       IF i \in (o + 1)..(o + LotsLength) THEN s[i] = err_open_lots[i - o] ELSE MustFail(s[i])

(* A call of a test is what it is made of.                                 *)
LEMMA TriedIs ==
  ASSUME NEW call \in Calls, NEW on \in Int \cup Names, NEW wants \in Wants
  PROVE  LET e == Tried(call, on, wants)
         IN  e \in TestSet /\ e.call = call /\ e.on = on /\ e.wants = wants
BY DEF Tried, TestSet

(* A call on a descriptor that is not one, or is not open.                 *)
LEMMA TriedFd ==
  ASSUME NEW call \in {"read", "write", "close"}, NEW fd \in Int,
         \/ call = "read" /\ (~MayRead(fd) \/ fd \notin {0, 1})
         \/ call = "write" /\ (~MayWrite(fd) \/ fd \notin {0, 1})
         \/ call = "close" /\ (~MayClose(fd) \/ fd \notin {0, 1})
  PROVE  MustFail(Tried(call, fd, "failure"))
<1> DEFINE e == Tried(call, fd, "failure")
<1>1. e \in TestSet /\ e.call = call /\ e.on = fd /\ e.wants = "failure"
  BY DEF Tried, TestSet, Wants, Calls, Names
<1> HIDE DEF e
<1> QED BY <1>1 DEF MustFail, e

(* Test follows test.                                                      *)
LEMMA TwoFail ==
  ASSUME NEW a, NEW b, AllFail(a), AllFail(b)
  PROVE  AllFail(a \o b) /\ Len(a \o b) = Len(a) + Len(b)
<1>1. /\ a \in Seq(TestSet) /\ b \in Seq(TestSet) /\ a \o b \in Seq(TestSet)
      /\ Len(a) \in Nat /\ Len(b) \in Nat /\ Len(a \o b) = Len(a) + Len(b)
  BY DEF AllFail
<1>2. ASSUME NEW i \in 1..Len(a \o b) PROVE MustFail((a \o b)[i])
  <2>1. CASE i <= Len(a)
    <3>1. (a \o b)[i] = a[i] /\ i \in 1..Len(a)
      BY <1>1, <2>1
    <3> QED BY <3>1 DEF AllFail
  <2>2. CASE ~(i <= Len(a))
    <3>1. (a \o b)[i] = b[i - Len(a)] /\ i - Len(a) \in 1..Len(b)
      BY <1>1, <2>2
    <3> QED BY <3>1 DEF AllFail
  <2> QED BY <2>1, <2>2
<1> QED BY <1>1, <1>2 DEF AllFail

(* The tests around err_open_lots().                                       *)
LEMMA LotsBegin ==
  ASSUME NEW a, AllFail(a), err_open_lots \in Seq(TestSet), Len(err_open_lots) = LotsLength
  PROVE  LotsAfter(a \o err_open_lots, Len(a))
<1> DEFINE l == err_open_lots
<1>1. /\ a \in Seq(TestSet) /\ l \in Seq(TestSet) /\ a \o l \in Seq(TestSet)
      /\ Len(a) \in Nat /\ LotsLength \in Nat /\ Len(a \o l) = Len(a) + LotsLength
  BY DEF AllFail
<1> HIDE DEF l
<1>2. ASSUME NEW i \in 1..Len(a \o l)
      PROVE IF i \in (Len(a) + 1)..(Len(a) + LotsLength) THEN (a \o l)[i] = l[i - Len(a)]
            ELSE MustFail((a \o l)[i])
  <2>1. CASE i <= Len(a)
    <3>1. (a \o l)[i] = a[i] /\ i \in 1..Len(a) /\ i \notin (Len(a) + 1)..(Len(a) + LotsLength)
      BY <1>1, <2>1
    <3> QED BY <3>1 DEF AllFail
  <2>2. CASE ~(i <= Len(a))
    <3>1. (a \o l)[i] = l[i - Len(a)] /\ i \in (Len(a) + 1)..(Len(a) + LotsLength)
      BY <1>1, <2>2 DEF l
    <3> QED BY <3>1
  <2> QED BY <2>1, <2>2
<1> QED BY <1>1, <1>2 DEF LotsAfter, l

LEMMA LotsGoOn ==
  ASSUME NEW s, NEW o, NEW b, LotsAfter(s, o), AllFail(b)
  PROVE  LotsAfter(s \o b, o)
<1>1. /\ s \in Seq(TestSet) /\ b \in Seq(TestSet) /\ s \o b \in Seq(TestSet)
      /\ Len(s) \in Nat /\ Len(b) \in Nat /\ Len(s \o b) = Len(s) + Len(b)
      /\ o \in Nat /\ LotsLength \in Int /\ o + LotsLength <= Len(s)
  BY ProgramsAssumption DEF AllFail, LotsAfter, LotsLength
<1>2. ASSUME NEW i \in 1..Len(s \o b)
      PROVE IF i \in (o + 1)..(o + LotsLength) THEN (s \o b)[i] = err_open_lots[i - o]
            ELSE MustFail((s \o b)[i])
  <2>1. CASE i <= Len(s)
    <3>1. (s \o b)[i] = s[i] /\ i \in 1..Len(s)
      BY <1>1, <2>1
    <3> QED BY <3>1 DEF LotsAfter
  <2>2. CASE ~(i <= Len(s))
    <3>1. (s \o b)[i] = b[i - Len(s)] /\ i - Len(s) \in 1..Len(b)
          /\ i \notin (o + 1)..(o + LotsLength)
      BY <1>1, <2>2
    <3> QED BY <3>1 DEF AllFail
  <2> QED BY <2>1, <2>2
<1> QED BY <1>1, <1>2 DEF LotsAfter

(* The calls of err_open_lots().                                           *)
LEMMA LotsIs ==
  /\ err_open_lots \in Seq(TestSet) /\ Len(err_open_lots) = LotsLength
  /\ \A i \in 1..LotsLength :
       /\ i < NumFds => err_open_lots[i] = Tried("open", ".", "count")
       /\ i >= NumFds /\ i < LotsLength =>
            err_open_lots[i] = Tried("close", i - NumFds + 2, "any")
       /\ i = LotsLength => err_open_lots[i] = Tried("verdict", 0, "one failure")
<1> DEFINE a == [i \in 1..(NumFds - 1) |-> Tried("open", ".", "count")]
           b == [i \in 1..(NumFds - 2) |-> Tried("close", i + 1, "any")]
           e == Tried("verdict", 0, "one failure")
<1>1. NumFds \in Nat /\ NumFds > 2
  BY ProgramsAssumption
<1>2. a \in Seq(TestSet) /\ Len(a) = NumFds - 1
      /\ \A i \in 1..(NumFds - 1) : a[i] = Tried("open", ".", "count")
  <2>1. Tried("open", ".", "count") \in TestSet
    BY DEF Tried, TestSet, Wants, Calls, Names
  <2> QED BY <1>1, <2>1
<1>3. b \in Seq(TestSet) /\ Len(b) = NumFds - 2
      /\ \A i \in 1..(NumFds - 2) : b[i] = Tried("close", i + 1, "any")
  <2>1. \A i \in 1..(NumFds - 2) : Tried("close", i + 1, "any") \in TestSet
    BY DEF Tried, TestSet, Wants, Calls, Names
  <2> QED BY <1>1, <2>1
<1>4. e \in TestSet
  BY DEF Tried, TestSet, Wants, Calls, Names
<1>5. err_open_lots = (a \o b) \o <<e>>
  BY DEF err_open_lots
<1> HIDE DEF a, b, e
<1>6. a \o b \in Seq(TestSet) /\ Len(a \o b) = 2 * NumFds - 3
      /\ <<e>> \in Seq(TestSet) /\ Len(<<e>>) = 1 /\ <<e>>[1] = e
  BY SMTT(40), <1>1, <1>2, <1>3, <1>4
<1>7. err_open_lots \in Seq(TestSet) /\ Len(err_open_lots) = LotsLength
  BY <1>1, <1>5, <1>6 DEF LotsLength
<1>8. ASSUME NEW i \in 1..LotsLength, i < NumFds
      PROVE err_open_lots[i] = Tried("open", ".", "count")
  <2>1. i \in 1..Len(a) /\ i \in 1..Len(a \o b)
    BY <1>1, <1>2, <1>6, <1>8 DEF LotsLength
  <2>2. (a \o b)[i] = a[i]
    BY <1>2, <1>3, <2>1
  <2>3. err_open_lots[i] = (a \o b)[i]
    BY <1>5, <1>6, <2>1
  <2> QED BY <1>1, <1>2, <1>8, <2>1, <2>2, <2>3
<1>9. ASSUME NEW i \in 1..LotsLength, i >= NumFds, i < LotsLength
      PROVE err_open_lots[i] = Tried("close", i - NumFds + 2, "any")
  <2>1. i \in 1..Len(a \o b) /\ ~(i <= Len(a)) /\ i - Len(a) = i - NumFds + 1
        /\ i - Len(a) \in 1..(NumFds - 2) /\ (i - Len(a)) + 1 = i - NumFds + 2
    BY <1>1, <1>2, <1>6, <1>9 DEF LotsLength
  <2>2. (a \o b)[i] = b[i - Len(a)]
    BY <1>2, <1>3, <2>1
  <2>3. err_open_lots[i] = (a \o b)[i]
    BY <1>5, <1>6, <2>1
  <2> QED BY <1>3, <2>1, <2>2, <2>3
<1>10. ASSUME NEW i \in 1..LotsLength, i = LotsLength
       PROVE err_open_lots[i] = Tried("verdict", 0, "one failure")
  <2>1. ~(i <= Len(a \o b)) /\ i - Len(a \o b) = 1
    BY <1>1, <1>6, <1>10 DEF LotsLength
  <2>2. err_open_lots[i] = <<e>>[1]
    BY <1>1, <1>5, <1>6, <1>7, <2>1
  <2> QED BY <1>6, <2>2 DEF e
<1> QED BY <1>7, <1>8, <1>9, <1>10

(* The descriptors from n upwards.                                         *)
LEMMA UpFromIs ==
  ASSUME NEW n \in 0..2
  PROVE  /\ UpFrom(n) \in Seq(Int) /\ Len(UpFrom(n)) = NumFds - n
         /\ \A i \in 1..(NumFds - n) : UpFrom(n)[i] = n + i - 1
<1>1. NumFds - n \in Nat
  BY ProgramsAssumption
<1>2. \A i \in 1..(NumFds - n) : n + i - 1 \in Int
  OBVIOUS
<1> QED BY <1>1, <1>2 DEF UpFrom

(* One call with several arguments.                                        *)
LEMMA OnAllIs ==
  ASSUME NEW call \in Calls, NEW ons, NEW n \in Nat, Len(ons) = n,
         \A i \in 1..n : MustFail(Tried(call, ons[i], "failure"))
  PROVE  AllFail(OnAll(call, ons))
<1> DEFINE s == OnAll(call, ons)
<1>1. \A i \in 1..n : Tried(call, ons[i], "failure") \in TestSet
  BY DEF MustFail
<1>2. s \in Seq(TestSet) /\ Len(s) = n
      /\ \A i \in 1..n : s[i] = Tried(call, ons[i], "failure")
  BY <1>1 DEF OnAll
<1> HIDE DEF s
<1>3. AllFail(s)
  BY <1>2 DEF AllFail
<1> QED BY <1>3 DEF s

(* A sequence of two or three calls.                                       *)
LEMMA TwoCalls ==
  ASSUME NEW a, NEW b, MustFail(a), MustFail(b)
  PROVE  AllFail(<<a, b>>)
<1>1. a \in TestSet /\ b \in TestSet
  BY DEF MustFail
<1>2. <<a, b>> \in Seq(TestSet) /\ Len(<<a, b>>) = 2
  BY <1>1
<1>3. ASSUME NEW i \in 1..2 PROVE MustFail(<<a, b>>[i])
  <2>1. i = 1 \/ i = 2
    OBVIOUS
  <2> QED BY <2>1
<1> QED BY <1>2, <1>3 DEF AllFail

LEMMA ThreeCalls ==
  ASSUME NEW a, NEW b, NEW c, MustFail(a), MustFail(b), MustFail(c)
  PROVE  AllFail(<<a, b, c>>) /\ Len(<<a, b, c>>) = 3
<1>1. a \in TestSet /\ b \in TestSet /\ c \in TestSet
  BY DEF MustFail
<1>2. <<a, b, c>> \in Seq(TestSet) /\ Len(<<a, b, c>>) = 3
  BY <1>1
<1>3. ASSUME NEW i \in 1..3 PROVE MustFail(<<a, b, c>>[i])
  <2>1. i = 1 \/ i = 2 \/ i = 3
    OBVIOUS
  <2> QED BY <2>1
<1> QED BY <1>2, <1>3 DEF AllFail

(* A number that is not a descriptor is refused by every call.             *)
LEMMA NoFdFails ==
  ASSUME NEW fd \in Int, fd < 0 \/ fd >= NumFds
  PROVE  AllFail(NoFd(fd)) /\ Len(NoFd(fd)) = 3
<1>1. ~MayRead(fd) /\ ~MayWrite(fd) /\ ~MayClose(fd)
  BY ProgramsAssumption DEF MayRead, MayWrite, MayClose
<1>2. MustFail(Tried("read", fd, "failure"))
  BY <1>1, TriedFd
<1>3. MustFail(Tried("write", fd, "failure"))
  BY <1>1, TriedFd
<1>4. MustFail(Tried("close", fd, "failure"))
  BY <1>1, TriedFd
<1> QED BY <1>2, <1>3, <1>4, ThreeCalls DEF NoFd

LEMMA OpenFails == AllFail(err_open)
<1>1. ASSUME NEW name \in {"helloo", "shel", ""}
      PROVE MustFail(Tried("open", name, "failure"))
  <2> DEFINE e == Tried("open", name, "failure")
  <2>1. e \in TestSet /\ e.call = "open" /\ e.on = name /\ e.wants = "failure"
    BY DEF Tried, TestSet, Calls, Names, Wants
  <2> HIDE DEF e
  <2>2. MustFail(e)
    BY <2>1 DEF MustFail
  <2> QED BY <2>2 DEF e
<1>2. /\ MustFail(Tried("open", "helloo", "failure"))
      /\ MustFail(Tried("open", "shel", "failure"))
      /\ MustFail(Tried("open", "", "failure"))
  BY <1>1
<1> QED BY <1>2, ThreeCalls DEF err_open

LEMMA UnopenedFails == AllFail(err_unopened)
<1>1. NumFds \in Nat /\ NumFds > 2
  BY ProgramsAssumption
<1>2. AllFail(OnAll("close", UpFrom(0)))
  <2>1. UpFrom(0) \in Seq(Int) /\ Len(UpFrom(0)) = NumFds - 0
        /\ \A i \in 1..(NumFds - 0) : UpFrom(0)[i] = 0 + i - 1
    BY UpFromIs
  <2>2. ASSUME NEW i \in 1..NumFds PROVE MustFail(Tried("close", UpFrom(0)[i], "failure"))
    <3> DEFINE fd == UpFrom(0)[i]
    <3>1. fd \in Int /\ (~MayClose(fd) \/ fd \notin {0, 1})
      BY <1>1, <2>1 DEF MayClose
    <3> HIDE DEF fd
    <3>2. MustFail(Tried("close", fd, "failure"))
      BY <3>1, TriedFd
    <3> QED BY <3>2 DEF fd
  <2>3. "close" \in Calls /\ Len(UpFrom(0)) = NumFds
    BY <1>1, <2>1 DEF Calls
  <2> QED BY <1>1, <2>2, <2>3, OnAllIs
<1>3. UpFrom(2) \in Seq(Int) /\ Len(UpFrom(2)) = NumFds - 2 /\ NumFds - 2 \in Nat
      /\ \A i \in 1..(NumFds - 2) : UpFrom(2)[i] \in Int /\ UpFrom(2)[i] \notin {0, 1}
  <2>1. \A i \in 1..(NumFds - 2) : UpFrom(2)[i] = 2 + i - 1
    BY UpFromIs
  <2>2. UpFrom(2) \in Seq(Int) /\ Len(UpFrom(2)) = NumFds - 2
    BY UpFromIs
  <2> QED BY <1>1, <2>1, <2>2
<1>4. ASSUME NEW call \in {"read", "write"} PROVE AllFail(OnAll(call, UpFrom(2)))
  <2>1. \A i \in 1..(NumFds - 2) : MustFail(Tried(call, UpFrom(2)[i], "failure"))
    BY <1>3, TriedFd
  <2> QED BY <1>3, <2>1, OnAllIs DEF Calls
<1>5. AllFail(OnAll("read", UpFrom(2))) /\ AllFail(OnAll("write", UpFrom(2)))
  BY <1>4
<1> QED BY <1>2, <1>5, TwoFail DEF err_unopened

LEMMA VidmapFails == AllFail(err_vidmap)
<1> DEFINE ons == <<"null", "kernel">>
<1>1. ASSUME NEW i \in 1..2 PROVE MustFail(Tried("vidmap", ons[i], "failure"))
  <2> DEFINE on == ons[i]
  <2>1. on \in Names /\ on # "user"
    <3>1. ons[1] = "null" /\ ons[2] = "kernel" /\ (i = 1 \/ i = 2)
      OBVIOUS
    <3>2. on = "null" \/ on = "kernel"
      BY <3>1
    <3> QED BY <3>2 DEF Names
  <2> HIDE DEF on
  <2> DEFINE e == Tried("vidmap", on, "failure")
  <2>2. e \in TestSet /\ e.call = "vidmap" /\ e.on = on /\ e.wants = "failure"
    BY <2>1 DEF Tried, TestSet, Calls, Wants
  <2> HIDE DEF e
  <2>3. MustFail(e)
    BY <2>1, <2>2 DEF MustFail
  <2> QED BY <2>3 DEF e, on
<1>2. Len(ons) = 2 /\ 2 \in Nat /\ "vidmap" \in Calls
  BY DEF Calls
<1> HIDE DEF ons
<1>3. AllFail(OnAll("vidmap", ons))
  BY <1>1, <1>2, OnAllIs
<1> QED BY <1>3 DEF err_vidmap, ons

LEMMA NumberFails == AllFail(err_syscall_num)
<1> DEFINE ons == <<11, -1, 0>>
<1>1. ASSUME NEW i \in 1..3 PROVE MustFail(Tried("number", ons[i], "failure"))
  <2> DEFINE on == ons[i]
  <2>1. on \in Int /\ on \notin 1..10
    <3>1. i = 1 \/ i = 2 \/ i = 3
      OBVIOUS
    <3> QED BY <3>1
  <2> HIDE DEF on
  <2> DEFINE e == Tried("number", on, "failure")
  <2>2. e \in TestSet /\ e.call = "number" /\ e.on = on /\ e.wants = "failure"
    BY <2>1 DEF Tried, TestSet, Calls, Wants
  <2> HIDE DEF e
  <2>3. MustFail(e)
    BY <2>1, <2>2 DEF MustFail
  <2> QED BY <2>3 DEF e, on
<1>2. Len(ons) = 3 /\ 3 \in Nat /\ "number" \in Calls
  BY DEF Calls
<1> HIDE DEF ons
<1>3. AllFail(OnAll("number", ons))
  BY <1>1, <1>2, OnAllIs
<1> QED BY <1>3 DEF err_syscall_num, ons

LEMMA StdinOutFails == AllFail(err_stdin_out)
<1>1. ~MayWrite(0) /\ ~MayRead(1)
  BY DEF MayWrite, MayRead
<1>2. MustFail(Tried("write", 0, "failure"))
  BY <1>1, TriedFd
<1>3. MustFail(Tried("read", 1, "failure"))
  BY <1>1, TriedFd
<1> QED BY <1>2, <1>3, TwoCalls DEF err_stdin_out

\* How far the calls of err_open_lots() are when choice n is at step k, if they are
\* in it: before them 1 or less, after them more than there are.
Lots(n, k) == IF n = 0 THEN k - 7 ELSE IF n = 3 THEN k - 1 ELSE 0

(* What is chosen are calls that must fail, and those of err_open_lots().  *)
LEMMA ChosenIs ==
  ASSUME NEW n \in 0..9
  PROVE  /\ Chosen(n) \in Seq(TestSet)
         /\ \A i \in 1..Len(Chosen(n)) :
              IF Lots(n, i + 1) \in 1..LotsLength
              THEN Chosen(n)[i] = err_open_lots[Lots(n, i + 1)]
              ELSE MustFail(Chosen(n)[i])
<1>1. AllFail(err_neg_fd) /\ Len(err_neg_fd) = 3
  BY NoFdFails DEF err_neg_fd
<1>2. AllFail(err_big_fd) /\ Len(err_big_fd) = 3
  BY NoFdFails, ProgramsAssumption DEF err_big_fd
<1>3. LotsLength \in Nat
  BY ProgramsAssumption DEF LotsLength
<1>4. CASE n = 0
  <2> DEFINE s == err_neg_fd \o err_big_fd \o err_open_lots \o err_open \o err_unopened
                     \o err_vidmap \o err_stdin_out \o err_syscall_num
  <2>1. AllFail(err_neg_fd \o err_big_fd) /\ Len(err_neg_fd \o err_big_fd) = 6
    <3>1. 3 + 3 = 6
      OBVIOUS
    <3> QED BY <1>1, <1>2, <3>1, TwoFail
  <2>2. LotsAfter(err_neg_fd \o err_big_fd \o err_open_lots, 6)
    BY <2>1, LotsIs, LotsBegin
  <2>3. LotsAfter(s, 6)
    <3>1. LotsAfter(err_neg_fd \o err_big_fd \o err_open_lots \o err_open, 6)
      BY <2>2, OpenFails, LotsGoOn
    <3>2. LotsAfter(err_neg_fd \o err_big_fd \o err_open_lots \o err_open \o err_unopened, 6)
      BY <3>1, UnopenedFails, LotsGoOn
    <3>3. LotsAfter(err_neg_fd \o err_big_fd \o err_open_lots \o err_open \o err_unopened
                      \o err_vidmap, 6)
      BY <3>2, VidmapFails, LotsGoOn
    <3>4. LotsAfter(err_neg_fd \o err_big_fd \o err_open_lots \o err_open \o err_unopened
                      \o err_vidmap \o err_stdin_out, 6)
      BY <3>3, StdinOutFails, LotsGoOn
    <3> QED BY <3>4, NumberFails, LotsGoOn
  <2>4. Chosen(n) = s
    BY <1>4 DEF Chosen
  <2> HIDE DEF s
  <2>5. ASSUME NEW i \in 1..Len(s)
        PROVE IF Lots(n, i + 1) \in 1..LotsLength THEN s[i] = err_open_lots[Lots(n, i + 1)]
              ELSE MustFail(s[i])
    <3>1. Lots(n, i + 1) = i - 6
      BY <1>4 DEF Lots
    <3>2. i - 6 \in 1..LotsLength <=> i \in (6 + 1)..(6 + LotsLength)
      BY <1>3
    <3> QED BY <2>3, <3>1, <3>2 DEF LotsAfter
  <2> QED BY <2>3, <2>4, <2>5 DEF LotsAfter
<1>5. CASE n = 3
  <2>1. Chosen(n) = err_open_lots
    BY <1>5 DEF Chosen, Tests
  <2>2. ASSUME NEW i \in 1..LotsLength PROVE Lots(n, i + 1) = i
    BY <1>3, <1>5 DEF Lots
  <2> QED BY <1>3, <2>1, <2>2, LotsIs
<1>6. CASE n \notin {0, 3}
  <2>1. AllFail(Chosen(n))
    <3>1. CASE n \in {1, 2}
      BY <1>1, <1>2, <3>1 DEF Chosen, Tests
    <3>2. CASE n \in {4, 5}
      BY OpenFails, UnopenedFails, <3>2 DEF Chosen, Tests
    <3>3. CASE n \in {6, 7, 8}
      BY VidmapFails, StdinOutFails, NumberFails, <3>3 DEF Chosen, Tests
    <3>4. CASE n = 9
      <4>1. Chosen(n) = << >>
        BY <3>4 DEF Chosen, Tests
      <4> QED BY <4>1 DEF AllFail
    <3> QED BY <1>6, <3>1, <3>2, <3>3, <3>4
  <2>2. \A i : Lots(n, i + 1) \notin 1..LotsLength
    BY <1>6 DEF Lots
  <2> QED BY <2>1, <2>2 DEF AllFail
<1> QED BY <1>4, <1>5, <1>6

(* The text of syserr: after the number is read, one step for each call,   *)
(* and after each step the next one, or the end.                           *)
LEMMA SyserrText ==
  ASSUME NEW n \in 0..9
  PROVE  LET text == syserr(n)
         IN  /\ Len(text) = Len(Chosen(n)) + 1 /\ DOMAIN text = 1..Len(text)
             /\ text[1].call = "read" /\ text[1].on = 0 /\ text[1].wants = "any"
             /\ \A i \in 1..Len(Chosen(n)) :
                  /\ text[i + 1].call = Chosen(n)[i].call /\ text[i + 1].on = Chosen(n)[i].on
                  /\ text[i + 1].wants = Chosen(n)[i].wants
             /\ \A k \in 1..Len(text) :
                  /\ IsStep(text[k], Len(text))
                  /\ \A r \in {-1, 0, 1} :
                       text[k].next[r] \subseteq {At(k + 1), Exit(0), Exit(2), Outcome}
<1> DEFINE tests == Chosen(n)
           end == IF tests = <<>> THEN {Exit(0)} ELSE {Outcome}
           After(i) == IF i = Len(tests) THEN end ELSE {At(i + 2)}
           first == Step("read", 0, {Exit(2)}, After(0), After(0))
           Rest2(i) == [call |-> tests[i].call, on |-> tests[i].on, wants |-> tests[i].wants,
                        next |-> [r \in {-1, 0, 1} |-> After(i)]]
           rest == [i \in 1..Len(tests) |-> Rest2(i)]
           text == <<first>> \o rest
           m == Len(tests) + 1
<1>1. syserr(n) = text
  BY DEF syserr
<1>2. tests \in Seq(TestSet) /\ Len(tests) \in Nat /\ m \in Nat \ {0}
  <2> HIDE DEF tests, m
  <2>1. tests \in Seq(TestSet)
    BY ChosenIs DEF tests
  <2> QED BY <2>1 DEF m
<1>3. \A i \in 1..Len(tests) : tests[i] \in TestSet
  <2> HIDE DEF tests
  <2> QED BY <1>2
<1> HIDE DEF tests
<1>4. ASSUME NEW i \in 0..Len(tests)
      PROVE After(i) \in SUBSET PlacesOf(m) /\ After(i) \subseteq {At(i + 2), Exit(0), Outcome}
  <2>1. end \in SUBSET PlacesOf(m) /\ end \subseteq {Exit(0), Outcome}
    BY <1>2, PlacesAre DEF Statuses
  <2>2. CASE i = Len(tests)
    <3> HIDE DEF end
    <3> QED BY <2>1, <2>2
  <2>3. CASE i # Len(tests)
    <3>1. i + 2 \in 1..m
      BY <1>2, <2>3
    <3>2. At(i + 2) \in PlacesOf(m)
      BY <1>2, <3>1, PlacesAre
    <3> QED BY <2>3, <3>2
  <2> QED BY <2>2, <2>3
<1>5. /\ After(0) \in SUBSET PlacesOf(m) /\ After(0) \subseteq {At(2), Exit(0), Outcome}
      /\ {Exit(2)} \in SUBSET PlacesOf(m)
  <2>1. 0 \in 0..Len(tests) /\ 0 + 2 = 2
    BY <1>2
  <2>2. {Exit(2)} \in SUBSET PlacesOf(m)
    BY <1>2, PlacesAre DEF Statuses
  <2> HIDE DEF After
  <2> QED BY <1>4, <2>1, <2>2
<1> HIDE DEF After, m
<1>6. /\ IsStep(first, m) /\ first.call = "read" /\ first.on = 0 /\ first.wants = "any"
      /\ \A r \in {-1, 0, 1} : first.next[r] \subseteq {At(2), Exit(0), Exit(2), Outcome}
  <2>1. IsStep(first, m) /\ first.call = "read" /\ first.on = 0 /\ first.wants = "any"
    BY <1>2, <1>5, StepIs
  <2>2. first.next = [r \in {-1, 0, 1} |-> <<{Exit(2)}, After(0), After(0)>>[r + 2]]
    BY DEF Step
  <2>3. ASSUME NEW r \in {-1, 0, 1}
        PROVE first.next[r] \subseteq {At(2), Exit(0), Exit(2), Outcome}
    <3>1. first.next[r] = <<{Exit(2)}, After(0), After(0)>>[r + 2]
      BY <2>2
    <3>2. first.next[r] = {Exit(2)} \/ first.next[r] = After(0)
      <4>1. CASE r = -1
        BY <3>1, <4>1
      <4>2. CASE r = 0
        BY <3>1, <4>2
      <4>3. CASE r = 1
        BY <3>1, <4>3
      <4> QED BY <4>1, <4>2, <4>3
    <3> QED BY <3>2, <1>5
  <2> QED BY <2>1, <2>3
<1>7. ASSUME NEW i \in 1..Len(tests)
      PROVE /\ IsStep(Rest2(i), m)
            /\ Rest2(i).call = tests[i].call /\ Rest2(i).on = tests[i].on
            /\ Rest2(i).wants = tests[i].wants
            /\ \A r \in {-1, 0, 1} :
                 Rest2(i).next[r] \subseteq {At(i + 2), Exit(0), Exit(2), Outcome}
  <2>1. i \in 0..Len(tests)
    BY <1>2
  <2>2. After(i) \in SUBSET PlacesOf(m) /\ After(i) \subseteq {At(i + 2), Exit(0), Outcome}
    BY <1>4, <2>1
  <2>3. tests[i].wants \in Wants
    BY <1>3 DEF TestSet
  <2> DEFINE f == [r \in {-1, 0, 1} |-> After(i)]
  <2>4. f \in [{-1, 0, 1} -> SUBSET PlacesOf(m)] /\ \A r \in {-1, 0, 1} : f[r] = After(i)
    BY <2>2
  <2> HIDE DEF f
  <2>5. Rest2(i) = [call |-> tests[i].call, on |-> tests[i].on, wants |-> tests[i].wants,
                    next |-> f]
    BY DEF f
  <2> QED BY <2>2, <2>3, <2>4, <2>5 DEF IsStep
<1>8. /\ Len(text) = m /\ DOMAIN text = 1..m /\ text[1] = first
      /\ \A i \in 1..Len(tests) : text[i + 1] = Rest2(i)
  <2> DEFINE X == {first} \cup {Rest2(i) : i \in 1..Len(tests)}
  <2>1. rest \in Seq(X) /\ Len(rest) = Len(tests) /\ \A i \in 1..Len(tests) : rest[i] = Rest2(i)
    <3>1. \A i \in 1..Len(tests) : Rest2(i) \in X
      OBVIOUS
    <3> HIDE DEF Rest2, X
    <3> QED BY <1>2, <3>1
  <2>2. <<first>> \in Seq(X) /\ Len(<<first>>) = 1 /\ <<first>>[1] = first
    OBVIOUS
  <2> HIDE DEF first, rest, X, Rest2
  <2> QED BY <1>2, <2>1, <2>2 DEF m
<1> HIDE DEF text, first, Rest2
<1>9. ASSUME NEW k \in 1..m
      PROVE /\ IsStep(text[k], m)
            /\ \A r \in {-1, 0, 1} : text[k].next[r] \subseteq {At(k + 1), Exit(0), Exit(2), Outcome}
  <2>1. CASE k = 1
    <3>1. k + 1 = 2
      BY <2>1
    <3> QED BY <1>6, <1>8, <2>1, <3>1
  <2>2. CASE k # 1
    <3>1. k - 1 \in 1..Len(tests) /\ (k - 1) + 1 = k /\ (k - 1) + 2 = k + 1
      BY <1>2, <2>2 DEF m
    <3>2. text[k] = Rest2(k - 1)
      BY <1>8, <3>1
    <3>3. IsStep(Rest2(k - 1), m) /\ \A r \in {-1, 0, 1} :
             Rest2(k - 1).next[r] \subseteq {At((k - 1) + 2), Exit(0), Exit(2), Outcome}
      BY <1>7, <3>1
    <3> QED BY <3>1, <3>2, <3>3
  <2> QED BY <2>1, <2>2
<1>10. \A i \in 1..Len(tests) :
         /\ text[i + 1].call = tests[i].call /\ text[i + 1].on = tests[i].on
         /\ text[i + 1].wants = tests[i].wants
  BY <1>7, <1>8
<1> QED BY <1>1, <1>6, <1>8, <1>9, <1>10 DEF m, tests

Programs10 == {"cat", "ls", "grep", "sigtest", "hello", "counter", "testprint", "pingpong",
               "fish", "syserr"}

(* Every program goes from places of its text to places of its text, or    *)
(* ends with a status that tells; only syserr judges results.              *)
LEMMA TextIs ==
  ASSUME NEW prog \in Programs10, NEW choice \in 0..9
  PROVE  LET text == Text(prog, choice)
         IN  /\ Len(text) \in Nat \ {0} /\ DOMAIN text = 1..Len(text)
             /\ \A i \in 1..Len(text) :
                  /\ IsStep(text[i], Len(text))
                  /\ prog # "syserr" => text[i].wants = "any"
<1>1. CASE prog = "syserr"
  <2>1. Text(prog, choice) = syserr(choice)
    BY <1>1 DEF Text
  <2>2. Len(Chosen(choice)) \in Nat
    BY ChosenIs
  <2>3. /\ Len(syserr(choice)) = Len(Chosen(choice)) + 1
        /\ DOMAIN syserr(choice) = 1..Len(syserr(choice))
        /\ \A i \in 1..Len(syserr(choice)) : IsStep(syserr(choice)[i], Len(syserr(choice)))
    BY SyserrText
  <2>4. Len(syserr(choice)) \in Nat \ {0}
    BY <2>2, <2>3
  <2> QED BY <1>1, <2>1, <2>3, <2>4
<1>2. CASE prog # "syserr"
  <2>1. \/ Text(prog, choice) = cat \/ Text(prog, choice) = ls \/ Text(prog, choice) = grep
        \/ Text(prog, choice) = sigtest \/ Text(prog, choice) = hello
        \/ Text(prog, choice) = counter \/ Text(prog, choice) = testprint
        \/ Text(prog, choice) = pingpong \/ Text(prog, choice) = fish
    BY <1>2 DEF Text, Programs10
  <2>2. IsText(Text(prog, choice))
    BY <2>1, CatText, LsText, GrepText, SigtestText, HelloText, CounterText, TestprintText,
       PingpongText, FishText
  <2> QED BY <1>2, <2>2 DEF IsText
<1> QED BY <1>1, <1>2

-----------------------------------------------------------------------------
(* The inductive invariant.  A process is at a place of its program, and   *)
(* one that runs syserr has the files open that err_open_lots() has opened *)
(* so far, and has counted one failure once it has tried them all.         *)

Opened(j) == IF j < NumFds THEN 2..j ELSE (j - NumFds + 2)..(NumFds - 1)
Failed(j) == IF j < NumFds THEN 0 ELSE 1

Arguments == {c.rest : c \in Commands} \cup {NoArgs, "cut"}

Processes ==
  [prog : Programs10 \cup {"shell"}, choice : 0..9, at : AllPlaces, fail : {0}, cnt : Int,
   buf : Arguments \cup {"not asked"}, rval : Int, open : SUBSET Int, given : Arguments]

ProcessOK(p) ==
  /\ IF p.prog = "shell" THEN p.at \in {At(1), At(2)}
                         ELSE p.at \in PlacesOf(Len(Text(p.prog, p.choice)))
  /\ p.prog = "syserr" /\ "at" \in DOMAIN p.at =>
       /\ p.open = Opened(Lots(p.choice, p.at.at))
       /\ p.cnt = Failed(Lots(p.choice, p.at.at))

Good == {p \in Processes : ProcessOK(p)}

Hows == {"none", "not found", "no process", "normal", "abnormal", "exception",
         "ended by the user"}
Sayings == {"nothing", "no such command", "program terminated by exception",
            "program terminated abnormally"}

\* What the shell has to say of a command that ended so, and what it says of a
\* status.
Right(how) ==
  CASE how \in {"not found", "no process"} -> "no such command"
    [] how = "exception" -> "program terminated by exception"
    [] how = "abnormal" -> "program terminated abnormally"
    [] OTHER -> "nothing"
Told(rval) ==
  IF rval = -1 THEN "no such command"
  ELSE IF rval = 256 THEN "program terminated by exception"
  ELSE IF rval # 0 THEN "program terminated abnormally" ELSE "nothing"

\* The processes s of a terminal, what its shell said and how its command ended:
\* only shells wait for others; a shell that has not yet spoken has a status that
\* tells what it has to say.
TerminalOK(s, sd, en) ==
  /\ s \in Seq(Good) /\ sd \in Sayings /\ en \in Hows
  /\ \A i \in 1..Len(s) : i < Len(s) => s[i].prog = "shell"
  /\ s = <<>> => sd = "nothing" /\ en = "none"
  /\ s # <<>> /\ s[Len(s)].prog = "shell" =>
       IF s[Len(s)].at = At(1) THEN sd = Right(en) ELSE Told(s[Len(s)].rval) = Right(en)

Inv ==
  /\ stack \in [Used -> Seq(Good)] /\ said \in [Used -> Sayings] /\ ended \in [Used -> Hows]
  /\ args \in Arguments
  /\ started \subseteq Used /\ terminal_curr \in started
  /\ \A t \in Used : /\ TerminalOK(stack[t], said[t], ended[t])
                     /\ t \notin started => stack[t] = <<>>

(* The natural numbers are well ordered.                                   *)
LEMMA LeastNat ==
  ASSUME NEW S, S \subseteq Nat, S # {}
  PROVE  \E k \in S : \A j \in S : k <= j
<1> DEFINE R == OpToRel(<, Nat)
<1>1. PICK k \in S : \A j \in S : ~ (<<j, k>> \in R)
  BY NatLessThanWellFounded, WFMin
<1>2. \A j \in S : ~ (j < k)
  BY <1>1 DEF OpToRel
<1> QED BY <1>2

LEMMA LowestIs ==
  ASSUME NEW S, S \subseteq Nat, S # {}
  PROVE  Lowest(S) \in S /\ \A j \in S : Lowest(S) <= j
<1>1. \E k \in S : \A j \in S : k <= j
  BY LeastNat
<1> QED BY <1>1 DEF Lowest

(* Every call returns -1, 0 or more; open() only succeeds when a           *)
(* descriptor is free.                                                     *)
LEMMA ResultsAre ==
  ASSUME NEW p, NEW call, NEW on, NEW r \in Results(p, call, on)
  PROVE  /\ r \in {-1, 0, 1}
         /\ call = "open" /\ r # -1 => FreeFds(p) # {}
BY DEF Results

(* What a call leaves: at most the arguments and the open descriptors are  *)
(* other than before.                                                      *)
LEMMA AfterCallIs ==
  ASSUME NEW p \in Processes, args \in Arguments, NEW call, NEW on, NEW r \in Results(p, call, on)
  PROVE  LET q == AfterCall(p, call, on, r)
         IN  /\ q \in Processes
             /\ q.prog = p.prog /\ q.choice = p.choice /\ q.at = p.at /\ q.fail = p.fail
             /\ q.cnt = p.cnt
             /\ call = "open" /\ r # -1 =>
                  q.open = p.open \cup {Lowest(FreeFds(p))}
             /\ call = "close" /\ r # -1 => q.open = p.open \ {on}
             /\ call \notin {"open", "close"} \/ r = -1 => q.open = p.open
<1> DEFINE q == AfterCall(p, call, on, r)
<1>1. CASE call = "getargs"
  <2> DEFINE b == IF r = -1 THEN NoArgs ELSE args
  <2>1. b \in Arguments \cup {"not asked"}
    BY DEF Arguments
  <2>2. q = [p EXCEPT !.buf = b]
    BY <1>1 DEF AfterCall
  <2> HIDE DEF b, q
  <2>3. q \in Processes /\ q.prog = p.prog /\ q.choice = p.choice /\ q.at = p.at
        /\ q.fail = p.fail /\ q.cnt = p.cnt /\ q.open = p.open
    BY <2>1, <2>2 DEF Processes
  <2> QED BY <1>1, <2>3 DEF q
<1>2. CASE call = "open" /\ r # -1
  <2> DEFINE o == p.open \cup {Lowest(FreeFds(p))}
  <2>1. o \in SUBSET Int
    <3>1. FreeFds(p) # {} /\ FreeFds(p) \subseteq Nat
      BY <1>2, ResultsAre, ProgramsAssumption DEF FreeFds, Fds
    <3>2. Lowest(FreeFds(p)) \in Nat
      BY <3>1, LowestIs
    <3>3. p.open \in SUBSET Int
      BY DEF Processes
    <3> QED BY <3>2, <3>3
  <2>2. q = [p EXCEPT !.open = o]
    BY <1>2 DEF AfterCall
  <2> HIDE DEF q
  <2>3. o = p.open \cup {Lowest(FreeFds(p))}
    OBVIOUS
  <2> HIDE DEF o
  <2>4. q \in Processes /\ q.prog = p.prog /\ q.choice = p.choice /\ q.at = p.at
        /\ q.fail = p.fail /\ q.cnt = p.cnt /\ q.open = o
    BY <2>1, <2>2 DEF Processes
  <2> QED BY <1>2, <2>3, <2>4 DEF q
<1>3. CASE call = "close" /\ r # -1
  <2> DEFINE o == p.open \ {on}
  <2>1. o \in SUBSET Int
    <3>1. p.open \in SUBSET Int
      BY DEF Processes
    <3> QED BY <3>1
  <2>2. q = [p EXCEPT !.open = o]
    BY <1>3 DEF AfterCall
  <2> HIDE DEF q
  <2>3. o = p.open \ {on}
    OBVIOUS
  <2> HIDE DEF o
  <2>4. q \in Processes /\ q.prog = p.prog /\ q.choice = p.choice /\ q.at = p.at
        /\ q.fail = p.fail /\ q.cnt = p.cnt /\ q.open = o
    BY <2>1, <2>2 DEF Processes
  <2> QED BY <1>3, <2>3, <2>4 DEF q
<1>4. CASE call # "getargs" /\ ~(call = "open" /\ r # -1) /\ ~(call = "close" /\ r # -1)
  <2>1. q = p
    BY <1>4 DEF AfterCall
  <2> QED BY <1>4, <2>1
<1> QED BY <1>1, <1>2, <1>3, <1>4

(* A call that must fail fails when no file is open.                       *)
LEMMA MustFailFails ==
  ASSUME NEW p, p.open = {}, NEW e, MustFail(e)
  PROVE  Results(p, e.call, e.on) = {-1}
<1>1. CASE e.call = "read" /\ (~MayRead(e.on) \/ e.on \notin {0, 1})
  BY <1>1 DEF Results, IsOpen
<1>2. CASE e.call = "write" /\ (~MayWrite(e.on) \/ e.on \notin {0, 1})
  BY <1>2 DEF Results, IsOpen
<1>3. CASE e.call = "close" /\ (~MayClose(e.on) \/ e.on \notin {0, 1})
  BY <1>3 DEF Results, IsOpen
<1>4. CASE e.call = "open" /\ e.on \in {"helloo", "shel", ""}
  <2>1. e.on \notin Directory \cup Executables /\ e.on # "argument" /\ e.on # "entry"
    BY <1>4, ImageAssumption
  <2>2. ~Found(p, e.on)
    BY <2>1 DEF Found
  <2> QED BY <1>4, <2>2 DEF Results
<1>5. CASE e.call = "vidmap" /\ e.on # "user"
  BY <1>5 DEF Results
<1>6. CASE e.call = "number" /\ e.on \notin 1..10
  BY <1>6 DEF Results
<1> QED BY <1>1, <1>2, <1>3, <1>4, <1>5, <1>6 DEF MustFail

(* How a call of a test changes what is open and what is counted.          *)
LEMMA TestStep ==
  ASSUME NEW p \in Processes, args \in Arguments, NEW c \in 0..9, NEW i \in 1..Len(Chosen(c)),
         p.open = Opened(Lots(c, i + 1)), p.cnt = Failed(Lots(c, i + 1)),
         NEW r \in Results(p, Chosen(c)[i].call, Chosen(c)[i].on)
  PROVE  LET e == Chosen(c)[i]
             q == Judged(AfterCall(p, e.call, e.on, r), e.wants, r)
         IN  /\ q \in Processes /\ q.prog = p.prog /\ q.choice = p.choice
             /\ q.open = Opened(Lots(c, i + 2)) /\ q.cnt = Failed(Lots(c, i + 2))
<1> DEFINE e == Chosen(c)[i]
           a == AfterCall(p, e.call, e.on, r)
           q == Judged(a, e.wants, r)
           j == Lots(c, i + 1)
           j2 == Lots(c, i + 2)
<1>0. NumFds \in Nat /\ NumFds > 2 /\ LotsLength = 2 * NumFds - 2
  BY ProgramsAssumption DEF LotsLength
<1>1. Len(Chosen(c)) \in Nat /\ i \in Nat
  BY ChosenIs
<1>2. /\ a \in Processes /\ a.prog = p.prog /\ a.choice = p.choice /\ a.cnt = p.cnt
      /\ e.call = "open" /\ r # -1 => a.open = p.open \cup {Lowest(FreeFds(p))}
      /\ e.call = "close" /\ r # -1 => a.open = p.open \ {e.on}
      /\ e.call \notin {"open", "close"} \/ r = -1 => a.open = p.open
  BY AfterCallIs
<1>3. j \in Int /\ (j2 = j + 1 \/ (j = 0 /\ j2 = 0))
  BY <1>1 DEF Lots
<1>4. IF j \in 1..LotsLength THEN e = err_open_lots[j] ELSE MustFail(e)
  BY ChosenIs
<1>5. j \in 1..LotsLength => j2 = j + 1
  BY <1>3
<1>6. p.open = Opened(j) /\ p.cnt = Failed(j)
  OBVIOUS
<1>7. r \in Results(p, e.call, e.on)
  OBVIOUS
<1> HIDE DEF e, j, j2
<1>8. CASE j \notin 1..LotsLength
  <2>1. p.open = {} /\ p.open = Opened(j2) /\ p.cnt = Failed(j2)
    <3>1. j <= 0 \/ j > LotsLength
      BY <1>0, <1>3, <1>8
    <3>2. CASE j <= 0
      <4>1. j < NumFds /\ j2 < NumFds /\ 2..j = {} /\ 2..j2 = {}
        BY <1>0, <1>3, <3>2
      <4> QED BY <1>6, <4>1 DEF Opened, Failed
    <3>3. CASE j > LotsLength
      <4>1. j2 = j + 1
        BY <1>0, <1>3, <3>3
      <4>2. /\ ~(j < NumFds) /\ ~(j2 < NumFds)
            /\ (j - NumFds + 2)..(NumFds - 1) = {} /\ (j2 - NumFds + 2)..(NumFds - 1) = {}
        BY <1>0, <1>3, <3>3, <4>1
      <4> QED BY <1>6, <4>2 DEF Opened, Failed
    <3> QED BY <3>1, <3>2, <3>3
  <2>2. r = -1
    <3>1. MustFail(e)
      BY <1>4, <1>8
    <3>2. p.open = {}
      BY <2>1
    <3>3. Results(p, e.call, e.on) = {-1}
      BY <3>1, <3>2, MustFailFails
    <3> QED BY <1>7, <3>3
  <2>3. e.wants = "failure"
    BY <1>4, <1>8 DEF MustFail
  <2> HIDE DEF a
  <2>4. q = a
    BY <2>2, <2>3 DEF Judged
  <2> QED BY <1>2, <2>1, <2>2, <2>4 DEF a, e, j2
<1>9. CASE j \in 1..LotsLength /\ j < NumFds
  <2>1. e.call = "open" /\ e.on = "." /\ e.wants = "count"
    <3>1. e = Tried("open", ".", "count")
      BY <1>4, <1>9, LotsIs
    <3> QED BY <3>1 DEF Tried
  <2>2. p.open = 2..j /\ p.cnt = 0
    BY <1>6, <1>9 DEF Opened, Failed
  <2>3. FreeFds(p) = (j + 1)..(NumFds - 1)
    BY <1>0, <1>3, <1>9, <2>2 DEF FreeFds, Fds
  <2>4. r = IF FreeFds(p) = {} THEN -1 ELSE 1
    <3>1. Found(p, ".")
      BY ImageAssumption DEF Found
    <3>2. Results(p, e.call, e.on) = IF FreeFds(p) = {} THEN {-1} ELSE {1}
      BY <2>1, <3>1 DEF Results
    <3> QED BY <1>7, <3>2
  <2>5. CASE j < NumFds - 1
    <3>1. FreeFds(p) # {} /\ j + 1 \in FreeFds(p) /\ FreeFds(p) \subseteq Nat
      <4>1. j + 1 \in (j + 1)..(NumFds - 1) /\ (j + 1)..(NumFds - 1) \subseteq Nat
        BY <1>0, <1>9, <2>5
      <4> QED BY <2>3, <4>1
    <3>2. Lowest(FreeFds(p)) \in FreeFds(p) /\ Lowest(FreeFds(p)) <= j + 1
      BY <3>1, LowestIs
    <3>3. Lowest(FreeFds(p)) = j + 1
      BY <1>3, <2>3, <3>2
    <3>4. r = 1
      BY <2>4, <3>1
    <3>5. a.open = 2..(j + 1)
      <4>1. a.open = p.open \cup {j + 1}
        BY <1>2, <2>1, <3>3, <3>4
      <4> HIDE DEF a
      <4> QED BY <1>0, <1>3, <1>9, <2>2, <4>1
    <3>6. a.open = Opened(j2) /\ a.cnt = Failed(j2)
      <4> HIDE DEF a
      <4> QED BY <1>0, <1>2, <1>3, <1>5, <1>9, <2>2, <2>5, <3>5 DEF Opened, Failed
    <3> HIDE DEF a
    <3>7. q = a
      BY <2>1, <3>4 DEF Judged
    <3> QED BY <1>2, <3>6, <3>7 DEF a, e, j2
  <2>6. CASE ~(j < NumFds - 1)
    <3>1. j = NumFds - 1 /\ j2 = NumFds /\ FreeFds(p) = {}
      BY <1>0, <1>3, <1>5, <1>9, <2>3, <2>6
    <3>2. r = -1
      BY <2>4, <3>1
    <3>3. a.open = 2..(NumFds - 1) /\ a.cnt = 0
      BY <1>2, <2>2, <3>1, <3>2
    <3> HIDE DEF a
    <3>4. q = [a EXCEPT !.cnt = a.cnt + 1]
      BY <2>1, <3>2 DEF Judged
    <3>5. a.cnt + 1 \in Int /\ a.cnt + 1 = 1
      BY <3>3
    <3>6. q \in Processes /\ q.prog = a.prog /\ q.choice = a.choice /\ q.open = a.open /\ q.cnt = 1
      BY <1>2, <3>4, <3>5 DEF Processes
    <3>7. Opened(j2) = 2..(NumFds - 1) /\ Failed(j2) = 1
      BY <1>0, <3>1 DEF Opened, Failed
    <3> QED BY <1>2, <3>3, <3>6, <3>7 DEF a, e, j2
  <2> QED BY <2>5, <2>6
<1>10. CASE j \in 1..LotsLength /\ j >= NumFds /\ j < LotsLength
  <2>1. e.call = "close" /\ e.on = j - NumFds + 2 /\ e.wants = "any"
    <3>1. e = Tried("close", j - NumFds + 2, "any")
      BY <1>4, <1>10, LotsIs
    <3> QED BY <3>1 DEF Tried
  <2>2. p.open = (j - NumFds + 2)..(NumFds - 1) /\ p.cnt = 1
    BY <1>0, <1>3, <1>6, <1>10 DEF Opened, Failed
  <2>3. e.on \in p.open /\ MayClose(e.on)
    BY <1>0, <1>3, <1>10, <2>1, <2>2 DEF MayClose
  <2>4. r = 0
    <3>1. Results(p, e.call, e.on) = {0}
      BY <2>1, <2>3 DEF Results, IsOpen
    <3> QED BY <1>7, <3>1
  <2>5. a.open = p.open \ {e.on}
    BY <1>2, <2>1, <2>4
  <2> HIDE DEF a
  <2>6. a.open = (j - NumFds + 3)..(NumFds - 1)
    BY <1>0, <1>3, <2>1, <2>2, <2>5
  <2>7. a.open = Opened(j2) /\ a.cnt = Failed(j2)
    <3>1. j2 - NumFds + 2 = j - NumFds + 3 /\ ~(j2 < NumFds)
      BY <1>0, <1>3, <1>5, <1>10
    <3> QED BY <1>2, <2>2, <2>6, <3>1 DEF Opened, Failed
  <2>8. q = a
    BY <2>1 DEF Judged
  <2> QED BY <1>2, <2>7, <2>8 DEF a, e, j2
<1>11. CASE j = LotsLength
  <2>1. e.call = "verdict" /\ e.wants = "one failure"
    <3>1. LotsLength \in 1..LotsLength
      BY <1>0
    <3>2. err_open_lots[LotsLength] = Tried("verdict", 0, "one failure")
      BY <3>1, LotsIs
    <3>3. e = Tried("verdict", 0, "one failure")
      BY <1>4, <1>11, <3>1, <3>2
    <3> QED BY <3>3 DEF Tried
  <2>2. p.open = {} /\ p.cnt = 1 /\ Opened(j2) = {} /\ Failed(j2) = 1
    <3>1. j2 = j + 1
      BY <1>0, <1>3, <1>11
    <3>2. /\ ~(j < NumFds) /\ ~(j2 < NumFds)
          /\ (j - NumFds + 2)..(NumFds - 1) = {} /\ (j2 - NumFds + 2)..(NumFds - 1) = {}
      BY <1>0, <1>11, <3>1
    <3> QED BY <1>6, <3>2 DEF Opened, Failed
  <2>3. a.open = p.open /\ a.cnt = 1
    BY <1>2, <2>1, <2>2
  <2> HIDE DEF a
  <2>4. q = a
    BY <2>1, <2>3 DEF Judged
  <2> QED BY <1>2, <2>2, <2>3, <2>4 DEF a, e, j2
<1> QED BY <1>0, <1>3, <1>8, <1>9, <1>10, <1>11

(* Steps that do not judge do not count or fail.                           *)
LEMMA AnyJudged ==
  ASSUME NEW p, NEW r
  PROVE  Judged(p, "any", r) = p
BY DEF Judged

(* A place of a program is a step, an exit or the outcome.                 *)
LEMMA PlaceIs ==
  ASSUME NEW n \in Nat, NEW place \in PlacesOf(n)
  PROVE  /\ place \in AllPlaces
         /\ "at" \in DOMAIN place => place.at \in 1..n /\ place = At(place.at)
         /\ "at" \notin DOMAIN place /\ place # Outcome => place.exit \in Statuses
<1>1. CASE place \in [at : 1..n]
  <2>1. DOMAIN place = {"at"} /\ place.at \in 1..n /\ place = [at |-> place.at]
    BY <1>1
  <2>2. place \in [at : Nat]
    BY <2>1
  <2> QED BY <2>1, <2>2 DEF AllPlaces, At
<1>2. CASE place \in [exit : Statuses]
  <2>1. DOMAIN place = {"exit"} /\ place.exit \in Statuses
    BY <1>2
  <2> QED BY <1>2, <2>1 DEF AllPlaces
<1>3. CASE place = Outcome
  <2>1. DOMAIN place = {"outcome"}
    BY <1>3 DEF Outcome
  <2> QED BY <1>3, <2>1 DEF AllPlaces
<1> QED BY <1>1, <1>2, <1>3 DEF PlacesOf

LEMMA MinusOne == -1 \in Int
OBVIOUS

LEMMA AtsDiffer == At(1) # At(2)
BY DEF At

LEMMA AtIs ==
  ASSUME NEW k
  PROVE  "at" \in DOMAIN At(k) /\ At(k).at = k
         /\ "at" \notin DOMAIN Exit(k) /\ "at" \notin DOMAIN Outcome
BY DEF At, Exit, Outcome

(* A program whose call has returned is where its text says, and what      *)
(* syserr has open and has counted is what its tests have come to.         *)
LEMMA CallKeeps ==
  ASSUME NEW p \in Good, p.prog # "shell", "at" \in DOMAIN p.at, args \in Arguments,
         NEW s, s = Text(p.prog, p.choice)[p.at.at],
         NEW r \in Results(p, s.call, s.on), NEW there \in s.next[r]
  PROVE  LET q == [Judged(AfterCall(p, s.call, s.on, r), s.wants, r) EXCEPT !.at = there]
         IN  q \in Good /\ q.prog = p.prog
<1> DEFINE a == AfterCall(p, s.call, s.on, r)
           b == Judged(a, s.wants, r)
           q == [b EXCEPT !.at = there]
           text == Text(p.prog, p.choice)
           k == p.at.at
<1>1. p \in Processes /\ p.prog \in Programs10 /\ p.choice \in 0..9 /\ p.at \in PlacesOf(Len(text))
  BY DEF Good, ProcessOK, Processes
<1>2. /\ Len(text) \in Nat \ {0}
      /\ \A i \in 1..Len(text) : IsStep(text[i], Len(text)) /\ (p.prog # "syserr" => text[i].wants = "any")
  BY <1>1, TextIs
<1>3. k \in 1..Len(text) /\ p.at = At(k)
  BY <1>1, <1>2, PlaceIs
<1>4. r \in {-1, 0, 1}
  BY ResultsAre
<1>5. there \in PlacesOf(Len(text)) /\ there \in AllPlaces
  <2>1. s.next \in [{-1, 0, 1} -> SUBSET PlacesOf(Len(text))]
    BY <1>2, <1>3 DEF IsStep
  <2>2. there \in PlacesOf(Len(text))
    BY <1>4, <2>1
  <2> QED BY <1>2, <2>2, PlaceIs
<1>6. /\ a \in Processes /\ a.prog = p.prog /\ a.choice = p.choice /\ a.cnt = p.cnt
      /\ s.call \notin {"open", "close"} => a.open = p.open
  BY <1>1, AfterCallIs
<1>7. /\ b \in Processes /\ b.prog = p.prog /\ b.choice = p.choice
      /\ p.prog = "syserr" /\ "at" \in DOMAIN there =>
           /\ b.open = Opened(Lots(p.choice, there.at))
           /\ b.cnt = Failed(Lots(p.choice, there.at))
  <2>1. CASE p.prog # "syserr"
    <3>1. b = a
      BY <1>2, <1>3, <2>1, AnyJudged
    <3> QED BY <1>6, <2>1, <3>1
  <2>2. CASE p.prog = "syserr"
    <3> DEFINE c == p.choice
    <3>1. text = syserr(c)
      BY <2>2 DEF Text
    <3>2. /\ s.next[r] \subseteq {At(k + 1), Exit(0), Exit(2), Outcome}
          /\ Len(text) = Len(Chosen(c)) + 1
          /\ text[1].call = "read" /\ text[1].on = 0 /\ text[1].wants = "any"
          /\ \A i \in 1..Len(Chosen(c)) :
               /\ text[i + 1].call = Chosen(c)[i].call /\ text[i + 1].on = Chosen(c)[i].on
               /\ text[i + 1].wants = Chosen(c)[i].wants
      BY ZenonT(40), <1>1, <1>3, <1>4, <3>1, SyserrText
    <3>3. "at" \in DOMAIN there => there.at = k + 1
      BY <3>2, AtIs
    <3>4. p.open = Opened(Lots(c, k)) /\ p.cnt = Failed(Lots(c, k))
      BY <2>2 DEF Good, ProcessOK
    <3> HIDE DEF k, text, a, b
    <3>5. CASE k = 1
      <4>1. s.call = "read" /\ s.wants = "any"
        BY <3>2, <3>5 DEF k, text
      <4>2. b = a
        BY <4>1, AnyJudged DEF b
      <4>3. a.open = p.open
        BY <1>6, <4>1
      <4>4. Opened(Lots(c, 1)) = Opened(Lots(c, 2)) /\ Failed(Lots(c, 1)) = Failed(Lots(c, 2))
        <5>1. NumFds > 2 /\ NumFds \in Nat
          BY ProgramsAssumption
        <5>2. Lots(c, 1) \in {-6, 0} /\ Lots(c, 2) \in {-5, 0, 1}
          BY DEF Lots
        <5>3. \A j \in {-6, -5, 0, 1} : j < NumFds /\ 2..j = {}
          BY <5>1
        <5>4. \A j \in {-6, -5, 0, 1} : Opened(j) = {} /\ Failed(j) = 0
          BY <5>3 DEF Opened, Failed
        <5> QED BY <5>2, <5>4
      <4> QED BY <1>6, <3>3, <3>4, <3>5, <4>2, <4>3, <4>4
    <3>6. CASE k # 1
      <4> DEFINE i == k - 1
      <4>1. i \in 1..Len(Chosen(c)) /\ i + 1 = k /\ i + 2 = k + 1
        <5>1. Len(Chosen(c)) \in Nat
          BY <1>1, ChosenIs
        <5> QED BY <1>3, <3>2, <3>6, <5>1
      <4> HIDE DEF i
      <4>2. s.call = Chosen(c)[i].call /\ s.on = Chosen(c)[i].on /\ s.wants = Chosen(c)[i].wants
        BY <3>2, <4>1 DEF k, text
      <4>3. b = Judged(AfterCall(p, Chosen(c)[i].call, Chosen(c)[i].on, r), Chosen(c)[i].wants, r)
            /\ r \in Results(p, Chosen(c)[i].call, Chosen(c)[i].on)
        BY <4>2 DEF a, b
      <4>4. /\ b \in Processes /\ b.prog = p.prog /\ b.choice = p.choice
            /\ b.open = Opened(Lots(c, i + 2)) /\ b.cnt = Failed(Lots(c, i + 2))
        BY <1>1, <3>4, <4>1, <4>3, TestStep
      <4> QED BY <3>3, <4>1, <4>4
    <3> QED BY <3>5, <3>6
  <2> QED BY <2>1, <2>2
<1> HIDE DEF b
<1>8. /\ q \in Processes /\ q.prog = b.prog /\ q.choice = b.choice /\ q.at = there
      /\ q.open = b.open /\ q.cnt = b.cnt
  BY <1>5, <1>7 DEF Processes
<1> HIDE DEF q
<1>9. ProcessOK(q)
  BY <1>5, <1>7, <1>8 DEF ProcessOK
<1> QED BY <1>7, <1>8, <1>9 DEF Good, q, b

-----------------------------------------------------------------------------
(* The steps of the system.  Each changes the processes of one terminal.   *)

(* One terminal changes, and is right afterwards.                          *)
LEMMA OneChanges ==
  ASSUME Inv, NEW t \in Used, NEW s, NEW x, NEW e, TerminalOK(s, x, e),
         stack' = [stack EXCEPT ![t] = s], said' = [said EXCEPT ![t] = x],
         ended' = [ended EXCEPT ![t] = e], args' \in Arguments,
         started' = started \/ started' = started \cup {t}, t \in started',
         terminal_curr' \in started'
  PROVE  Inv'
<1>1. s \in Seq(Good) /\ x \in Sayings /\ e \in Hows
  BY DEF TerminalOK
<1>2. stack' \in [Used -> Seq(Good)] /\ said' \in [Used -> Sayings] /\ ended' \in [Used -> Hows]
  BY <1>1 DEF Inv
<1>3. started' \subseteq Used /\ started \subseteq started'
  BY DEF Inv
<1>4. ASSUME NEW u \in Used
      PROVE TerminalOK(stack'[u], said'[u], ended'[u]) /\ (u \notin started' => stack'[u] = <<>>)
  <2>1. CASE u = t
    <3>1. stack'[u] = s /\ said'[u] = x /\ ended'[u] = e
      BY <2>1 DEF Inv
    <3> QED BY <2>1, <3>1
  <2>2. CASE u # t
    <3>1. stack'[u] = stack[u] /\ said'[u] = said[u] /\ ended'[u] = ended[u]
      BY <2>2 DEF Inv
    <3> QED BY <1>3, <3>1 DEF Inv
  <2> QED BY <2>1, <2>2
<1> QED BY <1>2, <1>3, <1>4 DEF Inv

(* What is unchanged can be written as a change to the same value.         *)
LEMMA NothingSaid ==
  ASSUME Inv, NEW t \in Used
  PROVE  said = [said EXCEPT ![t] = said[t]] /\ ended = [ended EXCEPT ![t] = ended[t]]
BY DEF Inv

(* A fresh process is good; a terminal with a shell alone is.              *)
LEMMA FreshGood ==
  ASSUME NEW prog \in Programs10 \cup {"shell"}, NEW choice \in 0..9, NEW given \in Arguments
  PROVE  LET q == Process(prog, choice, given)
         IN  q \in Good /\ q.prog = prog /\ q.at = At(1)
<1> DEFINE q == Process(prog, choice, given)
<1>1. /\ q.prog = prog /\ q.choice = choice /\ q.at = At(1) /\ q.open = {} /\ q.cnt = 0
      /\ q \in Processes
  <2>1. At(1) \in AllPlaces
    BY DEF At, AllPlaces
  <2> QED BY <2>1 DEF Process, Processes
<1> HIDE DEF q
<1>2. CASE prog = "shell"
  <2>1. ProcessOK(q)
    BY <1>1, <1>2 DEF ProcessOK
  <2> QED BY <1>1, <2>1 DEF Good, q
<1>3. CASE prog # "shell"
  <2>1. Len(Text(prog, choice)) \in Nat \ {0}
    BY <1>3, TextIs
  <2>2. At(1) \in PlacesOf(Len(Text(prog, choice)))
    BY <2>1, PlacesAre
  <2>3. Opened(Lots(choice, 1)) = {} /\ Failed(Lots(choice, 1)) = 0
    <3>1. NumFds > 2 /\ NumFds \in Nat
      BY ProgramsAssumption
    <3>2. Lots(choice, 1) \in {-6, 0}
      BY DEF Lots
    <3>3. \A j \in {-6, 0} : j < NumFds /\ 2..j = {}
      BY <3>1
    <3> QED BY <3>2, <3>3 DEF Opened, Failed
  <2>4. ProcessOK(q)
    BY <1>1, <1>3, <2>2, <2>3, AtIs DEF ProcessOK
  <2> QED BY <1>1, <2>4 DEF Good, q
<1> QED BY <1>2, <1>3

LEMMA ShellAlone == Shell \in Good /\ Shell.prog = "shell" /\ TerminalOK(<<Shell>>, "nothing", "none")
<1>1. Shell \in Good /\ Shell.prog = "shell" /\ Shell.at = At(1)
  BY FreshGood DEF Shell, Arguments
<1>2. <<Shell>> \in Seq(Good) /\ Len(<<Shell>>) = 1 /\ <<Shell>>[1] = Shell /\ <<Shell>> # <<>>
  BY <1>1
<1> QED BY <1>1, <1>2 DEF TerminalOK, Sayings, Hows, Right

(* The process on top is replaced by one that is as it should be.          *)
LEMMA TopReplaced ==
  ASSUME Inv, NEW t \in Used, stack[t] # <<>>, NEW q \in Good, NEW x \in Sayings, NEW e \in Hows,
         q.prog = "shell" => IF q.at = At(1) THEN x = Right(e) ELSE Told(q.rval) = Right(e)
  PROVE  \E s : TerminalOK(s, x, e) /\ StackWith(t, q) = [stack EXCEPT ![t] = s]
<1> DEFINE n == Top(t)
           s == [stack[t] EXCEPT ![n] = q]
<1>1. stack[t] \in Seq(Good) /\ \A i \in 1..Len(stack[t]) : i < Len(stack[t]) => stack[t][i].prog = "shell"
  BY DEF Inv, TerminalOK
<1>2. n \in Nat \ {0} /\ n = Len(stack[t])
  BY <1>1 DEF Top
<1>3. s \in Seq(Good) /\ Len(s) = n /\ s[n] = q /\ \A i \in 1..n : i # n => s[i] = stack[t][i]
  <2> HIDE DEF n
  <2> QED BY <1>1, <1>2
<1>4. StackWith(t, q) = [stack EXCEPT ![t] = s]
  BY DEF StackWith
<1> HIDE DEF n, s
<1>5. s # <<>>
  BY <1>2, <1>3
<1>6. \A i \in 1..Len(s) : i < Len(s) => s[i].prog = "shell"
  BY <1>1, <1>2, <1>3
<1>7. TerminalOK(s, x, e)
  BY <1>2, <1>3, <1>5, <1>6 DEF TerminalOK
<1> QED BY <1>4, <1>7

(* The process on top ends: the shell below gets a status that tells how,  *)
(* or the terminal has a new shell.                                        *)
LEMMA HaltKeeps ==
  ASSUME Inv, NEW t \in Used, NEW status, NEW how \in Hows, HaltTop(t, status, how),
         StatusReturned(status) \in Int, Told(StatusReturned(status)) = Right(how),
         started' = started \/ started' = started \cup {t}, t \in started',
         terminal_curr' \in started'
  PROVE  Inv'
<1>1. stack[t] \in Seq(Good) /\ Top(t) = Len(stack[t]) /\ Top(t) \in Nat
      /\ \A i \in 1..Len(stack[t]) : i < Len(stack[t]) => stack[t][i].prog = "shell"
  BY DEF Inv, TerminalOK, Top
<1>2. CASE Top(t) > 1
  <2> DEFINE n == Top(t) - 1
             p == stack[t][n]
             r == StatusReturned(status)
             q == Resumed(t, status)
             f == SubSeq(stack[t], 1, Top(t) - 2)
             s == Append(f, q)
  <2>1. n \in Nat \ {0} /\ n \in 1..Len(stack[t]) /\ n < Len(stack[t]) /\ Top(t) - 2 = n - 1
    <3>1. \A m \in Nat : m > 1 => /\ m - 1 \in Nat \ {0} /\ m - 1 \in 1..m /\ m - 1 < m
                                  /\ m - 2 = (m - 1) - 1
      OBVIOUS
    <3> QED BY <1>1, <1>2, <3>1
  <2>2. p \in Good /\ p.prog = "shell"
    BY <1>1, <2>1
  <2>3. f \in Seq(Good) /\ Len(f) = n - 1 /\ \A i \in 1..(n - 1) : f[i] = stack[t][i]
    <3> HIDE DEF n
    <3> QED BY <1>1, <2>1
  <2>4. stack' = [stack EXCEPT ![t] = s]
    BY <1>2 DEF HaltTop
  <2>5. said' = said /\ args' = args /\ ended' = [ended EXCEPT ![t] = how]
    BY <1>2 DEF HaltTop
  <2> HIDE DEF n, f
  <2>6. q \in Good /\ q.prog = "shell" /\ q.at = At(2) /\ q.rval = r
    <3>1. At(2) \in AllPlaces
      BY DEF At, AllPlaces
    <3>2. q = [p EXCEPT !.rval = r, !.at = At(2)]
      BY DEF Resumed, n
    <3> HIDE DEF p, r, q
    <3>3. p \in Processes /\ r \in Int
      BY <2>2 DEF Good, r
    <3>4. q \in Processes /\ q.prog = "shell" /\ q.at = At(2) /\ q.rval = r
      BY <2>2, <3>1, <3>2, <3>3 DEF Processes
    <3> QED BY <3>4 DEF Good, ProcessOK
  <2> HIDE DEF q, p, r
  <2>7. s \in Seq(Good) /\ Len(s) = n /\ s[n] = q /\ \A i \in 1..n : i # n => s[i] = stack[t][i]
    <3>1. \A i \in 1..n : i # n => i \in 1..(n - 1)
      BY <2>1
    <3> QED BY <2>1, <2>3, <2>6, <3>1
  <2> HIDE DEF s
  <2>8. \A i \in 1..Len(s) : i < Len(s) => s[i].prog = "shell"
    BY <1>1, <2>1, <2>7
  <2>9. s # <<>>
    BY <2>1, <2>7
  <2>10. At(1) # At(2)
    BY DEF At
  <2>11. TerminalOK(s, said[t], how)
    BY <2>6, <2>7, <2>8, <2>9, <2>10 DEF TerminalOK, Inv, r
  <2> QED BY <2>4, <2>5, <2>11, OneChanges, NothingSaid DEF Inv
<1>3. CASE ~(Top(t) > 1)
  <2>1. /\ stack' = [stack EXCEPT ![t] = <<Shell>>] /\ args' = NoArgs
        /\ ended' = [ended EXCEPT ![t] = "none"] /\ said' = [said EXCEPT ![t] = "nothing"]
    BY <1>3 DEF HaltTop
  <2>2. NoArgs \in Arguments
    BY DEF Arguments
  <2> QED BY <2>1, <2>2, ShellAlone, OneChanges
<1> QED BY <1>2, <1>3

(* The process on top of the terminal that runs changes and nothing else.  *)
LEMMA TopKeeps ==
  ASSUME Inv, stack[terminal_curr] # <<>>, NEW q \in Good, NEW x \in Sayings, NEW e \in Hows,
         q.prog = "shell" => IF q.at = At(1) THEN x = Right(e) ELSE Told(q.rval) = Right(e),
         stack' = StackWith(terminal_curr, q), said' = [said EXCEPT ![terminal_curr] = x],
         ended' = [ended EXCEPT ![terminal_curr] = e], args' \in Arguments,
         UNCHANGED switchVars
  PROVE  Inv'
<1>1. /\ terminal_curr \in Used /\ started' = started /\ terminal_curr \in started'
      /\ terminal_curr' \in started'
  BY DEF Inv, switchVars
<1>2. PICK s : TerminalOK(s, x, e) /\ StackWith(terminal_curr, q) = [stack EXCEPT ![terminal_curr] = s]
  BY <1>1, TopReplaced
<1> QED BY <1>1, <1>2, OneChanges

(* The program on top of the terminal that runs.                           *)
LEMMA MeIs ==
  ASSUME Inv, stack[terminal_curr] # <<>>
  PROVE  /\ terminal_curr \in Used /\ terminal_curr \in started
         /\ Me \in Good /\ Me = stack[terminal_curr][Len(stack[terminal_curr])]
         /\ stack[terminal_curr] \in Seq(Good) /\ said[terminal_curr] \in Sayings
         /\ ended[terminal_curr] \in Hows
         /\ Me.prog = "shell" =>
              IF Me.at = At(1) THEN said[terminal_curr] = Right(ended[terminal_curr])
              ELSE Told(Me.rval) = Right(ended[terminal_curr])
<1>1. terminal_curr \in Used /\ terminal_curr \in started
  BY DEF Inv
<1>2. TerminalOK(stack[terminal_curr], said[terminal_curr], ended[terminal_curr])
  BY <1>1 DEF Inv
<1>3. Me = stack[terminal_curr][Len(stack[terminal_curr])]
  BY DEF Me, Top
<1>4. Me \in Good
  BY <1>2, <1>3 DEF TerminalOK
<1> QED BY <1>1, <1>2, <1>3, <1>4 DEF TerminalOK

LEMMA HaltSelfKeeps ==
  ASSUME Inv, NEW status, NEW how \in Hows, HaltSelf(status, how),
         StatusReturned(status) \in Int, Told(StatusReturned(status)) = Right(how)
  PROVE  Inv'
<1>1. /\ terminal_curr \in Used /\ started' = started /\ terminal_curr \in started'
      /\ terminal_curr' \in started' /\ HaltTop(terminal_curr, status, how)
  BY DEF HaltSelf, Inv, switchVars
<1> QED BY <1>1, HaltKeeps

(* A status of 0 and one that is not, and that of an exception.            *)
LEMMA StatusTells ==
  /\ StatusReturned(0) \in Int /\ Told(StatusReturned(0)) = "nothing"
  /\ \A s \in {2, 3, -1} : /\ StatusReturned(s) \in Int
                           /\ Told(StatusReturned(s)) = "program terminated abnormally"
  /\ StatusReturned(256) \in Int
  /\ Told(StatusReturned(256)) = "program terminated by exception"
<1>1. 0 % 256 = 0 /\ 2 % 256 = 2 /\ 3 % 256 = 3 /\ (-1) % 256 = 255
  <2>1. \A a \in 0..255 : a % 256 = a
    OBVIOUS
  <2>2. \A a \in Int : a % 256 \in 0..255 /\ a \div 256 \in Int
                        /\ a = 256 * (a \div 256) + (a % 256)
    OBVIOUS
  <2>3. \A d \in Int, m \in 0..255 : -1 = 256 * d + m => m = 255
    OBVIOUS
  <2>4. ASSUME NEW a \in Int, a = -1 PROVE a % 256 = 255
    <3> DEFINE d == a \div 256
               m == a % 256
    <3>1. m \in 0..255 /\ d \in Int /\ a = 256 * d + m
      BY <2>2
    <3> HIDE DEF d, m
    <3>2. -1 = 256 * d + m
      BY <2>4, <3>1
    <3>3. m = 255
      BY <2>3, <3>1, <3>2
    <3> QED BY <3>3 DEF m
  <2>5. \A a \in Int : a = -1 => a % 256 = 255
    BY <2>4
  <2>6. -1 \in Int
    OBVIOUS
  <2>7. (-1) % 256 = 255
    BY ONLY <2>5, <2>6
  <2> QED BY <2>1, <2>7
<1>2. StatusReturned(0) = 0 /\ StatusReturned(2) = 2 /\ StatusReturned(3) = 3
      /\ StatusReturned(-1) = 255 /\ StatusReturned(256) = 256
  BY <1>1 DEF StatusReturned
<1> QED BY <1>2 DEF Told

LEMMA InitInv == Init => Inv
<1> SUFFICES ASSUME Init PROVE Inv
  OBVIOUS
<1>1. Used \subseteq Terminals /\ 1 \in Used /\ started = {1} /\ terminal_curr = 1
  BY ProgramsAssumption DEF Init, SwitchInit
<1>2. <<Shell>> \in Seq(Good) /\ <<>> \in Seq(Good)
  BY ShellAlone
<1>3. /\ stack = [t \in Used |-> IF t = 1 THEN <<Shell>> ELSE <<>>]
      /\ said = [t \in Used |-> "nothing"] /\ ended = [t \in Used |-> "none"] /\ args = NoArgs
  BY DEF Init
<1>4. /\ stack \in [Used -> Seq(Good)] /\ said \in [Used -> Sayings] /\ ended \in [Used -> Hows]
      /\ args \in Arguments
  BY <1>2, <1>3 DEF Sayings, Hows, Arguments
<1>5. TerminalOK(<<>>, "nothing", "none")
  <2>1. Len(<<>>) = 0 /\ 1..0 = {}
    OBVIOUS
  <2> QED BY <1>2, <2>1 DEF TerminalOK, Sayings, Hows
<1>6. ASSUME NEW t \in Used
      PROVE TerminalOK(stack[t], said[t], ended[t]) /\ (t \notin started => stack[t] = <<>>)
  BY <1>1, <1>3, <1>5, ShellAlone
<1> QED BY <1>1, <1>4, <1>6 DEF Inv

LEMMA NextInv == Inv /\ [Next]_vars => Inv'
<1> SUFFICES ASSUME Inv, [Next]_vars PROVE Inv'
  OBVIOUS
<1> DEFINE t == terminal_curr
<1>1. CASE UNCHANGED vars
  BY <1>1 DEF vars, progVars, switchVars, Inv
<1>2. ASSUME NEW c \in Commands, NEW how \in {"no process", "not found"}, AtPrompt, Refused(how),
             args' \in Arguments
      PROVE Inv'
  <2> DEFINE q == [Me EXCEPT !.rval = -1, !.at = At(2)]
  <2>1. stack[t] # <<>> /\ Me.prog = "shell"
    BY <1>2 DEF AtPrompt
  <2>2. Me \in Good /\ t \in Used /\ said[t] \in Sayings
    BY <2>1, MeIs
  <2>3. q \in Good /\ q.prog = "shell" /\ q.rval = -1 /\ q.at = At(2)
    <3>1. At(2) \in AllPlaces
      BY DEF At, AllPlaces
    <3>2. Me \in Processes
      <4> HIDE DEF q
      <4> QED BY <2>2 DEF Good
    <3>3. -1 \in Int
      BY MinusOne
    <3>4. q \in Processes
      BY <3>1, <3>2, <3>3 DEF Processes
    <3>5. q.prog = "shell" /\ q.rval = -1 /\ q.at = At(2)
      BY <2>1, <3>2 DEF Processes
    <3> HIDE DEF q
    <3> QED BY <3>4, <3>5 DEF Good, ProcessOK
  <2>4. /\ stack' = StackWith(t, q) /\ ended' = [ended EXCEPT ![t] = how]
        /\ said' = said /\ UNCHANGED switchVars
    BY <1>2 DEF Refused
  <2>5. said' = [said EXCEPT ![t] = said[t]]
    BY <2>2, <2>4, NothingSaid
  <2> HIDE DEF q
  <2>6. Told(q.rval) = Right(how) /\ how \in Hows
    <3>1. Right(how) = "no such command" /\ how \in Hows
      BY <1>2 DEF Right, Hows
    <3> QED BY <2>3, <3>1 DEF Told
  <2>7. q.at # At(1)
    BY <2>3, AtsDiffer
  <2> QED BY <1>2, <2>1, <2>2, <2>3, <2>4, <2>5, <2>6, <2>7, TopKeeps
<1>3. ASSUME NEW c \in Commands, ExecuteNothing(c) PROVE Inv'
  <2>1. args' \in Arguments /\ AtPrompt
    BY <1>3 DEF ExecuteNothing, Inv
  <2>2. Refused("no process") \/ Refused("not found")
    BY <1>3 DEF ExecuteNothing
  <2> QED BY <1>2, <2>1, <2>2
<1>4. ASSUME NEW c \in Commands, ExecuteUnknown(c) PROVE Inv'
  <2>1. args' \in Arguments /\ AtPrompt /\ Refused("not found")
    BY <1>4 DEF ExecuteUnknown, Rest, Arguments
  <2> QED BY <1>2, <2>1
<1>5. ASSUME NEW c \in Commands, Execute(c) PROVE Inv'
  <2>1. PICK choice \in TestChoices(Name(c)) :
          stack' = [stack EXCEPT ![t] = Append(@, Process(Name(c), choice, c.rest))]
    BY <1>5 DEF Execute
  <2> DEFINE q == Process(Name(c), choice, c.rest)
             s == Append(stack[t], q)
  <2>2. /\ stack[t] # <<>> /\ Me.prog = "shell" /\ Me.at = At(1) /\ Name(c) \in Executables
        /\ args' \in Arguments /\ said' = said /\ ended' = ended /\ UNCHANGED switchVars
    BY <1>5 DEF Execute, AtPrompt, Rest, Arguments
  <2>3. choice \in 0..9 /\ Name(c) \in Programs10 \cup {"shell"} /\ c.rest \in Arguments
    <3>1. c.rest \in Arguments
      BY <1>5 DEF Arguments
    <3>2. Name(c) \in Programs10 \cup {"shell"}
      BY <2>2, ProgramsAssumption DEF Programs10
    <3>3. choice \in 0..9
      <4>1. TestChoices(Name(c)) \subseteq 0..9
        BY DEF TestChoices
      <4> QED BY <2>1, <4>1
    <3> QED BY <3>1, <3>2, <3>3
  <2>4. q \in Good /\ q.prog = Name(c) /\ q.at = At(1)
    BY <2>3, FreshGood
  <2>5. /\ t \in Used /\ t \in started /\ stack[t] \in Seq(Good) /\ Me = stack[t][Len(stack[t])]
        /\ said[t] \in Sayings /\ ended[t] \in Hows /\ said[t] = Right(ended[t])
    BY <2>2, MeIs
  <2> HIDE DEF q
  <2>6. /\ s \in Seq(Good) /\ Len(s) = Len(stack[t]) + 1 /\ s[Len(s)] = q /\ s # <<>>
        /\ \A i \in 1..Len(stack[t]) : s[i] = stack[t][i]
    BY <2>4, <2>5
  <2>7. \A i \in 1..Len(s) : i < Len(s) => s[i].prog = "shell"
    <3>1. \A i \in 1..Len(stack[t]) : stack[t][i].prog = "shell"
      <4>1. \A i \in 1..Len(stack[t]) : i < Len(stack[t]) => stack[t][i].prog = "shell"
        BY <2>5 DEF Inv, TerminalOK
      <4> QED BY <2>2, <2>5, <4>1
    <3>2. \A i \in 1..Len(s) : i < Len(s) => i \in 1..Len(stack[t])
      BY <2>5, <2>6
    <3> QED BY <2>6, <3>1, <3>2
  <2>8. stack' = [stack EXCEPT ![t] = s]
    BY <2>1 DEF q
  <2> HIDE DEF s
  <2>9. TerminalOK(s, said[t], ended[t])
    BY <2>4, <2>5, <2>6, <2>7 DEF TerminalOK
  <2>10. /\ said' = [said EXCEPT ![t] = said[t]] /\ ended' = [ended EXCEPT ![t] = ended[t]]
         /\ started' = started /\ terminal_curr' \in started'
    BY <2>2, <2>5, NothingSaid DEF switchVars
  <2>11. t \in started' /\ args' \in Arguments
    BY <2>2, <2>5, <2>10
  <2> QED BY <2>5, <2>8, <2>9, <2>10, <2>11, OneChanges
<1>6. CASE ShellExit
  BY <1>6, HaltSelfKeeps, StatusTells DEF ShellExit, Hows, Right
<1>7. CASE ShellReports
  <2> DEFINE q == [Me EXCEPT !.at = At(1)]
  <2>1. /\ stack[t] # <<>> /\ Me.prog = "shell" /\ Me.at = At(2)
        /\ said' = [said EXCEPT ![t] = Told(Me.rval)] /\ stack' = StackWith(t, q)
        /\ args' = args /\ ended' = ended /\ UNCHANGED switchVars
    BY <1>7 DEF ShellReports, Told
  <2>2. Me \in Good /\ t \in Used /\ ended[t] \in Hows /\ Told(Me.rval) = Right(ended[t])
    BY <2>1, MeIs DEF At
  <2>3. q \in Good /\ q.prog = "shell" /\ q.at = At(1)
    <3>1. At(1) \in AllPlaces
      BY DEF At, AllPlaces
    <3>2. q \in Processes /\ q.prog = "shell" /\ q.at = At(1)
      BY <2>1, <2>2, <3>1 DEF Good, Processes
    <3> HIDE DEF q
    <3> QED BY <3>2 DEF Good, ProcessOK
  <2> HIDE DEF q
  <2>4. ended' = [ended EXCEPT ![t] = ended[t]] /\ args' \in Arguments
    BY <2>1, <2>2, NothingSaid DEF Inv
  <2>5. Told(Me.rval) \in Sayings
    BY DEF Told, Sayings
  <2> QED BY <2>1, <2>2, <2>3, <2>4, <2>5, TopKeeps
<1>8. CASE Call
  <2> DEFINE s == Text(Me.prog, Me.choice)[Me.at.at]
  <2>1. /\ stack[t] # <<>> /\ Me.prog # "shell" /\ "at" \in DOMAIN Me.at
        /\ args' = args /\ said' = said /\ ended' = ended /\ UNCHANGED switchVars
    BY <1>8 DEF Call, InProgram
  <2>2. PICK r \in Results(Me, s.call, s.on) : \E there \in s.next[r] :
          stack' = StackWith(t, [Judged(AfterCall(Me, s.call, s.on, r), s.wants, r) EXCEPT !.at = there])
    BY <1>8 DEF Call
  <2>3. PICK there \in s.next[r] :
          stack' = StackWith(t, [Judged(AfterCall(Me, s.call, s.on, r), s.wants, r) EXCEPT !.at = there])
    BY <2>2
  <2> DEFINE q == [Judged(AfterCall(Me, s.call, s.on, r), s.wants, r) EXCEPT !.at = there]
  <2>4. Me \in Good /\ t \in Used /\ said[t] \in Sayings /\ ended[t] \in Hows
    BY <2>1, MeIs
  <2>5. q \in Good /\ q.prog = Me.prog
    <3>1. args \in Arguments
      BY DEF Inv
    <3> HIDE DEF s
    <3>2. s = Text(Me.prog, Me.choice)[Me.at.at]
      BY DEF s
    <3>3. r \in Results(Me, s.call, s.on) /\ there \in s.next[r]
      BY <2>2, <2>3
    <3> HIDE DEF q
    <3>5. Me \in Good /\ Me.prog # "shell" /\ "at" \in DOMAIN Me.at
      BY <2>1, <2>4
    <3> DEFINE p == Me
    <3> HIDE DEF p
    <3>6. p = Me
      BY DEF p
    <3>7. p \in Good /\ p.prog # "shell" /\ "at" \in DOMAIN p.at
      BY <3>5, <3>6
    <3> DEFINE After(pp, ss, rr, th) ==
                 [Judged(AfterCall(pp, ss.call, ss.on, rr), ss.wants, rr) EXCEPT !.at = th]
    <3>8. \A pp \in Good : pp.prog # "shell" /\ "at" \in DOMAIN pp.at =>
            \A ss : ss = Text(pp.prog, pp.choice)[pp.at.at] =>
              \A rr \in Results(pp, ss.call, ss.on) : \A th \in ss.next[rr] :
                After(pp, ss, rr, th) \in Good /\ After(pp, ss, rr, th).prog = pp.prog
      BY <3>1, CallKeeps
    <3>9. s = Text(p.prog, p.choice)[p.at.at] /\ r \in Results(p, s.call, s.on) /\ there \in s.next[r]
      BY <3>2, <3>3, <3>6
    <3>10. q = After(p, s, r, there)
      BY <3>6 DEF q
    <3> HIDE DEF After
    <3>11. After(p, s, r, there) \in Good /\ After(p, s, r, there).prog = p.prog
      BY <3>7, <3>8, <3>9
    <3> QED BY <3>6, <3>10, <3>11
  <2>6. stack' = StackWith(t, q)
    BY <2>3
  <2> HIDE DEF q, s
  <2>7. /\ said' = [said EXCEPT ![t] = said[t]] /\ ended' = [ended EXCEPT ![t] = ended[t]]
        /\ args' \in Arguments
    BY <2>1, <2>4, NothingSaid DEF Inv
  <2> QED BY <2>1, <2>4, <2>5, <2>6, <2>7, TopKeeps
<1>9. CASE Return
  <2> DEFINE status == IF Me.at = Outcome THEN Me.fail ELSE Me.at.exit
             how == IF status = 0 THEN "normal" ELSE "abnormal"
  <2>1. stack[t] # <<>> /\ Me.prog # "shell" /\ "at" \notin DOMAIN Me.at /\ HaltSelf(status, how)
    BY <1>9 DEF Return, InProgram
  <2>2. Me \in Good
    BY <2>1, MeIs
  <2>3. Me.fail = 0 /\ Me.prog \in Programs10 /\ Me.choice \in 0..9
        /\ Me.at \in PlacesOf(Len(Text(Me.prog, Me.choice)))
    BY <2>1, <2>2 DEF Good, Processes, ProcessOK
  <2>4. status \in Statuses
    <3>1. Len(Text(Me.prog, Me.choice)) \in Nat
      BY <2>3, TextIs
    <3>2. Me.at # Outcome => Me.at.exit \in Statuses
      BY <2>1, <2>3, <3>1, PlaceIs
    <3> QED BY <2>3, <3>2 DEF Statuses
  <2> HIDE DEF status
  <2>5. StatusReturned(status) \in Int /\ Told(StatusReturned(status)) = Right(how) /\ how \in Hows
    <3>1. CASE status = 0
      BY <3>1, StatusTells DEF Right, Hows
    <3>2. CASE status # 0
      <4>1. status \in {2, 3, -1}
        BY <2>4, <3>2 DEF Statuses
      <4> QED BY ZenonT(40), <3>2, <4>1, StatusTells DEF Right, Hows
    <3> QED BY <3>1, <3>2
  <2> QED BY <2>1, <2>5, HaltSelfKeeps
<1>10. CASE Fault
  BY ZenonT(40), <1>10, HaltSelfKeeps, StatusTells DEF Fault, Hows, Right
<1>11. CASE KeyCtrlC
  <2>1. CASE terminal_curr = terminal_on_display_curr
    BY <1>11, <2>1, HaltSelfKeeps, StatusTells DEF KeyCtrlC, Hows, Right
  <2>2. CASE terminal_curr # terminal_on_display_curr
    BY <1>11, <2>2 DEF KeyCtrlC, switchVars, Inv
  <2> QED BY <2>1, <2>2
<1>12. ASSUME NEW n \in Used, PitCreate(n) PROVE Inv'
  <2>1. /\ stack' = [stack EXCEPT ![n] = <<Shell>>] /\ args' = NoArgs /\ said' = said
        /\ ended' = ended /\ started' = started \cup {n} /\ terminal_curr' = n /\ n \notin started
    BY <1>12 DEF PitCreate, GoTo
  <2>2. said[n] = "nothing" /\ ended[n] = "none"
    BY <2>1 DEF Inv, TerminalOK
  <2>3. said' = [said EXCEPT ![n] = "nothing"] /\ ended' = [ended EXCEPT ![n] = "none"]
    BY <2>1, <2>2, NothingSaid
  <2>4. args' \in Arguments
    BY <2>1 DEF Arguments
  <2> QED BY ZenonT(40), <2>1, <2>3, <2>4, ShellAlone, OneChanges
<1>13. ASSUME NEW n \in Used, PitSwitch(n) PROVE Inv'
  <2>1. /\ started' = started /\ terminal_curr' \in started' /\ UNCHANGED progVars
    BY <1>13 DEF PitSwitch, GoTo
  <2> QED BY <2>1 DEF Inv, progVars
<1>14. ASSUME NEW n \in Used, PitSwitchAndHalt(n) PROVE Inv'
  <2>1. /\ started' = started \cup {n} /\ terminal_curr' = n /\ HaltTop(n, 0, "ended by the user")
    BY <1>14 DEF PitSwitchAndHalt, GoTo
  <2> QED BY <2>1, HaltKeeps, StatusTells DEF Hows, Right
<1>15. ASSUME NEW n \in Used, PitRefuse(n) \/ KeyRequest(n) PROVE Inv'
  BY <1>15 DEF PitRefuse, KeyRequest, Refuse, Request, progVars, Inv
<1> QED
  BY <1>1, <1>3, <1>4, <1>5, <1>6, <1>7, <1>8, <1>9, <1>10, <1>11, <1>12, <1>13, <1>14, <1>15
     DEF Next

(* Programs are at places of their texts, shells that wait have a status   *)
(* that tells, and syserr has open what its tests have come to: for any    *)
(* commands, any files and any number of processes and descriptors.        *)
THEOREM InvCorrect == Spec => []Inv
BY InitInv, NextInv, PTL DEF Spec

(* What the shell says of a command tells how it ended, whoever ended it   *)
(* and whatever other terminals did meanwhile (halt(), and the shell).     *)
THEOREM ReportsCorrect == Spec => []ReportsRight
<1>1. Inv => ReportsRight
  <2> SUFFICES ASSUME Inv, NEW t \in Used, Top(t) > 0, stack[t][Top(t)].prog = "shell",
                      stack[t][Top(t)].at = At(1)
               PROVE said[t] = Right(ended[t])
    BY DEF ReportsRight, Right
  <2>1. stack[t] # <<>> /\ Top(t) = Len(stack[t])
    BY DEF Top
  <2> QED BY <2>1 DEF Inv, TerminalOK
<1> QED BY <1>1, InvCorrect, PTL

(* All tests of syserr pass, in any choice and on several terminals at the *)
(* same time, for a process with any number of descriptors.                *)
THEOREM SysErrCorrect == Spec => []SysErrPasses
<1>1. Inv => SysErrPasses
  <2> SUFFICES ASSUME Inv, NEW t \in Used, NEW i \in 1..Top(t) PROVE stack[t][i].fail = 0
    BY DEF SysErrPasses
  <2>1. stack[t] \in Seq(Good) /\ i \in 1..Len(stack[t])
    BY DEF Inv, Top
  <2>2. stack[t][i] \in Good
    BY <2>1
  <2> QED BY <2>2 DEF Good, Processes
<1> QED BY <1>1, InvCorrect, PTL
=============================================================================
