---------------------------- MODULE BlinkProofs ----------------------------
(***************************************************************************)
(* The slots in use are one list, whatever is added, removed and           *)
(* synchronised, for arrays, screens and lengths of any size; that list is *)
(* one of BlinkerList; and two texts that are read side by side, and fit   *)
(* the screen and the words, become their overlay.  Lemmas on lists are    *)
(* about any array and any head, those about reading about any text: an    *)
(* action is one or two of them.                                           *)
(***************************************************************************)
EXTENDS Blink, FiniteSetTheorems, SequenceTheorems, WellFoundedInduction, TLAPS

Words == 0..(Word - 1)
Pictures == Chars \cup {NUL}

Record == [location : Places, on_char : Pictures, off_char : Pictures, on_length : Words,
           off_length : Words, countdown : Words, status : {0, 1}, next : Slots \cup {NULL}]

\* What a program asks for: its place may be beyond the screen.
Request == [location : Nat \ {0}, on_char : Chars, off_char : Chars,
            on_length : Words, off_length : Words]

Used(array) == {p \in Slots : array[p].location # 0}

\* The list l holds the slots in use.
Holds(array, head, l) == l \in Lists /\ IsList(array, head, l) /\ ToSet(l) = Used(array)

\* What a list looks like without its slots.
Seen(array, l) == [i \in DOMAIN l |-> InSlot(array[l[i]])]

LibType ==
  /\ blink_array \in [Slots -> Record] /\ mp1_list_head \in Slots \cup {NULL}
  /\ screen \in [Places -> Pictures] /\ drawn \in [Places -> Slots \cup {NULL}]

FrameType ==
  /\ text \in [Both -> Seq(Chars)] /\ c \in [Both -> Chars \cup {"0"}]
  /\ pos \in [Both -> Nat] /\ (\A f \in Both : pos[f] <= Len(text[f]))
  /\ row \in Nat /\ col \in Nat

\* Nothing is drawn for a free slot, which has place 0.
LibInv == LibType /\ ListHoldsUsed /\ drawn[0] = NULL /\ DrawnAsMarked

-----------------------------------------------------------------------------
(* Numbers and sequences                                                   *)

(* The natural numbers are well ordered.                                   *)
LEMMA LeastNat ==
  ASSUME NEW S, S \subseteq Nat, S # {}
  PROVE  \E k \in S : \A j \in S : k <= j
<1> DEFINE R == OpToRel(<, Nat)
<1>1. PICK k \in S : \A j \in S : ~ (<<j, k>> \in R)
  BY NatLessThanWellFounded, WFMin
<1>2. \A j \in S : ~ (j < k)
  BY <1>1 DEF OpToRel
<1> QED BY <1>2

(* So a set of them has a minimum, and a bounded one a maximum.            *)
LEMMA MinIs ==
  ASSUME NEW S, S \subseteq Nat, S # {}
  PROVE  Min(S) \in S /\ \A j \in S : Min(S) <= j
BY LeastNat DEF Min

LEMMA MaxIs ==
  ASSUME NEW n \in Nat, NEW S, S \subseteq 1..n, S # {}
  PROVE  Max(S) \in S /\ \A j \in S : j <= Max(S)
<1> DEFINE T == {n - i : i \in S}
<1>1. T \subseteq Nat /\ T # {}
  <2>1. \A i \in S : n - i \in Nat
    OBVIOUS
  <2> QED BY <2>1
<1>2. PICK m \in T : \A j \in T : m <= j
  <2> HIDE DEF T
  <2> QED BY <1>1, LeastNat
<1>3. PICK i \in S : m = n - i
  BY <1>2
<1>4. ASSUME NEW j \in S PROVE i >= j
  <2>1. n - j \in T
    OBVIOUS
  <2> HIDE DEF T
  <2> QED BY <1>2, <1>3, <2>1
<1>5. Max(S) \in S /\ \A j \in S : Max(S) >= j
  BY <1>4 DEF Max
<1> QED BY <1>5

(* A function on 1..n is a sequence of length n.                           *)
LEMMA IsSequence ==
  ASSUME NEW n \in Nat, NEW S, NEW s \in [1..n -> S]
  PROVE  /\ s \in Seq(S) /\ Len(s) = n /\ DOMAIN s = 1..n
         /\ s = <<>> <=> n = 0
<1>1. s \in Seq(S)
  OBVIOUS
<1>2. Len(s) = n
  BY <1>1, LenProperties
<1> QED BY <1>1, <1>2, EmptySeq

Before(x, s) == [i \in 1..(Len(s) + 1) |-> IF i = 1 THEN x ELSE s[i - 1]]
Without(s, i) == [j \in 1..(Len(s) - 1) |-> IF j < i THEN s[j] ELSE s[j + 1]]

(* What <<x>> \o s is.                                                      *)
LEMMA BeforeIs ==
  ASSUME NEW S, NEW s \in Seq(S), NEW x \in S
  PROVE  <<x>> \o s = Before(x, s) /\ Before(x, s) \in Seq(S)
<1>1. <<x>> \in Seq(S) /\ Len(<<x>>) = 1 /\ <<x>>[1] = x
  OBVIOUS
<1>2. /\ <<x>> \o s \in Seq(S) /\ Len(<<x>> \o s) = 1 + Len(s)
      /\ \A i \in 1..(1 + Len(s)) : (<<x>> \o s)[i] = IF i <= 1 THEN <<x>>[i] ELSE s[i - 1]
  BY <1>1, ConcatProperties
<1> DEFINE u == <<x>> \o s
<1> HIDE DEF u
<1>3. Len(s) \in Nat
  BY LenProperties
<1>4. DOMAIN u = 1..(1 + Len(s)) /\ u = [i \in DOMAIN u |-> u[i]]
  BY <1>2, LenProperties DEF u
<1>5. \A i \in 1..(Len(s) + 1) : u[i] = IF i = 1 THEN x ELSE s[i - 1]
  BY <1>1, <1>2, <1>3 DEF u
<1>6. u = [i \in 1..(Len(s) + 1) |-> IF i = 1 THEN x ELSE s[i - 1]]
  BY <1>3, <1>4, <1>5
<1> QED BY <1>2, <1>6 DEF Before, u

(* What RemoveAt is.                                                       *)
LEMMA WithoutIs ==
  ASSUME NEW S, NEW s \in Seq(S), NEW i \in 1..Len(s)
  PROVE  RemoveAt(s, i) = Without(s, i) /\ Without(s, i) \in Seq(S)
<1> DEFINE n == Len(s)
           a == SubSeq(s, 1, i - 1)
           b == SubSeq(s, i + 1, n)
           u == a \o b
<1>1. n \in Nat /\ s \in [1..n -> S]
  BY LenProperties
<1>2. a \in Seq(S) /\ Len(a) = i - 1 /\ \A j \in 1..(i - 1) : a[j] = s[j]
  <2>1. 1 \in Int /\ i - 1 \in Int /\ \A j \in 1..(i - 1) : s[j] \in S
    BY <1>1
  <2>2. /\ a \in Seq(S) /\ Len(a) = IF 1 <= i - 1 THEN (i - 1) - 1 + 1 ELSE 0
        /\ \A j \in 1..((i - 1) - 1 + 1) : a[j] = s[1 + j - 1]
    BY <2>1, SubSeqProperties
  <2> HIDE DEF a
  <2>3. (i - 1) - 1 + 1 = i - 1 /\ \A j \in 1..(i - 1) : 1 + j - 1 = j
    OBVIOUS
  <2> QED BY <2>2, <2>3
<1>3. b \in Seq(S) /\ Len(b) = n - i /\ \A j \in 1..(n - i) : b[j] = s[i + j]
  <2>1. i + 1 \in Int /\ n \in Int /\ \A j \in (i + 1)..n : s[j] \in S
    BY <1>1
  <2>2. /\ b \in Seq(S) /\ Len(b) = IF i + 1 <= n THEN n - (i + 1) + 1 ELSE 0
        /\ \A j \in 1..(n - (i + 1) + 1) : b[j] = s[(i + 1) + j - 1]
    BY <2>1, SubSeqProperties
  <2> HIDE DEF b
  <2>3. n - (i + 1) + 1 = n - i /\ \A j \in 1..(n - i) : (i + 1) + j - 1 = i + j
    BY <1>1
  <2>4. Len(b) = n - i
    <3>1. n \in Nat /\ i \in 1..n /\ Len(b) = IF i + 1 <= n THEN n - (i + 1) + 1 ELSE 0
      BY <1>1, <2>2
    <3> HIDE DEF n
    <3>2. CASE i = n
      BY <3>1, <3>2
    <3>3. CASE i # n
      BY <3>1, <3>3
    <3> QED BY <3>2, <3>3
  <2>5. \A j \in 1..(n - i) : b[j] = s[(i + 1) + j - 1]
    BY <2>2, <2>3
  <2> QED BY <2>2, <2>3, <2>4, <2>5
<1> HIDE DEF a, b
<1>4. /\ u \in Seq(S) /\ Len(u) = n - 1
      /\ \A j \in 1..(n - 1) : u[j] = IF j <= i - 1 THEN a[j] ELSE b[j - (i - 1)]
  <2>1. /\ u \in Seq(S) /\ Len(u) = Len(a) + Len(b)
        /\ \A j \in 1..(Len(a) + Len(b)) : u[j] = IF j <= Len(a) THEN a[j] ELSE b[j - Len(a)]
    BY <1>2, <1>3, ConcatProperties
  <2> HIDE DEF u
  <2>2. Len(a) + Len(b) = n - 1
    BY <1>1, <1>2, <1>3
  <2> QED BY <1>2, <2>1, <2>2
<1> HIDE DEF u
<1>5. ASSUME NEW j \in 1..(n - 1) PROVE u[j] = IF j < i THEN s[j] ELSE s[j + 1]
  <2>1. CASE j < i
    <3>1. j \in 1..(i - 1) /\ j <= i - 1
      BY <2>1
    <3> QED BY <1>2, <1>4, <2>1, <3>1
  <2>2. CASE ~(j < i)
    <3>1. ~(j <= i - 1) /\ j - (i - 1) \in 1..(n - i) /\ i + (j - (i - 1)) = j + 1
      BY <1>1, <2>2
    <3> QED BY <1>3, <1>4, <2>2, <3>1
  <2> QED BY <2>1, <2>2
<1>6. u = [j \in 1..(n - 1) |-> u[j]]
  BY <1>4, LenProperties
<1>7. u = [j \in 1..(n - 1) |-> IF j < i THEN s[j] ELSE s[j + 1]]
  BY <1>5, <1>6
<1>8. u = Without(s, i)
  BY <1>7 DEF Without
<1>9. u = RemoveAt(s, i)
  BY DEF u, a, b, RemoveAt
<1> QED BY <1>4, <1>8, <1>9

-----------------------------------------------------------------------------
(* Lists                                                                   *)

(* What a list is.                                                         *)
LEMMA ListForm ==
  ASSUME NEW l \in Lists
  PROVE  /\ Len(l) \in 0..NumSlots /\ l \in Seq(Slots) /\ l \in [1..Len(l) -> Slots]
         /\ DOMAIN l = 1..Len(l) /\ IsInjective(l)
         /\ l = <<>> <=> Len(l) = 0
<1>1. PICK n \in 0..NumSlots : l \in Injection(1..n, Slots)
  BY DEF Lists
<1>2. n \in Nat /\ l \in [1..n -> Slots] /\ IsInjective(l)
  BY <1>1, BlinkAssumption DEF Injection
<1>3. /\ l \in Seq(Slots) /\ Len(l) = n /\ DOMAIN l = 1..n
      /\ l = <<>> <=> n = 0
  BY <1>2, IsSequence
<1> QED BY <1>1, <1>2, <1>3

(* How many numbers there are up to n.                                     *)
LEMMA IntervalSize ==
  ASSUME NEW n \in Nat
  PROVE  IsFiniteSet(1..n) /\ Cardinality(1..n) = n
<1>1. IsFiniteSet(1..n) /\ Cardinality(1..n) = IF 1 > n THEN 0 ELSE n - 1 + 1
  BY FS_Interval
<1> QED BY <1>1

(* There are not more slots in a list than slots.                          *)
LEMMA InLists ==
  ASSUME NEW l \in Seq(Slots), IsInjective(l)
  PROVE  l \in Lists
<1>1. Len(l) \in Nat /\ l \in [1..Len(l) -> Slots] /\ DOMAIN l = 1..Len(l)
  BY LenProperties
<1>2. l \in Injection(1..Len(l), Slots)
  BY <1>1 DEF Injection
<1>3. IsFiniteSet(Slots) /\ Cardinality(Slots) = NumSlots /\ NumSlots \in Nat
  <2>1. NumSlots \in Nat
    BY BlinkAssumption
  <2> QED BY <2>1, IntervalSize DEF Slots
<1>4. IsFiniteSet(1..Len(l)) /\ Cardinality(1..Len(l)) = Len(l)
  BY <1>1, IntervalSize
<1>5. Cardinality(1..Len(l)) <= Cardinality(Slots)
  BY <1>2, <1>3, FS_Injection
<1>6. Len(l) \in 0..NumSlots
  BY <1>1, <1>3, <1>4, <1>5
<1> QED BY <1>2, <1>6 DEF Lists

(* Head and pointers leave no choice: there is one list at most.           *)
LEMMA SameList ==
  ASSUME NEW array, NEW head, NEW l \in Lists, NEW m \in Lists,
         IsList(array, head, l), IsList(array, head, m)
  PROVE  l = m
<1> DEFINE n == Len(l)
           k == Len(m)
           Agree(i) == (i \in 1..n <=> i \in 1..k) /\ (i \in 1..n => l[i] = m[i])
           differ == {i \in Nat : ~Agree(i + 1)}
<1>1. /\ n \in Nat /\ k \in Nat /\ l \in [1..n -> Slots] /\ m \in [1..k -> Slots]
      /\ DOMAIN l = 1..n /\ DOMAIN m = 1..k
      /\ l = <<>> <=> n = 0
      /\ m = <<>> <=> k = 0
      /\ NULL \notin Slots
  BY ListForm, BlinkAssumption DEF Slots, NULL
<1>2. /\ head = IF n = 0 THEN NULL ELSE l[1]
      /\ head = IF k = 0 THEN NULL ELSE m[1]
      /\ \A i \in 1..n : array[l[i]].next = IF i = n THEN NULL ELSE l[i + 1]
      /\ \A i \in 1..k : array[m[i]].next = IF i = k THEN NULL ELSE m[i + 1]
  BY <1>1 DEF IsList
<1> HIDE DEF n, k
<1>3. differ = {}
  <2> SUFFICES ASSUME differ # {} PROVE FALSE
    OBVIOUS
  <2>1. differ \subseteq Nat
    OBVIOUS
  <2>2. PICK i \in differ : \A j \in differ : i <= j
    <3> HIDE DEF differ
    <3> QED BY <2>1, LeastNat
  <2>3. i \in Nat /\ ~Agree(i + 1)
    OBVIOUS
  <2>4. i # 0
    <3> SUFFICES ASSUME i = 0 PROVE Agree(1)
      BY <2>3
    <3>1. n # 0 => 1 \in 1..n /\ l[1] \in Slots
      BY <1>1
    <3>2. k # 0 => 1 \in 1..k /\ m[1] \in Slots
      BY <1>1
    <3>3. n = 0 <=> k = 0
      BY <1>1, <1>2, <3>1, <3>2
    <3>4. n = 0 => 1 \notin 1..n
      OBVIOUS
    <3>5. k = 0 => 1 \notin 1..k
      OBVIOUS
    <3> QED BY <1>2, <3>1, <3>2, <3>3, <3>4, <3>5
  <2>5. i - 1 \in Nat /\ ~(i <= i - 1) /\ (i - 1) + 1 = i
    BY <2>3, <2>4
  <2>6. i - 1 \notin differ
    <3> HIDE DEF differ
    <3> QED BY <2>2, <2>5
  <2>7. Agree(i)
    BY <2>5, <2>6
  <2>8. CASE i \notin 1..n
    BY <1>1, <2>3, <2>4, <2>7, <2>8
  <2>9. CASE i \in 1..n
    <3>1. i \in 1..k /\ l[i] = m[i]
      BY <2>7, <2>9
    <3>2. (IF i = n THEN NULL ELSE l[i + 1]) = (IF i = k THEN NULL ELSE m[i + 1])
      BY <1>2, <2>9, <3>1
    <3>3. i # n => i + 1 \in 1..n /\ l[i + 1] \in Slots
      BY <1>1, <2>9
    <3>4. i # k => i + 1 \in 1..k /\ m[i + 1] \in Slots
      BY <1>1, <3>1
    <3>5. i = n => i + 1 \notin 1..n
      BY <1>1
    <3>6. i = k => i + 1 \notin 1..k
      BY <1>1
    <3> QED BY <1>1, <2>3, <3>2, <3>3, <3>4, <3>5, <3>6
  <2> QED BY <2>8, <2>9
<1>4. ASSUME NEW i \in Nat, i # 0 PROVE Agree(i)
  <2>1. i - 1 \in Nat /\ (i - 1) + 1 = i
    BY <1>4
  <2>2. i - 1 \notin differ
    BY <1>3
  <2> QED BY <2>1, <2>2
<1>5. n = k
  <2>1. n # 0 => n \in 1..n
    BY <1>1
  <2>2. k # 0 => k \in 1..k
    BY <1>1
  <2>3. n # 0 => n \in 1..k
    BY <1>1, <1>4, <2>1
  <2>4. k # 0 => k \in 1..n
    BY <1>1, <1>4, <2>2
  <2> QED BY <1>1, <2>3, <2>4
<1>6. \A i \in 1..n : l[i] = m[i]
  <2>1. \A i \in 1..n : i \in Nat /\ i # 0
    BY <1>1
  <2> QED BY <1>4, <2>1
<1> QED BY <1>1, <1>5, <1>6

(* So List finds the list there is.                                        *)
LEMMA ListIs == \A l \in Lists : IsList(blink_array, mp1_list_head, l) => List = l
BY SameList DEF List

(* The same in the next state.                                             *)
LEMMA ListIsNext == (\A l \in Lists : IsList(blink_array, mp1_list_head, l) => List = l)'
BY ListIs, PTL

(* A list of which neither pointers nor places change is one still.        *)
LEMMA KeepList ==
  ASSUME NEW array, NEW head, NEW l, Holds(array, head, l), NEW new,
         \A p \in Slots : new[p].next = array[p].next /\ new[p].location = array[p].location
  PROVE  Holds(new, head, l)
<1>1. l \in Lists /\ DOMAIN l = 1..Len(l) /\ \A i \in DOMAIN l : l[i] \in Slots
  BY ListForm DEF Holds
<1>2. IsList(new, head, l)
  BY <1>1 DEF Holds, IsList
<1>3. Used(new) = Used(array)
  BY DEF Used
<1> QED BY <1>1, <1>2, <1>3 DEF Holds


(* A blinker that gets a free slot is the first of the list.               *)
LEMMA PushList ==
  ASSUME NEW array \in [Slots -> Record], NEW head, NEW l, Holds(array, head, l),
         NEW p \in Slots, array[p].location = 0,
         NEW r \in Record, r.location # 0, r.next = head,
         NEW new, new = [array EXCEPT ![p] = r]
  PROVE  /\ Holds(new, p, Before(p, l))
         /\ Seen(new, Before(p, l)) = Before(InSlot(r), Seen(array, l))
         /\ Len(Seen(array, l)) < NumSlots
<1> DEFINE n == Len(l)
           m == Before(p, l)
<1>1. /\ l \in Lists /\ n \in Nat /\ n <= NumSlots /\ l \in Seq(Slots) /\ l \in [1..n -> Slots]
      /\ DOMAIN l = 1..n /\ IsInjective(l)
      /\ l = <<>> <=> n = 0
      /\ IsList(array, head, l) /\ ToSet(l) = Used(array)
  BY ListForm DEF Holds
<1>2. \A i \in 1..n : l[i] \in Slots /\ l[i] # p
  BY <1>1 DEF ToSet, Used
<1>3. m \in Seq(Slots) /\ m = [i \in 1..(n + 1) |-> IF i = 1 THEN p ELSE l[i - 1]]
  BY <1>1, BeforeIs DEF Before
<1> HIDE DEF m, n
<1>4. /\ DOMAIN m = 1..(n + 1) /\ Len(m) = n + 1 /\ m # <<>> /\ m[1] = p
      /\ \A i \in 1..(n + 1) : i # 1 => i - 1 \in 1..n /\ m[i] = l[i - 1]
  <2>1. DOMAIN m = 1..(n + 1) /\ m[1] = p
        /\ \A i \in 1..(n + 1) : i # 1 => i - 1 \in 1..n /\ m[i] = l[i - 1]
    BY <1>1, <1>3
  <2>2. Len(m) = n + 1
    BY <1>1, <1>3, <2>1, LenProperties
  <2>3. m # <<>>
    BY <1>1, <2>2
  <2> QED BY <2>1, <2>2, <2>3
<1>5. IsInjective(m)
  <2> SUFFICES ASSUME NEW i \in 1..(n + 1), NEW j \in 1..(n + 1), m[i] = m[j] PROVE i = j
    BY <1>4 DEF IsInjective
  <2>1. CASE i = 1 \/ j = 1
    BY <1>2, <1>4, <2>1
  <2>2. CASE i # 1 /\ j # 1
    <3>1. i - 1 \in 1..n /\ j - 1 \in 1..n /\ l[i - 1] = l[j - 1]
      BY <1>4, <2>2
    <3>2. i - 1 = j - 1
      BY <1>1, <3>1 DEF IsInjective
    <3> QED BY <3>2
  <2> QED BY <2>1, <2>2
<1>6. m \in Lists
  BY <1>3, <1>5, InLists
<1>7. IsList(new, p, m)
  <2>1. ASSUME NEW i \in 1..(n + 1)
        PROVE  new[m[i]].next = IF i = n + 1 THEN NULL ELSE m[i + 1]
    <3>1. CASE i = 1
      <4>1. new[m[i]].next = head
        BY <1>4, <3>1
      <4>2. head = IF n = 0 THEN NULL ELSE l[1]
        BY <1>1 DEF IsList
      <4>3. n # 0 => 2 \in 1..(n + 1) /\ m[2] = l[1]
        <5>1. n # 0 => 2 \in 1..(n + 1) /\ 2 # 1 /\ 2 - 1 = 1
          BY <1>1
        <5> QED BY <1>4, <5>1
      <4>4. i = n + 1 <=> n = 0
        BY <1>1, <3>1
      <4> QED BY <3>1, <4>1, <4>2, <4>3, <4>4
    <3>2. CASE i # 1
      <4>1. i - 1 \in 1..n /\ m[i] = l[i - 1] /\ new[m[i]] = array[l[i - 1]]
        BY <1>2, <1>4, <3>2
      <4>2. array[l[i - 1]].next = IF i - 1 = n THEN NULL ELSE l[(i - 1) + 1]
        BY <1>1, <4>1 DEF IsList, n
      <4>3. i # n + 1 => i + 1 \in 1..(n + 1) /\ i + 1 # 1 /\ (i + 1) - 1 = (i - 1) + 1
        BY <1>1
      <4>4. i # n + 1 => m[i + 1] = l[(i - 1) + 1]
        BY <1>4, <4>3
      <4>5. i - 1 = n <=> i = n + 1
        BY <1>1
      <4> QED BY <4>1, <4>2, <4>4, <4>5
    <3> QED BY <3>1, <3>2
  <2> QED BY <1>4, <2>1 DEF IsList
<1>8. ToSet(m) = Used(new)
  <2>1. Used(new) = Used(array) \cup {p}
    BY DEF Used
  <2>2. ASSUME NEW q PROVE q \in ToSet(m) <=> q \in ToSet(l) \cup {p}
    <3>1. ASSUME q \in ToSet(m) PROVE q \in ToSet(l) \cup {p}
      <4>1. PICK i \in 1..(n + 1) : q = m[i]
        BY <1>4, <3>1 DEF ToSet
      <4> QED BY <1>1, <1>4, <4>1 DEF ToSet
    <3>2. ASSUME q \in ToSet(l) PROVE q \in ToSet(m)
      <4>1. PICK i \in 1..n : q = l[i]
        BY <1>1, <3>2 DEF ToSet
      <4>2. i + 1 \in 1..(n + 1) /\ i + 1 # 1 /\ (i + 1) - 1 = i
        BY <1>1
      <4>3. m[i + 1] = q
        BY <1>4, <4>1, <4>2
      <4> QED BY <1>4, <4>2, <4>3 DEF ToSet
    <3>3. p \in ToSet(m)
      <4>1. 1 \in 1..(n + 1)
        BY <1>1
      <4> QED BY <1>4, <4>1 DEF ToSet
    <3> QED BY <3>1, <3>2, <3>3
  <2>3. ToSet(m) = ToSet(l) \cup {p}
    BY <2>2
  <2> QED BY <1>1, <2>1, <2>3
<1>9. n + 1 <= NumSlots
  BY <1>4, <1>6, ListForm
<1>10. Len(Seen(array, l)) = n /\ Seen(array, l) = [i \in 1..n |-> InSlot(array[l[i]])]
  <2> DEFINE s == Seen(array, l)
             S == {InSlot(array[l[i]]) : i \in 1..n}
  <2>1. s = [i \in 1..n |-> InSlot(array[l[i]])]
    BY <1>1 DEF Seen
  <2>2. s \in [1..n -> S]
    BY <2>1
  <2> HIDE DEF s, S
  <2>3. Len(s) = n
    BY <1>1, <2>2, IsSequence
  <2> QED BY <2>1, <2>3 DEF s
<1>11. Seen(new, m) = Before(InSlot(r), Seen(array, l))
  <2>1. Seen(new, m) = [i \in 1..(n + 1) |-> InSlot(new[m[i]])]
    BY <1>4 DEF Seen
  <2>2. ASSUME NEW i \in 1..(n + 1)
        PROVE  InSlot(new[m[i]]) = IF i = 1 THEN InSlot(r) ELSE Seen(array, l)[i - 1]
    <3>1. CASE i = 1
      <4>1. new[m[i]] = r
        BY <1>4, <3>1
      <4> QED BY <3>1, <4>1
    <3>2. CASE i # 1
      <4>1. i - 1 \in 1..n /\ new[m[i]] = array[l[i - 1]]
        BY <1>2, <1>4, <3>2
      <4>2. Seen(array, l)[i - 1] = InSlot(array[l[i - 1]])
        BY <1>10, <4>1
      <4> QED BY <3>2, <4>1, <4>2
    <3> QED BY <3>1, <3>2
  <2>3. Before(InSlot(r), Seen(array, l)) =
          [i \in 1..(n + 1) |-> IF i = 1 THEN InSlot(r) ELSE Seen(array, l)[i - 1]]
    BY <1>10 DEF Before
  <2>4. [i \in 1..(n + 1) |-> InSlot(new[m[i]])] =
          [i \in 1..(n + 1) |-> IF i = 1 THEN InSlot(r) ELSE Seen(array, l)[i - 1]]
    BY ONLY <2>2
  <2> QED BY ONLY <2>1, <2>3, <2>4
<1>12. Len(Seen(array, l)) < NumSlots
  BY <1>1, <1>9, <1>10, BlinkAssumption
<1> QED BY <1>6, <1>7, <1>8, <1>11, <1>12 DEF Holds, m


(* What a list looks like has its length.                                  *)
LEMMA SeenForm ==
  ASSUME NEW array, NEW l \in Lists
  PROVE  /\ Len(Seen(array, l)) = Len(l) /\ DOMAIN Seen(array, l) = 1..Len(l)
         /\ \A i \in 1..Len(l) : Seen(array, l)[i] = InSlot(array[l[i]])
         /\ \E S : Seen(array, l) \in Seq(S)
<1> DEFINE n == Len(l)
           s == Seen(array, l)
           S == {InSlot(array[l[i]]) : i \in 1..n}
<1>1. n \in Nat /\ DOMAIN l = 1..n
  BY ListForm, BlinkAssumption
<1>2. s = [i \in 1..n |-> InSlot(array[l[i]])]
  BY <1>1 DEF Seen
<1> HIDE DEF n
<1>3. s \in [1..n -> S] /\ DOMAIN s = 1..n /\ \A i \in 1..n : s[i] = InSlot(array[l[i]])
  BY <1>2
<1> HIDE DEF s, S
<1>4. Len(s) = n /\ s \in Seq(S)
  BY <1>1, <1>3, IsSequence
<1> QED BY <1>3, <1>4 DEF n, s

(* A slot that is freed is skipped by the pointer to it, and by no other.   *)
LEMMA DropList ==
  ASSUME NEW array \in [Slots -> Record], NEW head, NEW l, Holds(array, head, l),
         NEW i \in 1..Len(l), NEW p, p = l[i],
         NEW new, new = [q \in Slots |->
                          IF q = p THEN Free
                          ELSE IF array[q].next = p THEN [array[q] EXCEPT !.next = array[p].next]
                          ELSE array[q]],
         NEW first, first = IF p = head THEN array[p].next ELSE head
  PROVE  /\ Holds(new, first, Without(l, i))
         /\ Seen(new, Without(l, i)) = Without(Seen(array, l), i)
<1> DEFINE n == Len(l)
           m == Without(l, i)
<1>1. /\ l \in Lists /\ n \in Nat /\ l \in Seq(Slots) /\ l \in [1..n -> Slots]
      /\ DOMAIN l = 1..n /\ i \in 1..n
      /\ l = <<>> <=> n = 0
      /\ \A x, y \in 1..n : l[x] = l[y] => x = y
      /\ ToSet(l) = Used(array) /\ p \in Slots /\ NULL \notin Slots
  <2>1. l \in Lists /\ ToSet(l) = Used(array)
    BY DEF Holds
  <2>2. /\ n \in 0..NumSlots /\ l \in Seq(Slots) /\ l \in [1..n -> Slots] /\ DOMAIN l = 1..n
        /\ l = <<>> <=> n = 0
        /\ IsInjective(l)
    BY <2>1, ListForm
  <2>3. n \in Nat /\ i \in 1..n /\ NULL \notin Slots
    BY <2>2, BlinkAssumption DEF Slots, NULL
  <2> HIDE DEF n
  <2>4. p \in Slots
    BY <2>2, <2>3
  <2>5. \A x, y \in 1..n : l[x] = l[y] => x = y
    BY <2>2 DEF IsInjective
  <2> QED BY <2>1, <2>2, <2>3, <2>4, <2>5
<1>2. /\ head = l[1]
      /\ \A x \in 1..n : array[l[x]].next = IF x = n THEN NULL ELSE l[x + 1]
  BY <1>1 DEF Holds, IsList
<1>3. m \in Seq(Slots) /\ m = [j \in 1..(n - 1) |-> IF j < i THEN l[j] ELSE l[j + 1]]
  BY <1>1, WithoutIs DEF Without
<1> HIDE DEF m, n
<1>4. /\ DOMAIN m = 1..(n - 1) /\ Len(m) = n - 1
      /\ m = <<>> <=> n = 1
      /\ \A j \in 1..(n - 1) : m[j] = IF j < i THEN l[j] ELSE l[j + 1]
  <2>1. n - 1 \in Nat /\ m \in [1..(n - 1) -> Slots]
    <3>1. DOMAIN m = 1..(n - 1) /\ DOMAIN m = 1..Len(m) /\ m \in [1..Len(m) -> Slots]
      BY <1>3, LenProperties
    <3> QED BY <1>1, <3>1
  <2>2. Len(m) = n - 1 /\ (m = <<>> <=> n - 1 = 0)
    BY <2>1, IsSequence
  <2> QED BY <1>1, <1>3, <2>1, <2>2
<1>5. ASSUME NEW x \in 1..n, x # i
      PROVE  /\ l[x] \in Slots /\ l[x] # p
             /\ InSlot(new[l[x]]) = InSlot(array[l[x]])
             /\ new[l[x]].next = IF x + 1 = i THEN (IF i = n THEN NULL ELSE l[i + 1])
                                 ELSE IF x = n THEN NULL ELSE l[x + 1]
  <2>1. l[x] \in Slots /\ l[x] # p /\ array[l[x]] \in Record
    BY <1>1, <1>5
  <2>2. /\ new[l[x]].next = IF array[l[x]].next = p THEN array[p].next ELSE array[l[x]].next
        /\ InSlot(new[l[x]]) = InSlot(array[l[x]])
    <3> DEFINE r == array[l[x]]
               u == [r EXCEPT !.next = array[p].next]
    <3>1. new[l[x]] = IF r.next = p THEN u ELSE r
      BY <2>1
    <3>2. r \in Record
      BY <2>1
    <3> HIDE DEF r
    <3>3. u.next = array[p].next /\ InSlot(u) = InSlot(r)
      BY <3>2 DEF Record, InSlot
    <3> HIDE DEF u
    <3> QED BY <3>1, <3>3 DEF r
  <2>3. array[l[x]].next = p <=> x + 1 = i
    <3>1. x # n => x + 1 \in 1..n
      BY <1>1
    <3>2. x = n => x + 1 # i
      BY <1>1
    <3> QED BY <1>1, <1>2, <3>1, <3>2
  <2>4. array[p].next = IF i = n THEN NULL ELSE l[i + 1]
    BY <1>1, <1>2
  <2>5. array[l[x]].next = IF x = n THEN NULL ELSE l[x + 1]
    BY <1>2
  <2> QED BY <2>1, <2>2, <2>3, <2>4, <2>5
<1>6. IsInjective(m)
  <2> SUFFICES ASSUME NEW x \in 1..(n - 1), NEW y \in 1..(n - 1), m[x] = m[y] PROVE x = y
    BY <1>4 DEF IsInjective
  <2> DEFINE from(j) == IF j < i THEN j ELSE j + 1
  <2>1. from(x) \in 1..n /\ from(y) \in 1..n /\ l[from(x)] = l[from(y)]
    BY <1>1, <1>4
  <2>2. from(x) = from(y)
    <3> HIDE DEF from
    <3> QED BY <1>1, <2>1
  <2> QED BY <1>1, <2>2
<1>7. m \in Lists
  BY <1>3, <1>6, InLists
<1>8. first = IF m = <<>> THEN NULL ELSE m[1]
  <2>1. 1 \in 1..n
    BY <1>1
  <2>2. CASE i = 1
    <3>1. p = head /\ first = IF n = 1 THEN NULL ELSE l[2]
      <4>1. p = head /\ array[l[1]].next = IF 1 = n THEN NULL ELSE l[1 + 1]
        BY <1>2, <2>1, <2>2
      <4> QED BY <2>2, <4>1
    <3>2. n # 1 => 1 \in 1..(n - 1) /\ m[1] = l[1 + 1]
      BY <1>1, <1>4, <2>2
    <3> QED BY <1>4, <3>1, <3>2
  <2>3. CASE i # 1
    <3>1. n # 1 /\ 1 \in 1..(n - 1) /\ 1 < i
      BY <1>1, <2>3
    <3>2. first = l[1] /\ m[1] = l[1]
      BY <1>1, <1>2, <1>4, <2>1, <2>3, <3>1
    <3> QED BY <1>4, <3>1, <3>2
  <2> QED BY <2>2, <2>3
<1>9. ASSUME NEW j \in 1..(n - 1)
      PROVE  new[m[j]].next = IF j = n - 1 THEN NULL ELSE m[j + 1]
  <2>1. CASE j < i
    <3>1. j \in 1..n /\ j # i /\ j # n /\ m[j] = l[j]
      BY <1>1, <1>4, <2>1
    <3>2. new[m[j]].next = IF j + 1 = i THEN (IF i = n THEN NULL ELSE l[i + 1]) ELSE l[j + 1]
      BY <1>5, <3>1
    <3>3. j = n - 1 => j + 1 = i /\ i = n
      BY <1>1, <2>1
    <3>4. j # n - 1 => /\ j + 1 \in 1..(n - 1)
                       /\ j + 1 = i => i # n /\ m[j + 1] = l[i + 1]
                       /\ j + 1 # i => m[j + 1] = l[j + 1]
      BY <1>1, <1>4, <2>1
    <3> QED BY <3>2, <3>3, <3>4
  <2>2. CASE ~(j < i)
    <3>1. j + 1 \in 1..n /\ j + 1 # i /\ (j + 1) + 1 # i /\ m[j] = l[j + 1]
      BY <1>1, <1>4, <2>2
    <3>2. new[m[j]].next = IF j + 1 = n THEN NULL ELSE l[(j + 1) + 1]
      BY <1>5, <3>1
    <3>3. j + 1 = n <=> j = n - 1
      BY <1>1
    <3>4. j # n - 1 => j + 1 \in 1..(n - 1) /\ m[j + 1] = l[(j + 1) + 1]
      BY <1>1, <1>4, <2>2
    <3> QED BY <3>2, <3>3, <3>4
  <2> QED BY <2>1, <2>2
<1>10. IsList(new, first, m)
  BY <1>4, <1>8, <1>9 DEF IsList
<1>11. ToSet(m) = Used(new)
  <2>1. Used(new) = Used(array) \ {p}
    <3> SUFFICES ASSUME NEW q \in Slots
                 PROVE  new[q].location # 0 <=> array[q].location # 0 /\ q # p
      BY DEF Used
    <3>1. CASE q = p
      BY <3>1 DEF Free
    <3>2. CASE q # p
      <4>1. array[q] \in Record
        OBVIOUS
      <4>2. new[q].location = array[q].location
        BY <3>2, <4>1 DEF Record
      <4> QED BY <3>2, <4>2
    <3> QED BY <3>1, <3>2
  <2>2. ASSUME NEW q PROVE q \in ToSet(m) <=> q \in ToSet(l) \ {p}
    <3>1. ASSUME q \in ToSet(m) PROVE q \in ToSet(l) \ {p}
      <4>1. PICK j \in 1..(n - 1) : q = m[j]
        BY <1>4, <3>1 DEF ToSet
      <4>2. PICK x \in 1..n : x # i /\ q = l[x]
        <5>1. CASE j < i
          <6>1. j \in 1..n /\ j # i /\ q = l[j]
            BY <1>1, <1>4, <4>1, <5>1
          <6> QED BY <6>1
        <5>2. CASE ~(j < i)
          <6>1. j + 1 \in 1..n /\ j + 1 # i /\ q = l[j + 1]
            BY <1>1, <1>4, <4>1, <5>2
          <6> QED BY <6>1
        <5> QED BY <5>1, <5>2
      <4> QED BY <1>1, <1>5, <4>2 DEF ToSet
    <3>2. ASSUME q \in ToSet(l), q # p PROVE q \in ToSet(m)
      <4>1. PICK x \in 1..n : q = l[x] /\ x # i
        BY <1>1, <3>2 DEF ToSet
      <4>2. CASE x < i
        <5>1. x \in 1..(n - 1) /\ m[x] = q
          BY <1>1, <1>4, <4>1, <4>2
        <5> QED BY <1>4, <5>1 DEF ToSet
      <4>3. CASE ~(x < i)
        <5>1. x - 1 \in 1..(n - 1) /\ ~(x - 1 < i) /\ (x - 1) + 1 = x
          BY <1>1, <4>1, <4>3
        <5>2. m[x - 1] = q
          BY <1>4, <4>1, <5>1
        <5> QED BY <1>4, <5>1, <5>2 DEF ToSet
      <4> QED BY <4>2, <4>3
    <3> QED BY <3>1, <3>2
  <2>3. ToSet(m) = ToSet(l) \ {p}
    BY <2>2
  <2> QED BY <1>1, <2>1, <2>3
<1>12. Seen(new, m) = Without(Seen(array, l), i)
  <2> DEFINE s == Seen(array, l)
  <2>1. /\ Len(s) = n /\ \A x \in 1..n : s[x] = InSlot(array[l[x]])
    BY <1>1, SeenForm DEF n
  <2> HIDE DEF s
  <2>2. Seen(new, m) = [j \in 1..(n - 1) |-> InSlot(new[m[j]])]
    BY <1>4 DEF Seen
  <2>3. ASSUME NEW j \in 1..(n - 1)
        PROVE  InSlot(new[m[j]]) = IF j < i THEN s[j] ELSE s[j + 1]
    <3>1. CASE j < i
      <4>1. j \in 1..n /\ j # i /\ m[j] = l[j]
        BY <1>1, <1>4, <3>1
      <4> QED BY <1>5, <2>1, <3>1, <4>1
    <3>2. CASE ~(j < i)
      <4>1. j + 1 \in 1..n /\ j + 1 # i /\ m[j] = l[j + 1]
        BY <1>1, <1>4, <3>2
      <4> QED BY <1>5, <2>1, <3>2, <4>1
    <3> QED BY <3>1, <3>2
  <2>4. Without(s, i) = [j \in 1..(n - 1) |-> IF j < i THEN s[j] ELSE s[j + 1]]
    BY <2>1 DEF Without
  <2>5. [j \in 1..(n - 1) |-> InSlot(new[m[j]])] =
          [j \in 1..(n - 1) |-> IF j < i THEN s[j] ELSE s[j + 1]]
    BY ONLY <2>3
  <2>6. Seen(new, m) = Without(s, i)
    BY ONLY <2>2, <2>4, <2>5
  <2> QED BY <2>6 DEF s
<1> QED BY <1>7, <1>10, <1>11, <1>12 DEF Holds, m


-----------------------------------------------------------------------------
(* The calls of the library                                                *)

\* The list there is, in a state.
Listed(l) == Holds(blink_array, mp1_list_head, l)

(* There is one.                                                           *)
LEMMA HasList ==
  ASSUME ListHoldsUsed
  PROVE  Listed(List) /\ \A l : Listed(l) => l = List
<1>1. PICK l \in Lists : IsList(blink_array, mp1_list_head, l) /\ ToSet(l) = {p \in Slots : ~IsFree(p)}
  BY DEF ListHoldsUsed
<1>2. Listed(l)
  BY <1>1 DEF Listed, Holds, Used, IsFree
<1>3. \A m : Listed(m) => m = List
  BY ListIs DEF Listed, Holds
<1> QED BY <1>2, <1>3

(* The same in the next state.                                             *)
LEMMA HasListNext == (ListHoldsUsed => Listed(List) /\ \A l : Listed(l) => l = List)'
<1>1. ListHoldsUsed => Listed(List) /\ \A l : Listed(l) => l = List
  BY HasList
<1> QED BY <1>1, PTL

(* The list is what the property says there is.                            *)
LEMMA ListSuffices == (\E l : Listed(l)) => ListHoldsUsed
BY DEF Listed, Holds, Used, IsFree, ListHoldsUsed

(* The same in the next state.                                             *)
LEMMA ListSufficesNext == ((\E l : Listed(l)) => ListHoldsUsed)'
BY ListSuffices, PTL

(* The bounds of places, slots and words.                                  *)
LEMMA Bounds ==
  /\ 0 \in Places /\ NULL \notin Slots /\ Slots \subseteq Nat /\ 0 \in Words
  /\ Word \in Nat /\ Word > 0 /\ NumPlaces \in Nat /\ NumSlots \in Nat
  /\ Free \in Record /\ Free.location = 0
<1>1. /\ 0 \in Places /\ NULL \notin Slots /\ Slots \subseteq Nat /\ 0 \in Words
      /\ Word \in Nat /\ Word > 0 /\ NumPlaces \in Nat /\ NumSlots \in Nat
  BY BlinkAssumption DEF Places, Slots, NULL, Words
<1>2. Free \in Record /\ Free.location = 0
  BY <1>1 DEF Free, Record, Pictures
<1> QED BY <1>1, <1>2

(* What is handed out is a free slot.                                      *)
LEMMA MallocIs ==
  ASSUME mp1_malloc # NULL
  PROVE  mp1_malloc \in Slots /\ blink_array[mp1_malloc].location = 0
<1> DEFINE free == {p \in Slots : IsFree(p)}
<1>1. free # {} /\ mp1_malloc = Min(free)
  BY DEF mp1_malloc
<1>2. free \subseteq Nat
  BY Bounds
<1>3. Min(free) \in free
  <2> HIDE DEF free
  <2> QED BY <1>1, <1>2, MinIs
<1> QED BY <1>1, <1>3 DEF IsFree

(* A blinker that is added is the first, and is drawn as on.               *)
LEMMA AddStep ==
  ASSUME LibInv, NEW b \in Request, mp1_ioctl_add(b)
  PROVE  /\ LibInv'
         /\ \/ UNCHANGED libVars
            \/ /\ b.location \in 1..(NumPlaces - 1)
               /\ Len(Seen(blink_array, List)) < NumSlots
               /\ Seen(blink_array', List') = Before(InSlot(Linked(b, NULL)), Seen(blink_array, List))
<1>1. CASE UNCHANGED libVars
  BY <1>1 DEF libVars, LibInv, LibType, ListHoldsUsed, DrawnAsMarked, IsFree
<1>2. CASE ~UNCHANGED libVars
  <2> DEFINE p == mp1_malloc
             r == Linked(b, mp1_list_head)
             k == b.location
  <2>1. /\ ~(k >= NumPlaces) /\ p # NULL
        /\ blink_array' = [blink_array EXCEPT ![p] = r]
        /\ mp1_list_head' = p
        /\ mp1_poke(p, b.on_char, p)
    BY <1>2 DEF mp1_ioctl_add
  <2>2. p \in Slots /\ blink_array[p].location = 0
    BY <2>1, MallocIs
  <2>3. /\ LibType /\ Listed(List) /\ drawn[0] = NULL /\ DrawnAsMarked
    BY HasList DEF LibInv
  <2> HIDE DEF p
  <2>4. k \in 1..(NumPlaces - 1) /\ k \in Places /\ k # 0
    BY <2>1, Bounds DEF Request, Places
  <2>5. /\ r \in Record /\ r.location = k /\ r.next = mp1_list_head /\ r.status = 1
        /\ r.on_char = b.on_char
        /\ b.on_char \in Pictures
        /\ InSlot(r) = InSlot(Linked(b, NULL))
    BY <2>3, <2>4 DEF Request, Linked, Record, LibType, Pictures, InSlot
  <2> HIDE DEF r, k
  <2>6. /\ blink_array' \in [Slots -> Record] /\ blink_array'[p] = r
        /\ \A q \in Slots : q # p => blink_array'[q] = blink_array[q]
    BY <2>1, <2>2, <2>3, <2>5 DEF LibType
  <2>7. screen' = [screen EXCEPT ![k] = b.on_char] /\ drawn' = [drawn EXCEPT ![k] = p]
    BY <2>1, <2>5, <2>6 DEF mp1_poke
  <2>8. LibType'
    BY <2>1, <2>2, <2>3, <2>5, <2>6, <2>7 DEF LibType
  <2> PICK m : m = Before(p, List)
    OBVIOUS
  <2>9. /\ Holds(blink_array', p, m)
        /\ Seen(blink_array', m) = Before(InSlot(r), Seen(blink_array, List))
        /\ Len(Seen(blink_array, List)) < NumSlots
    BY <2>1, <2>2, <2>3, <2>4, <2>5, PushList DEF Listed, LibType
  <2>10. Listed(m)'
    BY <2>1, <2>9 DEF Listed
  <2>11. ListHoldsUsed' /\ List' = m
    <3>1. ListHoldsUsed'
      BY <2>10, ListSufficesNext
    <3> QED BY <2>10, <3>1, HasListNext
  <2>12. drawn'[0] = NULL
    BY <2>3, <2>4, <2>7, Bounds DEF LibType
  <2>13. DrawnAsMarked'
    <3> SUFFICES ASSUME NEW x \in Places, drawn'[x] # NULL, blink_array'[drawn'[x]].location = x
                 PROVE  screen'[x] = IF blink_array'[drawn'[x]].status = 1
                                     THEN blink_array'[drawn'[x]].on_char
                                     ELSE blink_array'[drawn'[x]].off_char
      BY DEF DrawnAsMarked
    <3>1. CASE x = k
      BY <2>3, <2>4, <2>5, <2>6, <2>7, <3>1 DEF LibType
    <3>2. CASE x # k
      <4>1. drawn'[x] = drawn[x] /\ screen'[x] = screen[x] /\ drawn[x] \in Slots
        BY <2>3, <2>7, <3>2 DEF LibType
      <4>2. drawn[x] # p
        BY <2>5, <2>6, <3>2, <4>1
      <4>3. blink_array'[drawn[x]] = blink_array[drawn[x]]
        BY <2>6, <4>1, <4>2
      <4> QED BY <2>3, <4>1, <4>3 DEF DrawnAsMarked
    <3> QED BY <3>1, <3>2
  <2>14. LibInv'
    BY <2>8, <2>11, <2>12, <2>13 DEF LibInv
  <2> QED BY <2>4, <2>5, <2>9, <2>11, <2>14 DEF k
<1> QED BY <1>1, <1>2

(* The search finds the first blinker of a place.                          *)
LEMMA FindIs ==
  ASSUME LibInv, NEW l, mp1_find_helper(l) # NULL
  PROVE  \E i \in 1..Len(List) :
           /\ mp1_find_helper(l) = List[i] /\ List[i] \in Slots
           /\ blink_array[List[i]].location = l /\ l \in Places /\ l # 0
           /\ i \in Blinkers!Newest(Seen(blink_array, List))
<1> DEFINE list == List
           at == At(list, l)
           s == Seen(blink_array, list)
           i == Min(at)
<1>1. Listed(list) /\ LibType
  BY HasList DEF LibInv
<1>2. at # {} /\ mp1_find_helper(l) = list[i]
  BY DEF mp1_find_helper
<1> HIDE DEF list
<1>3. /\ list \in Lists /\ Len(list) \in Nat /\ DOMAIN list = 1..Len(list)
      /\ \A j \in 1..Len(list) : list[j] \in Slots
      /\ ToSet(list) = Used(blink_array)
  BY <1>1, ListForm, BlinkAssumption DEF Listed, Holds
<1>4. at \subseteq Nat /\ at \subseteq 1..Len(list)
  BY <1>3 DEF At
<1>5. i \in at /\ \A j \in at : i <= j
  <2> HIDE DEF at
  <2> QED BY <1>2, <1>4, MinIs
<1> HIDE DEF i
<1>6. i \in 1..Len(list) /\ blink_array[list[i]].location = l
  BY <1>4, <1>5 DEF At
<1>7. l \in Places /\ l # 0
  <2>1. blink_array[list[i]] \in Record
    BY <1>1, <1>3, <1>6 DEF LibType
  <2>2. list[i] \in ToSet(list)
    BY <1>3, <1>6 DEF ToSet
  <2> QED BY <1>3, <1>6, <2>1, <2>2 DEF Record, Used
<1>8. i \in Blinkers!Newest(s)
  <2>1. DOMAIN s = 1..Len(list) /\ \A j \in 1..Len(list) : s[j] = InSlot(blink_array[list[j]])
    BY <1>3, SeenForm
  <2> HIDE DEF s
  <2>2. ASSUME NEW j \in 1..(i - 1) PROVE s[j].location # s[i].location
    <3>1. j \in 1..Len(list) /\ j \notin at
      <4>1. j \in 1..Len(list) /\ ~(i <= j)
        BY <1>3, <1>6
      <4> HIDE DEF at
      <4> QED BY <1>5, <4>1
    <3>2. blink_array[list[j]].location # l
      BY <1>3, <3>1 DEF At
    <3> QED BY <1>6, <2>1, <3>1, <3>2 DEF InSlot
  <2> QED BY <1>6, <2>1, <2>2 DEF Blinkers!Newest
<1> QED BY <1>2, <1>3, <1>6, <1>7, <1>8 DEF list, s


(* What is removed was the first blinker of its place.                     *)
LEMMA RemoveStep ==
  ASSUME LibInv, NEW l, mp1_ioctl_remove(l)
  PROVE  /\ LibInv'
         /\ \/ UNCHANGED libVars
            \/ \E i \in 1..Len(List) :
                 /\ i \in Blinkers!Newest(Seen(blink_array, List))
                 /\ Seen(blink_array', List') = Without(Seen(blink_array, List), i)
<1>1. CASE UNCHANGED libVars
  BY <1>1 DEF libVars, LibInv, LibType, ListHoldsUsed, DrawnAsMarked, IsFree
<1>2. CASE ~UNCHANGED libVars
  <2> DEFINE p == mp1_find_helper(l)
             after == blink_array[p].next
  <2>1. /\ p # NULL
        /\ mp1_list_head' = IF p = mp1_list_head THEN after ELSE mp1_list_head
        /\ blink_array' = [q \in Slots |->
             IF q = p THEN Free
             ELSE IF blink_array[q].next = p THEN [blink_array[q] EXCEPT !.next = after]
             ELSE blink_array[q]]
        /\ screen' = screen /\ drawn' = drawn
    BY <1>2 DEF mp1_ioctl_remove
  <2>2. /\ LibType /\ Listed(List) /\ drawn[0] = NULL /\ DrawnAsMarked
    BY HasList DEF LibInv
  <2>3. PICK i \in 1..Len(List) :
          /\ p = List[i] /\ p \in Slots
          /\ i \in Blinkers!Newest(Seen(blink_array, List))
    BY <2>1, FindIs
  <2> HIDE DEF p
  <2>4. /\ blink_array'[p] = Free
        /\ \A q \in Slots : q # p =>
             /\ blink_array'[q] \in Record
             /\ blink_array'[q].location = blink_array[q].location
             /\ blink_array'[q].status = blink_array[q].status
             /\ blink_array'[q].on_char = blink_array[q].on_char
             /\ blink_array'[q].off_char = blink_array[q].off_char
    <3>1. blink_array'[p] = Free
      BY <2>1, <2>3
    <3>2. ASSUME NEW q \in Slots, q # p
          PROVE  /\ blink_array'[q] \in Record
                 /\ blink_array'[q].location = blink_array[q].location
                 /\ blink_array'[q].status = blink_array[q].status
                 /\ blink_array'[q].on_char = blink_array[q].on_char
                 /\ blink_array'[q].off_char = blink_array[q].off_char
      <4>1. blink_array[q] \in Record /\ after \in Slots \cup {NULL}
        BY <2>2, <2>3 DEF LibType, Record
      <4>2. blink_array'[q] = IF blink_array[q].next = p
                              THEN [blink_array[q] EXCEPT !.next = after] ELSE blink_array[q]
        BY <2>1, <3>2
      <4> HIDE DEF after
      <4> QED BY <4>1, <4>2 DEF Record
    <3> QED BY <3>1, <3>2
  <2>5. LibType'
    <3>1. blink_array' \in [Slots -> Record]
      <4>1. \A q \in Slots : blink_array'[q] \in Record
        BY <2>4, Bounds
      <4>2. DOMAIN blink_array' = Slots /\ blink_array' = [q \in DOMAIN blink_array' |-> blink_array'[q]]
        BY <2>1
      <4> QED BY <4>1, <4>2
    <3>2. mp1_list_head' \in Slots \cup {NULL}
      BY <2>1, <2>2, <2>3 DEF LibType, Record
    <3> QED BY <2>1, <2>2, <3>1, <3>2 DEF LibType
  <2> PICK m : m = Without(List, i)
    OBVIOUS
  <2> PICK new : new = blink_array'
    OBVIOUS
  <2> PICK first : first = mp1_list_head'
    OBVIOUS
  <2>6. /\ Holds(new, first, m)
        /\ Seen(new, m) = Without(Seen(blink_array, List), i)
    <3>1. Holds(blink_array, mp1_list_head, List) /\ blink_array \in [Slots -> Record]
      BY <2>2 DEF Listed, LibType
    <3> QED BY <2>1, <2>3, <3>1, DropList
  <2>7. Listed(m)'
    BY <2>6 DEF Listed
  <2>8. ListHoldsUsed' /\ List' = m
    <3>1. ListHoldsUsed'
      BY <2>7, ListSufficesNext
    <3> QED BY <2>7, <3>1, HasListNext
  <2>9. DrawnAsMarked'
    <3> SUFFICES ASSUME NEW x \in Places, drawn'[x] # NULL, blink_array'[drawn'[x]].location = x
                 PROVE  screen'[x] = IF blink_array'[drawn'[x]].status = 1
                                     THEN blink_array'[drawn'[x]].on_char
                                     ELSE blink_array'[drawn'[x]].off_char
      BY DEF DrawnAsMarked
    <3>1. drawn'[x] = drawn[x] /\ screen'[x] = screen[x] /\ drawn[x] \in Slots
      BY <2>1, <2>2 DEF LibType
    <3>2. drawn[x] # p
      BY <2>1, <2>2, <2>4, <3>1, Bounds
    <3> QED BY <2>2, <2>4, <3>1, <3>2 DEF DrawnAsMarked
  <2>10. LibInv'
    BY <2>1, <2>2, <2>5, <2>8, <2>9 DEF LibInv
  <2> QED BY <2>3, <2>6, <2>8, <2>10
<1> QED BY <1>1, <1>2

Blinker(place, on_char, off_char, on, lasts, left) ==
  [location |-> place, on_char |-> on_char, off_char |-> off_char,
   on |-> on, lasts |-> lasts, left |-> left]

(* What following a rhythm changes of a blinker.                           *)
LEMMA RhythmIs ==
  ASSUME NEW place, NEW x, NEW y, NEW on, NEW lasts, NEW left,
         NEW place1, NEW x1, NEW y1, NEW on1, NEW lasts1, NEW left1
  PROVE  Blinkers!InRhythm(Blinker(place, x, y, on, lasts, left),
                           Blinker(place1, x1, y1, on1, lasts1, left1))
         = Blinker(place, x, y, on1, lasts1, left1)
<1> DEFINE b == Blinker(place, x, y, on, lasts, left)
           first == Blinker(place1, x1, y1, on1, lasts1, left1)
           b1 == [b EXCEPT !.on = on1]
           b2 == [b1 EXCEPT !.left = left1]
           b3 == [b2 EXCEPT !.lasts = lasts1]
<1>1. first.on = on1 /\ first.left = left1 /\ first.lasts = lasts1
  BY DEF Blinker
<1>2. [b EXCEPT !.on = on1, !.left = left1, !.lasts = lasts1] = b3
  OBVIOUS
<1>3. b1 = Blinker(place, x, y, on1, lasts, left)
  BY DEF Blinker
<1> HIDE DEF b, b1, first
<1>4. b2 = Blinker(place, x, y, on1, lasts, left1)
  BY <1>3 DEF Blinker
<1> HIDE DEF b2
<1>5. b3 = Blinker(place, x, y, on1, lasts1, left1)
  BY <1>4 DEF Blinker
<1> HIDE DEF b3
<1>6. Blinkers!InRhythm(b, first) = b3
  BY <1>1, <1>2 DEF Blinkers!InRhythm
<1> QED BY <1>5, <1>6 DEF b, first

(* One blinker takes over the rhythm of another.                           *)
LEMMA SyncStep ==
  ASSUME LibInv, NEW l1, NEW l2, mp1_ioctl_sync(l1, l2)
  PROVE  /\ LibInv'
         /\ \/ UNCHANGED libVars
            \/ \E i, j \in 1..Len(List) :
                 LET s == Seen(blink_array, List)
                 IN  /\ i \in Blinkers!Newest(s) /\ j \in Blinkers!Newest(s)
                     /\ Seen(blink_array', List') =
                          [s EXCEPT ![j] = Blinkers!InRhythm(s[j], s[i])]
<1>1. CASE UNCHANGED libVars
  BY <1>1 DEF libVars, LibInv, LibType, ListHoldsUsed, DrawnAsMarked, IsFree
<1>2. CASE ~UNCHANGED libVars
  <2> DEFINE p == mp1_find_helper(l1)
             q == mp1_find_helper(l2)
             a == blink_array[p]
             b == blink_array[q]
             r == [b EXCEPT !.on_length = a.on_length, !.off_length = a.off_length,
                            !.countdown = a.countdown, !.status = a.status]
  <2>1. /\ p # NULL /\ q # NULL
        /\ blink_array' = [blink_array EXCEPT ![q] = r]
        /\ mp1_poke(q, b.off_char, NULL)
        /\ mp1_list_head' = mp1_list_head
    BY <1>2 DEF mp1_ioctl_sync
  <2>2. /\ LibType /\ Listed(List) /\ drawn[0] = NULL /\ DrawnAsMarked
    BY HasList DEF LibInv
  <2>3. PICK i \in 1..Len(List) :
          /\ p = List[i] /\ p \in Slots /\ i \in Blinkers!Newest(Seen(blink_array, List))
    BY <2>1, FindIs
  <2>4. PICK j \in 1..Len(List) :
          /\ q = List[j] /\ q \in Slots /\ b.location = l2 /\ l2 \in Places /\ l2 # 0
          /\ j \in Blinkers!Newest(Seen(blink_array, List))
    BY <2>1, FindIs
  <2> HIDE DEF p, q
  <2>5. /\ a \in Record /\ b \in Record /\ r \in Record
        /\ r.location = b.location /\ r.next = b.next
        /\ InSlot(r) = Blinkers!InRhythm(InSlot(b), InSlot(a))
    <3>1. a \in Record /\ b \in Record
      BY <2>2, <2>3, <2>4 DEF LibType
    <3> HIDE DEF a, b
    <3>2. r \in Record /\ r.location = b.location /\ r.next = b.next
      BY <3>1 DEF Record
    <3>3. InSlot(r) = Blinkers!InRhythm(InSlot(b), InSlot(a))
      <4>1. /\ r.location = b.location /\ r.on_char = b.on_char /\ r.off_char = b.off_char
            /\ r.on_length = a.on_length /\ r.off_length = a.off_length
            /\ r.countdown = a.countdown /\ r.status = a.status
        BY <3>1 DEF Record
      <4> HIDE DEF r
      <4> PICK on : on = (a.status = 1)
        OBVIOUS
      <4> PICK was : was = (b.status = 1)
        OBVIOUS
      <4>2. InSlot(r) = Blinker(b.location, b.on_char, b.off_char, on,
                                <<Lasts(a.on_length), Lasts(a.off_length)>>, Lasts(a.countdown))
        BY <4>1 DEF InSlot, Blinker
      <4>3. InSlot(a) = Blinker(a.location, a.on_char, a.off_char, on,
                                <<Lasts(a.on_length), Lasts(a.off_length)>>, Lasts(a.countdown))
        BY DEF InSlot, Blinker
      <4>4. InSlot(b) = Blinker(b.location, b.on_char, b.off_char, was,
                                <<Lasts(b.on_length), Lasts(b.off_length)>>, Lasts(b.countdown))
        BY DEF InSlot, Blinker
      <4> QED BY <4>2, <4>3, <4>4, RhythmIs
    <3> QED BY <3>1, <3>2, <3>3
  <2> HIDE DEF a, b, r
  <2>6. /\ blink_array' \in [Slots -> Record] /\ blink_array'[q] = r
        /\ \A x \in Slots : x # q => blink_array'[x] = blink_array[x]
    BY <2>1, <2>2, <2>4, <2>5 DEF LibType
  <2>7. screen' = [screen EXCEPT ![l2] = b.off_char] /\ drawn' = [drawn EXCEPT ![l2] = NULL]
    BY <2>1, <2>4, <2>5, <2>6 DEF mp1_poke
  <2>8. LibType'
    <3>1. b.off_char \in Pictures
      BY <2>5 DEF Record
    <3> QED BY <2>1, <2>2, <2>4, <2>6, <2>7, <3>1 DEF LibType
  <2> PICK list : list = List
    OBVIOUS
  <2> PICK new : new = blink_array'
    OBVIOUS
  <2>9. Holds(new, mp1_list_head, list)
    <3>1. \A x \in Slots : new[x].next = blink_array[x].next /\ new[x].location = blink_array[x].location
      BY <2>5, <2>6 DEF b
    <3>2. Holds(blink_array, mp1_list_head, list)
      BY <2>2 DEF Listed
    <3> QED BY <3>1, <3>2, KeepList
  <2>10. Listed(list)'
    BY <2>1, <2>9 DEF Listed
  <2>11. ListHoldsUsed' /\ List' = list
    <3>1. ListHoldsUsed'
      BY <2>10, ListSufficesNext
    <3> QED BY <2>10, <3>1, HasListNext
  <2>12. drawn'[0] = NULL
    BY <2>2, <2>4, <2>7, Bounds DEF LibType
  <2>13. DrawnAsMarked'
    <3> SUFFICES ASSUME NEW x \in Places, drawn'[x] # NULL, blink_array'[drawn'[x]].location = x
                 PROVE  screen'[x] = IF blink_array'[drawn'[x]].status = 1
                                     THEN blink_array'[drawn'[x]].on_char
                                     ELSE blink_array'[drawn'[x]].off_char
      BY DEF DrawnAsMarked
    <3>1. x # l2
      BY <2>2, <2>4, <2>7 DEF LibType
    <3>2. drawn'[x] = drawn[x] /\ screen'[x] = screen[x] /\ drawn[x] \in Slots
      BY <2>2, <2>7, <3>1 DEF LibType
    <3>3. drawn[x] # q
      BY <2>4, <2>5, <2>6, <3>1, <3>2
    <3>4. blink_array'[drawn[x]] = blink_array[drawn[x]]
      BY <2>6, <3>2, <3>3
    <3> QED BY <2>2, <3>2, <3>4 DEF DrawnAsMarked
  <2>14. LibInv'
    BY <2>8, <2>11, <2>12, <2>13 DEF LibInv
  <2>15. Seen(new, list) = [Seen(blink_array, list) EXCEPT ![j] =
                              Blinkers!InRhythm(Seen(blink_array, list)[j], Seen(blink_array, list)[i])]
    <3> DEFINE n == Len(list)
               s == Seen(blink_array, list)
    <3>1. /\ n \in Nat /\ DOMAIN list = 1..n /\ i \in 1..n /\ j \in 1..n /\ list[i] = p /\ list[j] = q
          /\ \A x, y \in 1..n : list[x] = list[y] => x = y
          /\ \A x \in 1..n : list[x] \in Slots
      <4>1. list \in Lists
        BY <2>2 DEF Listed, Holds
      <4>2. /\ n \in Nat /\ DOMAIN list = 1..n /\ IsInjective(list)
            /\ \A x \in 1..n : list[x] \in Slots
        BY <4>1, ListForm, BlinkAssumption
      <4>3. \A x, y \in 1..n : list[x] = list[y] => x = y
        BY <4>2 DEF IsInjective
      <4> QED BY <2>3, <2>4, <4>2, <4>3
    <3> HIDE DEF n
    <3>2. s = [x \in 1..n |-> InSlot(blink_array[list[x]])]
      BY <3>1 DEF Seen
    <3>3. Seen(new, list) = [x \in 1..n |-> InSlot(new[list[x]])]
      BY <3>1 DEF Seen
    <3>4. s[j] = InSlot(b) /\ s[i] = InSlot(a)
      BY <3>1, <3>2 DEF a, b
    <3> HIDE DEF s
    <3>5. [s EXCEPT ![j] = InSlot(r)] = [x \in 1..n |-> IF x = j THEN InSlot(r) ELSE InSlot(blink_array[list[x]])]
      BY <3>1, <3>2
    <3>6. \A x \in 1..n : InSlot(new[list[x]]) = IF x = j THEN InSlot(r) ELSE InSlot(blink_array[list[x]])
      <4> SUFFICES ASSUME NEW x \in 1..n
                   PROVE  InSlot(new[list[x]]) = IF x = j THEN InSlot(r) ELSE InSlot(blink_array[list[x]])
        OBVIOUS
      <4>1. CASE x = j
        BY <2>6, <3>1, <4>1
      <4>2. CASE x # j
        <5>1. list[x] # q /\ list[x] \in Slots
          BY <3>1, <4>2
        <5>2. new[list[x]] = blink_array[list[x]]
          BY <2>6, <5>1
        <5> QED BY <4>2, <5>2
      <4> QED BY <4>1, <4>2
    <3>7. Seen(new, list) = [s EXCEPT ![j] = InSlot(r)]
      BY <3>3, <3>5, <3>6
    <3> QED BY <2>5, <3>4, <3>7 DEF s
  <2> QED BY <2>3, <2>4, <2>11, <2>14, <2>15
<1> QED BY <1>1, <1>2


(* A countdown in words is a number of ticks.                              *)
LEMMA WordsLast ==
  ASSUME NEW n \in Words
  PROVE  /\ Decremented(n) \in Words /\ Lasts(n) \in Nat
         /\ IsPositive(Decremented(n)) => Lasts(n) > 1 /\ Lasts(Decremented(n)) = Lasts(n) - 1
         /\ ~IsPositive(Decremented(n)) => ~(Lasts(n) > 1)
<1>1. Word \in Nat /\ Word >= 2 /\ Word % 2 = 0
  BY BlinkAssumption
<1>2. PICK half \in Nat : half = Word \div 2 /\ Word = 2 * half /\ half >= 1
  BY <1>1
<1>3. n \in Nat /\ n < Word
  BY <1>1 DEF Words
<1>4. Decremented(n) = IF n = 0 THEN Word - 1 ELSE n - 1
  <2>1. CASE n = 0
    <3>1. (-1) % Word = Word - 1
      BY <1>1
    <3> QED BY <2>1, <3>1 DEF Decremented
  <2>2. CASE n # 0
    <3>1. n - 1 \in 0..(Word - 1)
      BY <1>1, <1>3, <2>2
    <3>2. (n - 1) % Word = n - 1
      BY <1>1, <3>1
    <3> QED BY <2>2, <3>2 DEF Decremented
  <2> QED BY <2>1, <2>2
<1>5. \A k : Lasts(k) = IF k \in 1..half THEN k ELSE 1
  BY <1>2 DEF Lasts
<1>6. \A k : IsPositive(k) <=> k \in 1..(half - 1)
  BY <1>2 DEF IsPositive
<1> DEFINE m == Decremented(n)
<1> HIDE DEF m
<1>7. m = IF n = 0 THEN Word - 1 ELSE n - 1
  BY <1>4 DEF m
<1>8. m \in Words /\ Lasts(n) \in Nat
  BY <1>1, <1>3, <1>5, <1>7 DEF Words
<1>9. IsPositive(m) => Lasts(n) > 1 /\ Lasts(m) = Lasts(n) - 1
  BY <1>2, <1>3, <1>5, <1>6, <1>7
<1>10. ~IsPositive(m) => ~(Lasts(n) > 1)
  BY <1>2, <1>3, <1>5, <1>6, <1>7
<1> QED BY <1>8, <1>9, <1>10 DEF m

(* The tick of a slot is that of the blinker in it.                        *)
LEMMA TickedIs ==
  ASSUME NEW r \in Record
  PROVE  /\ Ticked(r) \in Record
         /\ Ticked(r).location = r.location /\ Ticked(r).next = r.next
         /\ Ticked(r).on_char = r.on_char /\ Ticked(r).off_char = r.off_char
         /\ Ticked(r).status = IF TurnsOver(r) THEN 1 - r.status ELSE r.status
         /\ InSlot(Ticked(r)) = Blinkers!Ticked(InSlot(r))
<1> DEFINE t == Ticked(r)
           n == r.countdown
           p == Lasts(r.on_length)
           q == Lasts(r.off_length)
<1>1. n \in Words /\ r.status \in {0, 1} /\ r.on_length \in Words /\ r.off_length \in Words
  BY DEF Record
<1>2. /\ Decremented(n) \in Words /\ Lasts(n) \in Nat
      /\ ~TurnsOver(r) => Lasts(n) > 1 /\ Lasts(Decremented(n)) = Lasts(n) - 1
      /\ TurnsOver(r) => ~(Lasts(n) > 1)
  BY <1>1, WordsLast DEF TurnsOver
<1> PICK on \in BOOLEAN : on = (r.status = 1)
  OBVIOUS
<1>3. /\ t \in Record
      /\ t.location = r.location /\ t.next = r.next
      /\ t.on_char = r.on_char /\ t.off_char = r.off_char
      /\ t.on_length = r.on_length /\ t.off_length = r.off_length
      /\ t.status = IF TurnsOver(r) THEN 1 - r.status ELSE r.status
      /\ t.countdown = IF ~TurnsOver(r) THEN Decremented(n)
                       ELSE IF r.status = 1 THEN r.off_length ELSE r.on_length
  <2>1. CASE TurnsOver(r)
    <3> DEFINE new == IF r.status = 1 THEN r.off_length ELSE r.on_length
    <3>1. t = [r EXCEPT !.status = 1 - r.status, !.countdown = new]
      BY <2>1 DEF Ticked
    <3>2. 1 - r.status \in {0, 1} /\ new \in Words
      BY <1>1
    <3> HIDE DEF t, new
    <3>3. /\ t \in Record
          /\ t.location = r.location /\ t.next = r.next
          /\ t.on_char = r.on_char /\ t.off_char = r.off_char
          /\ t.on_length = r.on_length /\ t.off_length = r.off_length
          /\ t.status = 1 - r.status /\ t.countdown = new
      BY <3>1, <3>2 DEF Record
    <3> QED BY <2>1, <3>3 DEF new
  <2>2. CASE ~TurnsOver(r)
    <3>1. t = [r EXCEPT !.countdown = Decremented(n)]
      BY <2>2 DEF Ticked
    <3> HIDE DEF t
    <3>2. /\ t \in Record
          /\ t.location = r.location /\ t.next = r.next
          /\ t.on_char = r.on_char /\ t.off_char = r.off_char
          /\ t.on_length = r.on_length /\ t.off_length = r.off_length
          /\ t.status = r.status /\ t.countdown = Decremented(n)
      BY <1>2, <3>1 DEF Record
    <3> QED BY <2>2, <3>2
  <2> QED BY <2>1, <2>2
<1>4. InSlot(r) = Blinker(r.location, r.on_char, r.off_char, on, <<p, q>>, Lasts(n))
  BY DEF InSlot, Blinker
<1>5. ASSUME NEW off, off = ~on, NEW new, new = IF on THEN q ELSE p
      PROVE  /\ Lasts(n) > 1 => Blinkers!Ticked(InSlot(r)) =
                  Blinker(r.location, r.on_char, r.off_char, on, <<p, q>>, Lasts(n) - 1)
             /\ ~(Lasts(n) > 1) => Blinkers!Ticked(InSlot(r)) =
                  Blinker(r.location, r.on_char, r.off_char, off, <<p, q>>, new)
  <2> HIDE DEF n, p, q
  <2> PICK b : b = InSlot(r)
    OBVIOUS
  <2>1. b = Blinker(r.location, r.on_char, r.off_char, on, <<p, q>>, Lasts(n))
    BY <1>4
  <2> PICK place : place = r.location
    OBVIOUS
  <2> PICK x : x = r.on_char
    OBVIOUS
  <2> PICK y : y = r.off_char
    OBVIOUS
  <2> PICK left : left = Lasts(n)
    OBVIOUS
  <2>2. b = Blinker(place, x, y, on, <<p, q>>, left)
    BY <2>1
  <2>3. b.left = left /\ b.lasts[1] = p /\ b.lasts[2] = q
    BY <2>2 DEF Blinker
  <2>4. b.on = on
    BY <2>2 DEF Blinker
  <2>5. CASE left > 1
    <3>1. [b EXCEPT !.left = left - 1] = Blinker(place, x, y, on, <<p, q>>, left - 1)
      BY <2>2 DEF Blinker
    <3>2. Blinkers!Ticked(b) = [b EXCEPT !.left = left - 1]
      BY <2>3, <2>5 DEF Blinkers!Ticked
    <3> QED BY <2>5, <3>1, <3>2
  <2>6. CASE ~(left > 1)
    <3> DEFINE b1 == [b EXCEPT !.on = off]
               b2 == [b1 EXCEPT !.left = new]
    <3>1. b1 = Blinker(place, x, y, off, <<p, q>>, left)
      BY <2>2 DEF Blinker
    <3>2. [b EXCEPT !.on = off, !.left = new] = b2
      OBVIOUS
    <3> HIDE DEF b1
    <3>3. b2 = Blinker(place, x, y, off, <<p, q>>, new)
      BY <3>1 DEF Blinker
    <3> HIDE DEF b2
    <3>4. Blinkers!Ticked(b) = [b EXCEPT !.on = ~@, !.left = IF b.on THEN b.lasts[2] ELSE b.lasts[1]]
      BY <2>3, <2>6 DEF Blinkers!Ticked
    <3>5. [b EXCEPT !.on = ~@, !.left = IF b.on THEN b.lasts[2] ELSE b.lasts[1]]
            = [b EXCEPT !.on = off, !.left = new]
      <4>1. (~b.on) = off
        BY <1>5, <2>4
      <4>2. (IF b.on THEN b.lasts[2] ELSE b.lasts[1]) = new
        BY <1>5, <2>3, <2>4
      <4> QED BY <4>1, <4>2, Zenon
    <3> QED BY <2>6, <3>2, <3>3, <3>4, <3>5
  <2> QED BY <2>5, <2>6
<1> PICK now \in BOOLEAN : now = (t.status = 1)
  OBVIOUS
<1> HIDE DEF t
<1>6. InSlot(t) = Blinker(r.location, r.on_char, r.off_char, now, <<p, q>>, Lasts(t.countdown))
  BY <1>3 DEF InSlot, Blinker
<1>7. InSlot(t) = Blinkers!Ticked(InSlot(r))
  <2> PICK off : off = ~on
    OBVIOUS
  <2> PICK new : new = IF on THEN q ELSE p
    OBVIOUS
  <2>1. /\ Lasts(n) > 1 => Blinkers!Ticked(InSlot(r)) =
             Blinker(r.location, r.on_char, r.off_char, on, <<p, q>>, Lasts(n) - 1)
        /\ ~(Lasts(n) > 1) => Blinkers!Ticked(InSlot(r)) =
             Blinker(r.location, r.on_char, r.off_char, off, <<p, q>>, new)
    BY <1>5
  <2>2. CASE TurnsOver(r)
    <3>1. now = off
      <4>1. t.status = 1 <=> r.status # 1
        BY <1>1, <1>3, <2>2
      <4>2. now <=> ~on
        BY <4>1
      <4> QED BY <4>2, Zenon
    <3>2. Lasts(t.countdown) = new
      BY <1>1, <1>3, <2>2
    <3> HIDE DEF n, p, q
    <3> QED BY <1>2, <1>6, <2>1, <2>2, <3>1, <3>2
  <2>3. CASE ~TurnsOver(r)
    <3>1. now = on
      BY <1>3, <2>3
    <3>2. Lasts(t.countdown) = Lasts(n) - 1
      BY <1>2, <1>3, <2>3
    <3> HIDE DEF n, p, q
    <3> QED BY <1>2, <1>6, <2>1, <2>3, <3>1, <3>2
  <2> QED BY <2>2, <2>3
<1> QED BY <1>3, <1>7 DEF t


(* A tick reaches every blinker of the list once.                          *)
LEMMA TickStep ==
  ASSUME LibInv, mp1_rtc_tasklet
  PROVE  LibInv' /\ Seen(blink_array', List') = Blinkers!TickedAll(Seen(blink_array, List))
<1> PICK list : list = List
  OBVIOUS
<1> PICK new : new = blink_array'
  OBVIOUS
<1> DEFINE n == Len(list)
           turning(l) == {i \in At(list, l) : TurnsOver(blink_array[list[i]])}
           last(l) == list[Max(turning(l))]
           b(l) == blink_array[last(l)]
<1>1. /\ new = [p \in Slots |-> IF p \in ToSet(list) THEN Ticked(blink_array[p]) ELSE blink_array[p]]
      /\ screen' = [l \in Places |-> IF turning(l) = {} THEN screen[l]
                                     ELSE IF b(l).status = 1 THEN b(l).off_char ELSE b(l).on_char]
      /\ drawn' = [l \in Places |-> IF turning(l) = {} THEN drawn[l] ELSE last(l)]
      /\ mp1_list_head' = mp1_list_head
  BY DEF mp1_rtc_tasklet
<1>2. LibType /\ Listed(list) /\ drawn[0] = NULL /\ DrawnAsMarked
  BY HasList DEF LibInv
<1>3. /\ list \in Lists /\ n \in Nat /\ DOMAIN list = 1..n
      /\ \A i \in 1..n : list[i] \in Slots /\ blink_array[list[i]] \in Record
      /\ ToSet(list) = Used(blink_array)
  BY <1>2, ListForm, BlinkAssumption DEF Listed, Holds, LibType
<1>4. ASSUME NEW p \in Slots
      PROVE  /\ p \in ToSet(list) => new[p] = Ticked(blink_array[p])
             /\ p \notin ToSet(list) => new[p] = blink_array[p]
             /\ new[p] \in Record
             /\ new[p].location = blink_array[p].location /\ new[p].next = blink_array[p].next
             /\ new[p].on_char = blink_array[p].on_char /\ new[p].off_char = blink_array[p].off_char
             /\ new[p].status = IF p \in ToSet(list) /\ TurnsOver(blink_array[p])
                                THEN 1 - blink_array[p].status ELSE blink_array[p].status
  <2>1. blink_array[p] \in Record
    BY <1>2 DEF LibType
  <2>2. CASE p \in ToSet(list)
    <3>1. new[p] = Ticked(blink_array[p])
      BY <1>1, <2>2
    <3> QED BY <2>1, <2>2, <3>1, TickedIs
  <2>3. CASE p \notin ToSet(list)
    <3>1. new[p] = blink_array[p]
      BY <1>1, <2>3
    <3> QED BY <2>1, <2>3, <3>1
  <2> QED BY <2>2, <2>3
<1>5. ASSUME NEW l \in Places, turning(l) # {}
      PROVE  /\ last(l) \in Slots /\ last(l) \in ToSet(list)
             /\ b(l).location = l /\ TurnsOver(b(l)) /\ l # 0
  <2>1. turning(l) \subseteq 1..n
    BY <1>3 DEF At
  <2>2. Max(turning(l)) \in turning(l)
    <3> HIDE DEF turning, n
    <3> QED BY <1>3, <1>5, <2>1, MaxIs
  <2>3. PICK i \in 1..n : last(l) = list[i] /\ blink_array[list[i]].location = l
                          /\ TurnsOver(blink_array[list[i]])
    BY <2>1, <2>2 DEF At
  <2>4. list[i] \in ToSet(list) /\ list[i] \in Slots
    BY <1>3, <2>3 DEF ToSet
  <2>5. blink_array[list[i]].location # 0
    BY <1>3, <2>4 DEF Used
  <2> HIDE DEF last
  <2> QED BY <2>3, <2>4, <2>5
<1>6. ASSUME NEW p \in ToSet(list), TurnsOver(blink_array[p])
      PROVE  turning(blink_array[p].location) # {}
  <2>1. PICK i \in 1..n : p = list[i]
    BY <1>3 DEF ToSet
  <2>2. i \in turning(blink_array[p].location)
    BY <1>3, <1>6, <2>1 DEF At
  <2> QED BY <2>2
<1>7. ASSUME NEW l \in Places
      PROVE  /\ turning(l) = {} => screen'[l] = screen[l] /\ drawn'[l] = drawn[l]
             /\ turning(l) # {} =>
                  /\ screen'[l] = IF b(l).status = 1 THEN b(l).off_char ELSE b(l).on_char
                  /\ drawn'[l] = last(l)
  <2> HIDE DEF turning, last, b
  <2> QED BY <1>1
<1> HIDE DEF turning, last, n
<1>8. LibType'
  <2>1. new \in [Slots -> Record]
    BY <1>1, <1>4
  <2>2. screen' \in [Places -> Pictures]
    <3>1. ASSUME NEW l \in Places PROVE screen'[l] \in Pictures
      <4>1. CASE turning(l) = {}
        BY <1>2, <1>7, <4>1 DEF LibType
      <4>2. CASE turning(l) # {}
        <5>1. b(l) \in Record
          BY <1>2, <1>5, <4>2 DEF LibType
        <5> HIDE DEF b
        <5>2. b(l).off_char \in Pictures /\ b(l).on_char \in Pictures
          BY <5>1 DEF Record
        <5> QED BY <1>7, <4>2, <5>2
      <4> QED BY <4>1, <4>2
    <3>2. screen' = [l \in Places |-> screen'[l]]
      BY <1>1
    <3> QED BY <3>1, <3>2
  <2>3. drawn' \in [Places -> Slots \cup {NULL}]
    <3>1. ASSUME NEW l \in Places PROVE drawn'[l] \in Slots \cup {NULL}
      BY <1>2, <1>5, <1>7 DEF LibType
    <3>2. drawn' = [l \in Places |-> drawn'[l]]
      BY <1>1
    <3> QED BY <3>1, <3>2
  <2> QED BY <1>1, <1>2, <2>1, <2>2, <2>3 DEF LibType
<1>9. Holds(new, mp1_list_head, list)
  <2>1. Holds(blink_array, mp1_list_head, list)
    BY <1>2 DEF Listed
  <2> QED BY <1>4, <2>1, KeepList
<1>10. Listed(list)'
  BY <1>1, <1>9 DEF Listed
<1>11. ListHoldsUsed' /\ List' = list
  <2>1. ListHoldsUsed'
    BY <1>10, ListSufficesNext
  <2> QED BY <1>10, <2>1, HasListNext
<1>12. drawn'[0] = NULL
  BY <1>2, <1>5, <1>7, Bounds
<1>13. DrawnAsMarked'
  <2> SUFFICES ASSUME NEW x \in Places, drawn'[x] # NULL, new[drawn'[x]].location = x
               PROVE  screen'[x] = IF new[drawn'[x]].status = 1
                                   THEN new[drawn'[x]].on_char ELSE new[drawn'[x]].off_char
    BY DEF DrawnAsMarked
  <2>1. CASE turning(x) = {}
    <3>1. drawn'[x] = drawn[x] /\ screen'[x] = screen[x] /\ drawn[x] \in Slots
      BY <1>2, <1>7, <2>1 DEF LibType
    <3>2. blink_array[drawn[x]].location = x
      BY <1>4, <3>1
    <3>3. ~(drawn[x] \in ToSet(list) /\ TurnsOver(blink_array[drawn[x]]))
      BY <1>6, <2>1, <3>2
    <3>4. new[drawn[x]].status = blink_array[drawn[x]].status
      BY <1>4, <3>1, <3>3
    <3> QED BY <1>2, <1>4, <3>1, <3>2, <3>4 DEF DrawnAsMarked
  <2>2. CASE turning(x) # {}
    <3>1. drawn'[x] = last(x) /\ last(x) \in Slots /\ last(x) \in ToSet(list) /\ TurnsOver(b(x))
      BY <1>5, <1>7, <2>2
    <3>2. /\ new[last(x)].status = 1 - b(x).status
          /\ new[last(x)].on_char = b(x).on_char /\ new[last(x)].off_char = b(x).off_char
      BY <1>4, <3>1
    <3>3. b(x).status \in {0, 1}
      BY <1>2, <3>1 DEF LibType, Record
    <3>4. screen'[x] = IF b(x).status = 1 THEN b(x).off_char ELSE b(x).on_char
      BY <1>7, <2>2
    <3> HIDE DEF b
    <3> QED BY <3>1, <3>2, <3>3, <3>4
  <2> QED BY <2>1, <2>2
<1>14. LibInv'
  BY <1>8, <1>11, <1>12, <1>13 DEF LibInv
<1>15. Seen(new, list) = Blinkers!TickedAll(Seen(blink_array, list))
  <2> DEFINE s == Seen(blink_array, list)
  <2>1. DOMAIN s = 1..n /\ \A i \in 1..n : s[i] = InSlot(blink_array[list[i]])
    BY <1>3, SeenForm DEF n
  <2>2. Seen(new, list) = [i \in 1..n |-> InSlot(new[list[i]])]
    BY <1>3 DEF Seen
  <2> HIDE DEF s
  <2>3. Blinkers!TickedAll(s) = [i \in 1..n |-> Blinkers!Ticked(s[i])]
    BY <2>1 DEF Blinkers!TickedAll
  <2>4. \A i \in 1..n : InSlot(new[list[i]]) = Blinkers!Ticked(s[i])
    <3> SUFFICES ASSUME NEW i \in 1..n PROVE InSlot(new[list[i]]) = Blinkers!Ticked(s[i])
      OBVIOUS
    <3>1. list[i] \in ToSet(list) /\ list[i] \in Slots
      BY <1>3 DEF ToSet
    <3>2. new[list[i]] = Ticked(blink_array[list[i]])
      BY <1>4, <3>1
    <3> QED BY <1>3, <2>1, <3>2, TickedIs
  <2>5. [i \in 1..n |-> InSlot(new[list[i]])] = [i \in 1..n |-> Blinkers!Ticked(s[i])]
    BY ONLY <2>4
  <2>6. Seen(new, list) = Blinkers!TickedAll(s)
    BY ONLY <2>2, <2>3, <2>5
  <2> QED BY <2>6 DEF s
<1> QED BY <1>11, <1>14, <1>15


-----------------------------------------------------------------------------
(* Where a character of a text is                                          *)

\* Row r and column k are read before row s and column m.
Precedes(r, k, s, m) == r < s \/ (r = s /\ k < m)

(* Rows and columns are numbers, and a row begins after the last end of line. *)
LEMMA PlaceType ==
  ASSUME NEW t, NEW i \in Nat \ {0}
  PROVE  /\ IsFiniteSet(Breaks(t, i)) /\ RowOf(t, i) \in Nat /\ ColOf(t, i) \in Nat
         /\ LastBreak(t, i) \in 0..(i - 1) /\ LastBreak(t, i) \in {0} \cup Breaks(t, i)
         /\ \A j \in Breaks(t, i) : j <= LastBreak(t, i)
<1>1. IsFiniteSet(Breaks(t, i))
  <2>1. IsFiniteSet(1..(i - 1))
    BY FS_Interval
  <2> QED BY <2>1, FS_Subset DEF Breaks
<1>2. RowOf(t, i) \in Nat
  BY <1>1, FS_CardinalityType DEF RowOf
<1> DEFINE B == {0} \cup Breaks(t, i)
<1>3. B \subseteq 0..(i - 1) /\ B # {}
  BY DEF Breaks
<1>4. PICK m \in B : \A j \in B : m >= j
  <2> DEFINE T == {i - j : j \in B}
  <2>1. T \subseteq Nat /\ T # {}
    BY <1>3
  <2>2. PICK k \in T : \A j \in T : k <= j
    <3> HIDE DEF T
    <3> QED BY <2>1, LeastNat
  <2>3. PICK m \in B : k = i - m
    BY <2>2
  <2>4. ASSUME NEW j \in B PROVE m >= j
    <3>1. i - j \in T
      OBVIOUS
    <3>2. k <= i - j
      <4> HIDE DEF T
      <4> QED BY <2>2, <3>1
    <3>3. i \in Int /\ j \in Int /\ m \in Int
      BY <1>3
    <3> HIDE DEF B, T
    <3> QED BY <2>3, <3>2, <3>3
  <2> QED BY <2>4
<1>5. Max(B) \in B /\ \A j \in B : Max(B) >= j
  BY <1>4 DEF Max
<1>6. LastBreak(t, i) \in B /\ \A j \in B : LastBreak(t, i) >= j
  BY <1>5 DEF LastBreak
<1>7. LastBreak(t, i) \in 0..(i - 1) /\ \A j \in B : j <= LastBreak(t, i)
  <2> PICK last : last = LastBreak(t, i)
    OBVIOUS
  <2> HIDE DEF B
  <2>1. last \in 0..(i - 1) /\ \A j \in B : j \in 0..(i - 1) /\ last >= j
    BY <1>3, <1>6
  <2> QED BY <2>1
<1> HIDE DEF B
<1>8. ColOf(t, i) \in Nat
  BY <1>7 DEF ColOf
<1> QED BY <1>1, <1>2, <1>6, <1>7, <1>8 DEF B

(* A text begins in row and column 0.                                      *)
LEMMA FirstPlace ==
  ASSUME NEW t
  PROVE  RowOf(t, 1) = 0 /\ ColOf(t, 1) = 0
<1>1. Breaks(t, 1) = {}
  BY DEF Breaks
<1>2. LastBreak(t, 1) = 0
  BY PlaceType, <1>1
<1> QED BY <1>1, <1>2, FS_EmptySet DEF RowOf, ColOf

(* After an end of line comes the next row, and after a character the next *)
(* column.                                                                 *)
LEMMA NextPlace ==
  ASSUME NEW t, NEW i \in Nat \ {0}
  PROVE  /\ RowOf(t, i + 1) = IF t[i] = NL THEN RowOf(t, i) + 1 ELSE RowOf(t, i)
         /\ ColOf(t, i + 1) = IF t[i] = NL THEN 0 ELSE ColOf(t, i) + 1
<1>1. i + 1 \in Nat \ {0} /\ (i + 1) - 1 = i /\ i \notin 1..(i - 1)
  OBVIOUS
<1>2. i \in 1..i /\ 1..i = 1..(i - 1) \cup {i}
  OBVIOUS
<1>3. CASE t[i] = NL
  <2>1. Breaks(t, i + 1) = Breaks(t, i) \cup {i} /\ i \notin Breaks(t, i)
    BY <1>1, <1>2, <1>3 DEF Breaks
  <2>2. RowOf(t, i + 1) = RowOf(t, i) + 1
    BY <2>1, PlaceType, FS_AddElement DEF RowOf
  <2>3. LastBreak(t, i + 1) \in 0..i /\ i <= LastBreak(t, i + 1)
    BY <1>1, <2>1, PlaceType
  <2>4. ColOf(t, i + 1) = 0
    BY <1>1, <2>3 DEF ColOf
  <2> QED BY <1>3, <2>2, <2>4
<1>4. CASE t[i] # NL
  <2>1. Breaks(t, i + 1) = Breaks(t, i)
    BY <1>1, <1>2, <1>4 DEF Breaks
  <2>2. LastBreak(t, i + 1) = LastBreak(t, i)
    BY <2>1 DEF LastBreak
  <2>3. LastBreak(t, i) \in Int
    BY PlaceType
  <2>4. ColOf(t, i + 1) = ColOf(t, i) + 1
    BY <1>1, <2>2, <2>3 DEF ColOf
  <2> QED BY <1>4, <2>1, <2>4 DEF RowOf
<1> QED BY <1>3, <1>4

(* So what comes later in a text is at a later place.                      *)
LEMMA PlacesAscend ==
  ASSUME NEW t, NEW i \in Nat \ {0}, NEW j \in Nat \ {0}, i < j
  PROVE  Precedes(RowOf(t, i), ColOf(t, i), RowOf(t, j), ColOf(t, j))
<1>1. Breaks(t, i) \subseteq Breaks(t, j)
  BY DEF Breaks
<1>2. /\ RowOf(t, i) <= RowOf(t, j)
      /\ RowOf(t, i) = RowOf(t, j) => Breaks(t, i) = Breaks(t, j)
  BY <1>1, PlaceType, FS_Subset DEF RowOf
<1>3. RowOf(t, i) \in Nat /\ RowOf(t, j) \in Nat /\ LastBreak(t, i) \in Int
  BY PlaceType
<1>4. CASE RowOf(t, i) = RowOf(t, j)
  <2>1. LastBreak(t, i) = LastBreak(t, j)
    BY <1>2, <1>4 DEF LastBreak
  <2>2. ColOf(t, i) < ColOf(t, j)
    BY <1>3, <2>1 DEF ColOf
  <2> QED BY <1>4, <2>2 DEF Precedes
<1>5. CASE RowOf(t, i) # RowOf(t, j)
  BY <1>2, <1>3, <1>5 DEF Precedes
<1> QED BY <1>4, <1>5

(* At a place there is one character.                                      *)
LEMMA OneAtPlace ==
  ASSUME NEW t, NEW i \in Nat \ {0}, NEW j \in Nat \ {0},
         RowOf(t, i) = RowOf(t, j), ColOf(t, i) = ColOf(t, j)
  PROVE  i = j
<1>1. /\ RowOf(t, i) \in Nat /\ ColOf(t, i) \in Nat
      /\ RowOf(t, j) \in Nat /\ ColOf(t, j) \in Nat
  BY PlaceType
<1>2. ~(i < j)
  BY <1>1, PlacesAscend DEF Precedes
<1>3. ~(j < i)
  BY <1>1, PlacesAscend DEF Precedes
<1> QED BY <1>2, <1>3

(* CharAt finds it.                                                        *)
LEMMA CharAtIs ==
  ASSUME NEW t \in Seq(Chars), NEW r, NEW k
  PROVE  /\ \A i \in 1..Len(t) : /\ t[i] # NL /\ RowOf(t, i) = r /\ ColOf(t, i) = k
                                => CharAt(t, r, k) = t[i]
         /\ \/ CharAt(t, r, k) = Space
            \/ \E i \in 1..Len(t) : /\ t[i] # NL /\ RowOf(t, i) = r /\ ColOf(t, i) = k
                                    /\ CharAt(t, r, k) = t[i]
<1> DEFINE at == {i \in DOMAIN t : t[i] # NL /\ RowOf(t, i) = r /\ ColOf(t, i) = k}
<1>1. CharAt(t, r, k) = IF at = {} THEN Space ELSE t[CHOOSE i \in at : TRUE]
  BY DEF CharAt, RowOf, ColOf, LastBreak, Breaks
<1>2. DOMAIN t = 1..Len(t) /\ Len(t) \in Nat
  BY LenProperties
<1>3. ASSUME NEW i \in at PROVE CharAt(t, r, k) = t[i]
  <2> PICK n : n = CHOOSE j \in at : TRUE
    OBVIOUS
  <2>1. n \in at
    OBVIOUS
  <2>2. n = i
    <3>1. n \in Nat \ {0} /\ i \in Nat \ {0}
      BY <1>2, <2>1
    <3> QED BY <2>1, <3>1, OneAtPlace
  <2> HIDE DEF at
  <2> QED BY <1>1, <1>3, <2>2
<1>4. CASE at = {}
  BY <1>1, <1>2, <1>4
<1>5. CASE at # {}
  BY <1>2, <1>3, <1>5
<1> QED BY <1>4, <1>5

(* In lines that fit, a character is within the width.                     *)
LEMMA WithinWidth ==
  ASSUME NEW t \in Seq(Chars), NEW width \in Nat,
         \A i, j \in DOMAIN t : j - i >= width => \E n \in i..j : t[n] = NL,
         NEW i \in 1..Len(t), t[i] # NL
  PROVE  ColOf(t, i) < width
<1>1. DOMAIN t = 1..Len(t) /\ Len(t) \in Nat /\ i \in Nat \ {0}
  BY LenProperties
<1> PICK m : m = LastBreak(t, i)
  OBVIOUS
<1>2. m \in 0..(i - 1) /\ (\A j \in Breaks(t, i) : j <= m) /\ ColOf(t, i) = i - 1 - m
  BY <1>1, PlaceType DEF ColOf
<1>3. ASSUME NEW n \in (m + 1)..i PROVE t[n] # NL
  <2>1. CASE n = i
    BY <2>1
  <2>2. CASE n # i
    <3>1. n \in 1..(i - 1) /\ ~(n <= m)
      BY <1>1, <1>2, <2>2
    <3> QED BY <1>2, <3>1 DEF Breaks
  <2> QED BY <2>1, <2>2
<1>4. m + 1 \in DOMAIN t /\ i \in DOMAIN t
  BY <1>1, <1>2
<1>5. ~(i - (m + 1) >= width)
  BY <1>3, <1>4
<1> QED BY <1>1, <1>2, <1>5

-----------------------------------------------------------------------------
(* Reading a text                                                          *)

\* What was read of the text t, up to position p, is before row r and column k.
ReadBefore(t, p, r, k) == \A i \in 1..p : Precedes(RowOf(t, i), ColOf(t, i), r, k)

\* What comes next is there, or begins the next row if the line has ended.
Reading(t, p, char, r, k) ==
  /\ ReadBefore(t, p, r, k)
  /\ RowOf(t, p + 1) = IF char = NL THEN r + 1 ELSE r
  /\ ColOf(t, p + 1) = IF char = NL THEN 0 ELSE k

\* Nothing comes next.
Finished(t, p, char, r, k) == ReadBefore(t, p, r, k) /\ char = NL /\ p = Len(t)

(* Nothing has been read at first.                                         *)
LEMMA ReadNothing ==
  ASSUME NEW t
  PROVE  Reading(t, 0, "0", 0, 0)
BY FirstPlace, BlinkAssumption DEF Reading, ReadBefore

(* A line that has ended has nothing at its place or later.                *)
LEMMA LineIsOver ==
  ASSUME NEW t \in Seq(Chars), NEW p \in 0..Len(t), NEW char, NEW r \in Nat, NEW k \in Nat,
         Reading(t, p, char, r, k) \/ Finished(t, p, char, r, k),
         char = NL \/ p = Len(t) \/ t[p + 1] = NL,
         NEW m \in Nat, m >= k
  PROVE  CharAt(t, r, m) = Space
<1> SUFFICES ASSUME NEW i \in 1..Len(t), t[i] # NL, RowOf(t, i) = r, ColOf(t, i) = m
             PROVE  FALSE
  BY CharAtIs
<1>1. p \in Nat /\ Len(t) \in Nat /\ p + 1 \in Nat \ {0} /\ i \in Nat \ {0}
  BY LenProperties
<1>2. ~(i \in 1..p)
  <2> SUFFICES ASSUME i \in 1..p PROVE FALSE
    OBVIOUS
  <2>1. Precedes(r, m, r, k)
    BY DEF Reading, Finished, ReadBefore
  <2> QED BY <2>1 DEF Precedes
<1>3. p + 1 <= i
  BY <1>1, <1>2
<1>4. CASE Finished(t, p, char, r, k)
  BY <1>1, <1>3, <1>4 DEF Finished
<1>5. CASE Reading(t, p, char, r, k) /\ char = NL
  <2>1. RowOf(t, p + 1) = r + 1
    BY <1>5 DEF Reading
  <2>2. p + 1 < i
    BY <1>1, <1>3, <2>1
  <2>3. Precedes(r + 1, ColOf(t, p + 1), r, m)
    BY <1>1, <2>1, <2>2, PlacesAscend
  <2> QED BY <2>3 DEF Precedes
<1>6. CASE Reading(t, p, char, r, k) /\ char # NL
  <2>1. t[p + 1] = NL /\ RowOf(t, p + 1) = r
    BY <1>1, <1>3, <1>6 DEF Reading
  <2>2. RowOf(t, (p + 1) + 1) = r + 1
    BY <1>1, <2>1, NextPlace
  <2>3. (p + 1) + 1 < i /\ (p + 1) + 1 \in Nat \ {0}
    BY <1>1, <1>3, <2>1, <2>2
  <2>4. Precedes(r + 1, ColOf(t, (p + 1) + 1), r, m)
    BY <1>1, <2>2, <2>3, PlacesAscend
  <2> QED BY <2>4 DEF Precedes
<1> QED BY <1>4, <1>5, <1>6

(* One that goes on has the next character at its place.                   *)
LEMMA LineGoesOn ==
  ASSUME NEW t \in Seq(Chars), NEW p \in 0..Len(t), NEW char, NEW r \in Nat, NEW k \in Nat,
         Reading(t, p, char, r, k), char # NL, p # Len(t), t[p + 1] # NL
  PROVE  /\ CharAt(t, r, k) = t[p + 1] /\ p + 1 \in 1..Len(t)
         /\ RowOf(t, p + 1) = r /\ ColOf(t, p + 1) = k
<1>1. p + 1 \in 1..Len(t)
  BY LenProperties
<1>2. RowOf(t, p + 1) = r /\ ColOf(t, p + 1) = k
  BY DEF Reading
<1> QED BY <1>1, <1>2, CharAtIs

(* What was read stays before the place.                                   *)
LEMMA ReadBeforeStays ==
  ASSUME NEW t, NEW p \in Nat, NEW r \in Nat, NEW k \in Nat, ReadBefore(t, p, r, k)
  PROVE  ReadBefore(t, p, r, k + 1) /\ ReadBefore(t, p, r + 1, 0)
<1> SUFFICES ASSUME NEW i \in 1..p
             PROVE  /\ Precedes(RowOf(t, i), ColOf(t, i), r, k + 1)
                    /\ Precedes(RowOf(t, i), ColOf(t, i), r + 1, 0)
  BY DEF ReadBefore
<1>1. i \in Nat \ {0} /\ Precedes(RowOf(t, i), ColOf(t, i), r, k)
  BY DEF ReadBefore
<1>2. RowOf(t, i) \in Nat /\ ColOf(t, i) \in Nat
  BY <1>1, PlaceType
<1> QED BY <1>1, <1>2 DEF Precedes

(* Reading goes on with the next column, or with the next row.             *)
LEMMA ReadsOn ==
  ASSUME NEW t \in Seq(Chars), NEW p \in 0..Len(t), NEW char, NEW r \in Nat, NEW k \in Nat,
         Reading(t, p, char, r, k), char = NL \/ p # Len(t),
         NEW byte, byte = IF char = NL \/ p = Len(t) THEN NL ELSE t[p + 1],
         NEW after, after = IF char = NL \/ p = Len(t) THEN p ELSE p + 1
  PROVE  /\ Reading(t, after, byte, r, k + 1)
         /\ byte = NL => Reading(t, after, "0", r + 1, 0)
<1>1. p \in Nat /\ Len(t) \in Nat /\ p + 1 \in Nat \ {0} /\ NL # "0"
  BY LenProperties, BlinkAssumption
<1>2. ReadBefore(t, p, r, k + 1) /\ ReadBefore(t, p, r + 1, 0)
  BY <1>1, ReadBeforeStays DEF Reading
<1>3. CASE char = NL
  <2>1. after = p /\ byte = NL /\ RowOf(t, p + 1) = r + 1 /\ ColOf(t, p + 1) = 0
    BY <1>3 DEF Reading
  <2> QED BY <1>1, <1>2, <2>1 DEF Reading
<1>4. CASE char # NL
  <2>1. after = p + 1 /\ byte = t[p + 1] /\ RowOf(t, p + 1) = r /\ ColOf(t, p + 1) = k
    BY <1>4 DEF Reading
  <2>2. /\ RowOf(t, after + 1) = IF byte = NL THEN r + 1 ELSE r
        /\ ColOf(t, after + 1) = IF byte = NL THEN 0 ELSE k + 1
    BY <1>1, <2>1, NextPlace
  <2>3. Precedes(r, k, r, k + 1) /\ Precedes(r, k, r + 1, 0)
    BY DEF Precedes
  <2>4. \A i \in 1..after : i \in 1..p \/ i = p + 1
    BY <1>1, <2>1
  <2>5. ReadBefore(t, after, r, k + 1) /\ ReadBefore(t, after, r + 1, 0)
    BY <1>2, <2>1, <2>3, <2>4 DEF ReadBefore
  <2> QED BY <1>1, <2>2, <2>5 DEF Reading
<1> QED BY <1>3, <1>4

(* A text that has been read to its end waits for the other.               *)
LEMMA ReadsNoMore ==
  ASSUME NEW t \in Seq(Chars), NEW p, NEW char, NEW r \in Nat, NEW k \in Nat,
         Reading(t, p, char, r, k) \/ Finished(t, p, char, r, k), p = Len(t)
  PROVE  Finished(t, p, NL, r, k + 1) /\ Finished(t, p, NL, r + 1, 0)
<1>1. p \in Nat /\ ReadBefore(t, p, r, k)
  BY LenProperties DEF Reading, Finished
<1> QED BY <1>1, ReadBeforeStays DEF Finished

(* There is nothing in it at this place or later.                          *)
LEMMA NothingLater ==
  ASSUME NEW t \in Seq(Chars), NEW p, NEW char, NEW r \in Nat, NEW k \in Nat,
         Finished(t, p, char, r, k),
         NEW s \in Nat, NEW m \in Nat, ~Precedes(s, m, r, k)
  PROVE  CharAt(t, s, m) = Space
<1>1. \A i \in 1..Len(t) : Precedes(RowOf(t, i), ColOf(t, i), r, k)
  BY DEF Finished, ReadBefore
<1> QED BY <1>1, CharAtIs

\* Each text is being read, or has ended, at the same row and column.
ReadSoFar(f) == IF eof[f] THEN Finished(text[f], pos[f], c[f], row, col)
                ELSE Reading(text[f], pos[f], c[f], row, col)

ReadInv == /\ eof \in [Both -> BOOLEAN]
           /\ pc # "main" => \A f \in Both : text[f] \in Texts /\ ReadSoFar(f)

Inv == LibInv /\ FrameType /\ ReadInv

(* What a pass of the inner loop does with one of the files.               *)
LEMMA FileStep ==
  ASSUME FrameType, ReadInv, pc = "frames", NEW f \in Both,
         NEW after, after = IF Waits(f) THEN pos[f] ELSE pos[f] + 1,
         NEW byte, byte = NextByte(f)
  PROVE  /\ CharAt(text[f], row, col) = Shown(byte)
         /\ byte = NL => \A k \in Nat : k >= col => CharAt(text[f], row, k) = Space
         /\ byte # NL => /\ pos[f] + 1 \in 1..Len(text[f]) /\ text[f][pos[f] + 1] = byte
                         /\ RowOf(text[f], pos[f] + 1) = row /\ ColOf(text[f], pos[f] + 1) = col
         /\ Ends(f) => /\ byte = NL /\ Finished(text[f], after, NL, row, col + 1)
                       /\ Finished(text[f], after, NL, row + 1, 0)
         /\ ~Ends(f) => /\ Reading(text[f], after, byte, row, col + 1)
                        /\ byte = NL => Reading(text[f], after, "0", row + 1, 0)
<1> PICK t, p, char : t = text[f] /\ p = pos[f] /\ char = c[f]
  OBVIOUS
<1>1. t \in Seq(Chars) /\ p \in 0..Len(t) /\ row \in Nat /\ col \in Nat
  <2>1. Len(t) \in Nat
    BY LenProperties DEF FrameType
  <2> QED BY <2>1 DEF FrameType
<1>2. /\ eof[f] => Finished(t, p, char, row, col)
      /\ ~eof[f] => Reading(t, p, char, row, col)
  BY DEF ReadInv, ReadSoFar
<1>3. Waits(f) <=> (char = NL \/ p = Len(t))
  BY DEF Waits, AtEnd
<1>4. byte = IF char = NL \/ p = Len(t) THEN NL ELSE t[p + 1]
  BY <1>3 DEF NextByte
<1>5. after = IF char = NL \/ p = Len(t) THEN p ELSE p + 1
  BY <1>3
<1>6. /\ CharAt(t, row, col) = Shown(byte)
      /\ byte = NL => \A k \in Nat : k >= col => CharAt(t, row, k) = Space
      /\ byte # NL => /\ p + 1 \in 1..Len(t) /\ t[p + 1] = byte
                      /\ RowOf(t, p + 1) = row /\ ColOf(t, p + 1) = col
  <2>1. Reading(t, p, char, row, col) \/ Finished(t, p, char, row, col)
    BY <1>2
  <2>2. ASSUME byte = NL, NEW k \in Nat, k >= col PROVE CharAt(t, row, k) = Space
    <3>1. char = NL \/ p = Len(t) \/ t[p + 1] = NL
      BY <1>4, <2>2
    <3> QED BY <1>1, <2>1, <2>2, <3>1, LineIsOver, ZenonT(40)
  <2>3. CASE byte = NL
    <3>1. col >= col
      BY <1>1
    <3> QED BY <1>1, <2>2, <2>3, <3>1 DEF Shown
  <2>4. CASE byte # NL
    <3>1. char # NL /\ p # Len(t) /\ t[p + 1] = byte
      BY <1>4, <2>4
    <3>2. Reading(t, p, char, row, col)
      BY <2>1, <3>1 DEF Finished
    <3>3. /\ CharAt(t, row, col) = t[p + 1] /\ p + 1 \in 1..Len(t)
          /\ RowOf(t, p + 1) = row /\ ColOf(t, p + 1) = col
      BY <1>1, <2>4, <3>1, <3>2, LineGoesOn
    <3> QED BY <2>4, <3>1, <3>3 DEF Shown
  <2> QED BY <2>3, <2>4
<1>7. CASE Ends(f)
  <2>1. p = Len(t) /\ byte = NL /\ after = p
    BY <1>2, <1>4, <1>5, <1>7 DEF Ends, AtEnd, Finished
  <2>2. Finished(t, p, NL, row, col + 1) /\ Finished(t, p, NL, row + 1, 0)
    BY <1>1, <1>2, <2>1, ReadsNoMore
  <2> QED BY <1>6, <1>7, <2>1, <2>2
<1>8. CASE ~Ends(f)
  <2>1. Reading(t, p, char, row, col) /\ (char = NL \/ p # Len(t))
    BY <1>2, <1>8 DEF Ends, AtEnd
  <2>2. /\ Reading(t, after, byte, row, col + 1)
        /\ byte = NL => Reading(t, after, "0", row + 1, 0)
    BY <1>1, <1>4, <1>5, <2>1, ReadsOn
  <2> QED BY <1>6, <1>8, <2>2
<1> QED BY <1>7, <1>8

(* A pass keeps what is said of the reading.                                *)
LEMMA ReadKept ==
  ASSUME FrameType, ReadInv, FrameByte
  PROVE  ReadInv'
<1> PICK byte : byte = [f \in Both |-> NextByte(f)]
  OBVIOUS
<1> PICK ended : ended = [f \in Both |-> Ends(f)]
  OBVIOUS
<1> DEFINE after(f) == IF Waits(f) THEN pos[f] ELSE pos[f] + 1
           EndOfLine == byte[0] = NL /\ byte[1] = NL
<1>1. /\ pc = "frames" /\ UNCHANGED text /\ eof' = ended
      /\ \A f \in Both : pos'[f] = after(f)
      /\ EndOfLine => /\ c' = [f \in Both |-> IF ended[f] THEN NL ELSE "0"]
                      /\ row' = row + 1 /\ col' = 0
      /\ ~EndOfLine => c' = byte /\ col' = col + 1 /\ row' = row
  BY DEF FrameByte
<1>2. ASSUME NEW f \in Both
      PROVE  /\ text'[f] = text[f] /\ (eof'[f] <=> Ends(f))
             /\ Ends(f) => /\ byte[f] = NL /\ Finished(text[f], pos'[f], NL, row, col + 1)
                           /\ Finished(text[f], pos'[f], NL, row + 1, 0)
             /\ ~Ends(f) => /\ Reading(text[f], pos'[f], byte[f], row, col + 1)
                            /\ byte[f] = NL => Reading(text[f], pos'[f], "0", row + 1, 0)
  <2>1. byte[f] = NextByte(f) /\ (ended[f] <=> Ends(f)) /\ pos'[f] = after(f)
    BY <1>1
  <2> QED BY <1>1, <2>1, FileStep
<1>3. eof' \in [Both -> BOOLEAN]
  <2>1. \A f \in Both : Ends(f) \in BOOLEAN
    BY DEF Ends, ReadInv
  <2> QED BY <1>1, <2>1
<1>4. ASSUME NEW f \in Both PROVE text'[f] \in Texts /\ ReadSoFar(f)'
  <2>1. text'[f] \in Texts
    BY <1>1 DEF ReadInv
  <2>2. CASE EndOfLine
    <3>1. byte[f] = NL /\ c'[f] = IF Ends(f) THEN NL ELSE "0"
      BY <1>1, <2>2 DEF Both
    <3> QED BY <1>1, <1>2, <2>1, <2>2, <3>1 DEF ReadSoFar
  <2>3. CASE ~EndOfLine
    BY <1>1, <1>2, <2>1, <2>3 DEF ReadSoFar
  <2> QED BY <2>2, <2>3
<1> QED BY <1>3, <1>4 DEF ReadInv

(* A visible character that is read is the one at its place in its text, so *)
(* its location is not 0.                                                   *)
LEMMA VisibleIs ==
  ASSUME FrameType, ReadInv, pc = "frames", NEW f \in Both, Visible(NextByte(f))
  PROVE  /\ \E i \in DOMAIN text[f] : /\ Visible(text[f][i])
                                      /\ RowOf(text[f], i) = row /\ ColOf(text[f], i) = col
         /\ Location(row, col) % LocationWord # 0
<1>1. NextByte(f) # NL
  BY DEF Visible
<1>2. /\ pos[f] + 1 \in 1..Len(text[f]) /\ text[f][pos[f] + 1] = NextByte(f)
      /\ RowOf(text[f], pos[f] + 1) = row /\ ColOf(text[f], pos[f] + 1) = col
  BY <1>1, FileStep
<1>3. text[f] \in Texts /\ DOMAIN text[f] = 1..Len(text[f])
  BY LenProperties DEF ReadInv, FrameType
<1> PICK i \in DOMAIN text[f] : i = pos[f] + 1
  BY <1>2, <1>3
<1>4. Visible(text[f][i]) /\ RowOf(text[f], i) = row /\ ColOf(text[f], i) = col
  BY <1>2
<1> QED BY <1>3, <1>4, BlinkAssumption

-----------------------------------------------------------------------------
(* The steps of the program                                                *)

\* What add_frames() asks for: its place may be beyond the screen.
Framed == [location : Nat \ {0}, on_char : Chars \ {NL}, off_char : Chars \ {NL},
           on_length : {FrameLength}, off_length : {FrameLength}]

(* What is read are characters, and an end of line is shown as a blank.    *)
LEMMA BytesAre ==
  ASSUME FrameType, NEW f \in Both
  PROVE  /\ NextByte(f) \in Chars /\ Shown(NextByte(f)) \in Chars \ {NL}
         /\ ~Waits(f) => pos[f] + 1 <= Len(text[f])
<1>1. text[f] \in Seq(Chars) /\ pos[f] \in Nat /\ pos[f] <= Len(text[f]) /\ Len(text[f]) \in Nat
  BY LenProperties DEF FrameType
<1>2. ~Waits(f) => pos[f] + 1 \in 1..Len(text[f])
  BY <1>1 DEF Waits, AtEnd
<1>3. NextByte(f) \in Chars
  BY <1>1, <1>2, BlinkAssumption DEF NextByte
<1>4. Shown(NextByte(f)) \in Chars \ {NL}
  BY <1>3, BlinkAssumption DEF Shown
<1> QED BY <1>2, <1>3, <1>4

(* Locations are numbers.                                                  *)
LEMMA LocationType ==
  ASSUME NEW r \in Nat, NEW k \in Nat
  PROVE  Location(r, k) \in Nat
<1>1. r * Columns \in Nat /\ Offset \in Nat
  BY BlinkAssumption
<1> PICK start \in Nat : start = r * Columns
  BY <1>1
<1> QED BY <1>1 DEF Location

(* Its blinkers are of this kind.                                          *)
LEMMA FramedIs ==
  ASSUME NEW char0, NEW char1, Shown(char0) \in Chars \ {NL}, Shown(char1) \in Chars \ {NL},
         NEW r \in Nat, NEW k \in Nat, Location(r, k) % LocationWord # 0
  PROVE  FrameBlinker(char0, char1, r, k) \in Framed
<1> PICK x : x = Location(r, k)
  OBVIOUS
<1>1. x \in Nat
  BY LocationType
<1>2. x % LocationWord \in Nat \ {0}
  BY <1>1, BlinkAssumption
<1> QED BY <1>2 DEF FrameBlinker, Framed

(* A step of add_frames() asks for one blinker at most.                    *)
LEMMA FrameStep ==
  ASSUME FrameType, ReadInv, FrameByte
  PROVE  FrameType' /\ ReadInv' /\ (UNCHANGED libVars \/ \E b \in Framed : mp1_ioctl_add(b))
<1> PICK byte : byte = [f \in Both |-> NextByte(f)]
  OBVIOUS
<1> PICK ended : ended = [f \in Both |-> Ends(f)]
  OBVIOUS
<1>1. /\ pos' = [f \in Both |-> IF Waits(f) THEN pos[f] ELSE pos[f] + 1]
      /\ text' = text
      /\ \/ /\ c' = [f \in Both |-> IF ended[f] THEN NL ELSE "0"]
            /\ row' = row + 1 /\ col' = 0 /\ UNCHANGED libVars
         \/ /\ c' = byte /\ col' = col + 1 /\ row' = row
            /\ \/ UNCHANGED libVars
               \/ /\ Visible(byte[0]) \/ Visible(byte[1])
                  /\ mp1_ioctl_add(FrameBlinker(byte[0], byte[1], row, col))
  BY DEF FrameByte
<1>2. \A f \in Both : /\ byte[f] \in Chars /\ Shown(byte[f]) \in Chars \ {NL}
                      /\ ~Waits(f) => pos[f] + 1 <= Len(text[f])
  BY BytesAre
<1>3. row \in Nat /\ col \in Nat /\ row' \in Nat /\ col' \in Nat
  BY <1>1 DEF FrameType
<1>4. c' \in [Both -> Chars \cup {"0"}]
  BY <1>1, <1>2, BlinkAssumption
<1>5. pos' \in [Both -> Nat] /\ \A f \in Both : pos'[f] <= Len(text[f])
  BY <1>1, <1>2 DEF FrameType
<1>6. FrameType'
  BY <1>1, <1>3, <1>4, <1>5 DEF FrameType
<1>7. ASSUME Visible(byte[0]) \/ Visible(byte[1])
      PROVE  FrameBlinker(byte[0], byte[1], row, col) \in Framed
  <2>1. pc = "frames" /\ \A f \in Both : byte[f] = NextByte(f)
    BY DEF FrameByte
  <2>2. Location(row, col) % LocationWord # 0
    BY <1>7, <2>1, VisibleIs DEF Both
  <2> QED BY <1>2, <1>3, <2>2, FramedIs DEF Both
<1> QED BY <1>1, <1>6, <1>7, ReadKept

(* What is asked for are requests, of which BlinkerList knows those that    *)
(* have a place on the screen.                                             *)
LEMMA RequestsAre ==
  /\ Added \subseteq Request /\ Framed \subseteq Request
  /\ \A b \in Added \cup Framed : b.location \in 1..(NumPlaces - 1) => b \in Calls
<1>1. Added \subseteq Request /\ \A b \in Added : b \in Calls
  BY BlinkAssumption DEF Request, Words, Calls
<1>2. Framed \subseteq Request
  BY BlinkAssumption DEF Request, Words, Framed
<1>3. ASSUME NEW b \in Framed, b.location \in 1..(NumPlaces - 1) PROVE b \in Calls
  BY <1>3 DEF Framed, Calls
<1> QED BY <1>1, <1>2, <1>3

(* The initial states.                                                     *)
LEMMA InitInv ==
  ASSUME Init
  PROVE  Inv /\ Listed(<<>>)
<1>1. LibType
  BY Bounds, BlinkAssumption DEF Init, LibType, Pictures
<1>2. FrameType
  BY BlinkAssumption DEF Init, FrameType, Both
<1>3. Listed(<<>>)
  <2>1. <<>> \in Lists
    <3>1. <<>> \in Seq(Slots) /\ IsInjective(<<>>)
      BY DEF IsInjective
    <3> QED BY <3>1, InLists
  <2>2. Used(blink_array) = {}
    BY DEF Init, Used, Free
  <2> QED BY <2>1, <2>2 DEF Init, Listed, Holds, IsList, ToSet
<1>4. ListHoldsUsed
  BY <1>3, ListSuffices
<1>5. drawn[0] = NULL /\ DrawnAsMarked
  BY Bounds DEF Init, DrawnAsMarked
<1>6. ReadInv
  <2>1. \A f \in Both : text[f] \in Texts /\ ReadSoFar(f)
    BY ReadNothing DEF Init, ReadSoFar
  <2> QED BY <2>1 DEF Init, ReadInv
<1> QED BY <1>1, <1>2, <1>3, <1>4, <1>5, <1>6 DEF Inv, LibInv

(* What a step does to the library's part of the state, and to the list.   *)
LEMMA StepIs ==
  ASSUME Inv, Next
  PROVE  /\ Inv'
         /\ LET s == Seen(blink_array, List)
            IN  \/ UNCHANGED libVars
                \/ Seen(blink_array', List') = Blinkers!TickedAll(s)
                \/ \E b \in Calls : /\ Len(s) < NumSlots
                                    /\ Seen(blink_array', List') = Before(InSlot(Linked(b, NULL)), s)
                \/ \E i \in 1..Len(List) : /\ i \in Blinkers!Newest(s)
                                           /\ Seen(blink_array', List') = Without(s, i)
                \/ \E i, j \in 1..Len(List) :
                     /\ i \in Blinkers!Newest(s) /\ j \in Blinkers!Newest(s)
                     /\ Seen(blink_array', List') = [s EXCEPT ![j] = Blinkers!InRhythm(s[j], s[i])]
<1> PICK s : s = Seen(blink_array, List)
  OBVIOUS
<1> PICK t : t = Seen(blink_array', List')
  OBVIOUS
<1> DEFINE Adds == \E b \in Calls : Len(s) < NumSlots /\ t = Before(InSlot(Linked(b, NULL)), s)
           Drops == \E i \in 1..Len(List) : i \in Blinkers!Newest(s) /\ t = Without(s, i)
           Follows == \E i, j \in 1..Len(List) :
                        /\ i \in Blinkers!Newest(s) /\ j \in Blinkers!Newest(s)
                        /\ t = [s EXCEPT ![j] = Blinkers!InRhythm(s[j], s[i])]
           Result == \/ UNCHANGED libVars \/ t = Blinkers!TickedAll(s) \/ Adds \/ Drops \/ Follows
<1>1. LibInv /\ FrameType /\ ReadInv
  BY DEF Inv
<1>2. UNCHANGED frameVars => FrameType' /\ ReadInv'
  BY <1>1 DEF FrameType, ReadInv, ReadSoFar, frameVars
<1>3. UNCHANGED libVars => LibInv'
  BY <1>1 DEF libVars, LibInv, LibType, ListHoldsUsed, DrawnAsMarked, IsFree
<1>4. ASSUME NEW b \in Added \cup Framed, mp1_ioctl_add(b)
      PROVE  LibInv' /\ Result
  <2>1. b \in Request
    BY RequestsAre
  <2>2. /\ LibInv'
        /\ \/ UNCHANGED libVars
           \/ /\ b.location \in 1..(NumPlaces - 1)
              /\ Len(s) < NumSlots
              /\ t = Before(InSlot(Linked(b, NULL)), s)
    BY <1>1, <1>4, <2>1, AddStep
  <2>3. b.location \in 1..(NumPlaces - 1) => b \in Calls
    BY RequestsAre
  <2> QED BY <2>2, <2>3
<1>5. CASE FrameByte
  <2>1. FrameType' /\ ReadInv' /\ (UNCHANGED libVars \/ \E b \in Framed : mp1_ioctl_add(b))
    BY <1>1, <1>5, FrameStep
  <2> HIDE DEF Result
  <2>2. LibInv' /\ (UNCHANGED libVars \/ Result)
    BY <1>3, <1>4, <2>1
  <2> QED BY <2>1, <2>2 DEF Inv, Result
<1>6. CASE FramesReturn
  <2>1. FrameType' /\ ReadInv' /\ UNCHANGED libVars
    BY <1>6, BlinkAssumption DEF FramesReturn, FrameType, ReadInv, Both
  <2> QED BY <1>3, <2>1 DEF Inv
<1>7. CASE AddCall
  <2>1. PICK b \in Added : mp1_ioctl_add(b)
    BY <1>7 DEF AddCall
  <2> HIDE DEF Result
  <2>2. LibInv' /\ Result
    BY <1>4, <2>1
  <2> QED BY <1>2, <1>7, <2>2 DEF AddCall, Inv, Result
<1>8. CASE RemoveCall
  <2>1. PICK l \in Asked : mp1_ioctl_remove(l)
    BY <1>8 DEF RemoveCall
  <2>2. LibInv' /\ (UNCHANGED libVars \/ Drops)
    BY <1>1, <2>1, RemoveStep
  <2> QED BY <1>2, <1>8, <2>2 DEF RemoveCall, Inv
<1>9. CASE SyncCall
  <2>1. PICK l1 \in Asked, l2 \in Asked : mp1_ioctl_sync(l1, l2)
    BY <1>9 DEF SyncCall
  <2>2. LibInv' /\ (UNCHANGED libVars \/ Follows)
    BY <1>1, <2>1, SyncStep
  <2> QED BY <1>2, <1>9, <2>2 DEF SyncCall, Inv
<1>10. CASE RtcRead
  <2>1. LibInv' /\ t = Blinkers!TickedAll(s)
    BY <1>1, <1>10, TickStep DEF RtcRead
  <2> QED BY <1>2, <1>10, <2>1 DEF RtcRead, Inv
<1> QED BY <1>5, <1>6, <1>7, <1>8, <1>9, <1>10 DEF Next

(* The invariant, whatever is read, added, removed and synchronised.       *)
THEOREM BlinkInvariant == Spec => []Inv
<1>1. Init => Inv
  BY InitInv
<1>2. Inv /\ [Next]_vars => Inv'
  <2> SUFFICES ASSUME Inv, [Next]_vars PROVE Inv'
    OBVIOUS
  <2>1. CASE Next
    BY <2>1, StepIs
  <2>2. CASE UNCHANGED vars
    BY <2>2 DEF vars, libVars, frameVars, Inv, LibInv, LibType, FrameType, ReadInv, ReadSoFar,
                ListHoldsUsed, DrawnAsMarked, IsFree
  <2> QED BY <2>1, <2>2
<1> QED BY <1>1, <1>2, PTL DEF Spec

(* The slots in use are the list, in every reachable state.                *)
THEOREM ListCorrect == Spec => []ListHoldsUsed
<1>1. Inv => ListHoldsUsed
  BY DEF Inv, LibInv
<1> QED BY <1>1, BlinkInvariant, PTL

(* What is drawn for a blinker is what its status says, until a sync.      *)
THEOREM DrawnCorrect == Spec => []DrawnAsMarked
<1>1. Inv => DrawnAsMarked
  BY DEF Inv, LibInv
<1> QED BY <1>1, BlinkInvariant, PTL


-----------------------------------------------------------------------------
(* The refinement                                                          *)

\* What BlinkerList calls blinkers.
Mapped == LET list == List IN [i \in DOMAIN list |-> InSlot(blink_array[list[i]])]

(* It is what the list looks like.                                         *)
LEMMA MappedIs == Mapped = Seen(blink_array, List)
BY DEF Mapped, Seen

(* The same in the next state.                                             *)
LEMMA MappedIsNext == (Mapped = Seen(blink_array, List))'
BY MappedIs, PTL

(* A step of the slots and pointers is one of the list, or none.           *)
LEMMA StepMaps ==
  ASSUME Inv, [Next]_vars
  PROVE  [Blinkers!Next]_Mapped
<1> PICK s : s = Seen(blink_array, List)
  OBVIOUS
<1> PICK t : t = Seen(blink_array', List')
  OBVIOUS
<1>1. Mapped = s
  BY MappedIs
<1>2. Mapped' = t
  BY MappedIsNext
<1>3. UNCHANGED libVars => Mapped' = Mapped
  BY DEF libVars, Mapped, List
<1>4. Listed(List)
  BY HasList DEF Inv, LibInv
<1>5. /\ Len(s) = Len(List) /\ DOMAIN s = 1..Len(List)
      /\ \E S : s \in Seq(S)
  <2>1. List \in Lists
    BY <1>4 DEF Listed, Holds
  <2> QED BY <2>1, SeenForm
<1>6. CASE UNCHANGED libVars
  BY <1>3, <1>6
<1>7. CASE t = Blinkers!TickedAll(s)
  BY <1>1, <1>2, <1>7 DEF Blinkers!Next, Blinkers!Tick, Mapped
<1>8. ASSUME NEW b \in Calls, Len(s) < NumSlots, t = Before(InSlot(Linked(b, NULL)), s)
      PROVE  [Blinkers!Next]_Mapped
  <2>1. InSlot(Linked(b, NULL)) = Blinkers!New(b)
    BY DEF InSlot, Linked, Blinkers!New
  <2>2. PICK S : s \in Seq(S)
    BY <1>5
  <2>3. s \in Seq(S \cup {Blinkers!New(b)})
    BY <2>2
  <2>4. t = <<Blinkers!New(b)>> \o s
    BY <1>8, <2>1, <2>3, BeforeIs
  <2>5. t \in Blinkers!WithOneMore(s)
    BY <1>8, <2>4 DEF Blinkers!WithOneMore
  <2> QED BY <1>1, <1>2, <2>5 DEF Blinkers!Next, Blinkers!Add, Mapped
<1>9. ASSUME NEW i \in 1..Len(List), i \in Blinkers!Newest(s), t = Without(s, i)
      PROVE  [Blinkers!Next]_Mapped
  <2>1. t = RemoveAt(s, i)
    BY <1>5, <1>9, WithoutIs
  <2>2. t \in Blinkers!WithoutOne(s)
    <3> PICK newest : newest = Blinkers!Newest(s)
      OBVIOUS
    <3>1. RemoveAt(s, i) = Blinkers!RemoveAt(s, i)
      BY DEF RemoveAt, Blinkers!RemoveAt
    <3>2. t \in {Blinkers!RemoveAt(s, k) : k \in newest}
      BY <1>9, <2>1, <3>1
    <3> QED BY <3>2 DEF Blinkers!WithoutOne
  <2> QED BY <1>1, <1>2, <2>2 DEF Blinkers!Next, Blinkers!Drop, Mapped
<1>10. ASSUME NEW i \in 1..Len(List), NEW j \in 1..Len(List),
              i \in Blinkers!Newest(s), j \in Blinkers!Newest(s),
              t = [s EXCEPT ![j] = Blinkers!InRhythm(s[j], s[i])]
       PROVE  [Blinkers!Next]_Mapped
  <2>1. t \in Blinkers!WithOneInRhythm(s)
    <3> PICK newest : newest = Blinkers!Newest(s)
      OBVIOUS
    <3> DEFINE Result(x, y) == [s EXCEPT ![y] = Blinkers!InRhythm(s[y], s[x])]
    <3>1. t = Result(i, j)
      BY <1>10
    <3> HIDE DEF Result
    <3>2. t \in {Result(x, y) : x \in newest, y \in newest}
      BY <1>10, <3>1
    <3> QED BY <3>2 DEF Result, Blinkers!WithOneInRhythm
  <2> QED BY <1>1, <1>2, <2>1 DEF Blinkers!Next, Blinkers!Follow, Mapped
<1>11. CASE Next
  BY <1>6, <1>7, <1>8, <1>9, <1>10, <1>11, StepIs
<1>12. CASE UNCHANGED vars
  BY <1>6, <1>12 DEF vars
<1> QED BY <1>11, <1>12

(* The slots and pointers implement the list of blinkers.                  *)
THEOREM BlinkImplementsBlinkers == Spec => ImplementsBlinkers
<1>1. Init => Blinkers!Init
  <2> SUFFICES ASSUME Init PROVE Blinkers!Init
    OBVIOUS
  <2>1. Inv /\ Listed(<<>>)
    BY InitInv
  <2>2. List = <<>>
    BY <2>1, HasList DEF Inv, LibInv
  <2> QED BY <2>2 DEF Blinkers!Init
<1>2. Inv /\ [Next]_vars => [Blinkers!Next]_Mapped
  BY StepMaps
<1> QED BY <1>1, <1>2, BlinkInvariant, PTL DEF Spec, ImplementsBlinkers, Blinkers!Spec, Mapped

-----------------------------------------------------------------------------
(* The overlay of the texts                                                *)

Width == Columns - Offset
Rows == 0..(NumPlaces \div Columns)
Cols == 0..(Width - 1)

Cell(r, k) == <<Location(r, k), CharAt(text[0], r, k), CharAt(text[1], r, k)>>
Marked(r, k) == CharAt(text[0], r, k) # Space \/ CharAt(text[1], r, k) # Space

\* The part of the overlay before row s and column m.
LaidBefore(s, m) == {x \in Overlay : \E r \in Nat, k \in Cols : x = Cell(r, k) /\ Precedes(r, k, s, m)}

(* The places of the text are apart from each other.                       *)
LEMMA LocationsDiffer ==
  ASSUME NEW r \in Nat, NEW k \in Cols, NEW s \in Nat, NEW m \in Cols,
         Location(r, k) = Location(s, m)
  PROVE  r = s /\ k = m
<1>1. /\ Columns \in Nat /\ Offset \in Nat /\ k \in Nat /\ m \in Nat
      /\ k + Offset < Columns /\ m + Offset < Columns
  BY BlinkAssumption DEF Cols, Width
<1>2. ASSUME NEW a \in Nat, NEW b \in Nat, a < b PROVE a * Columns + Columns <= b * Columns
  <2>1. PICK d \in Nat : b = a + 1 + d
    <3>1. b - (a + 1) \in Nat /\ b = a + 1 + (b - (a + 1))
      BY <1>2
    <3> QED BY <3>1
  <2>2. b * Columns = a * Columns + Columns + d * Columns
    BY <1>1, <2>1
  <2>3. d * Columns \in Nat /\ a * Columns \in Nat
    BY <1>1, <2>1
  <2> QED BY <1>1, <2>2, <2>3
<1> PICK x : x = r * Columns
  OBVIOUS
<1> PICK y : y = s * Columns
  OBVIOUS
<1>3. x \in Nat /\ y \in Nat /\ x + k + Offset = y + m + Offset
  BY <1>1 DEF Location
<1>4. ~(r < s)
  <2> SUFFICES ASSUME r < s PROVE FALSE
    OBVIOUS
  <2>1. x + Columns <= y
    BY <1>2
  <2> QED BY <1>1, <1>3, <2>1
<1>5. ~(s < r)
  <2> SUFFICES ASSUME s < r PROVE FALSE
    OBVIOUS
  <2>1. y + Columns <= x
    BY <1>2
  <2> QED BY <1>1, <1>3, <2>1
<1>6. r = s
  BY <1>4, <1>5
<1> QED BY <1>1, <1>3, <1>6

(* A place on the screen is in one of the rows.                            *)
LEMMA RowOnScreen ==
  ASSUME NEW r \in Nat, NEW k \in Cols, Location(r, k) < NumPlaces
  PROVE  r \in Rows
<1> PICK q : q = NumPlaces \div Columns
  OBVIOUS
<1>1. Columns \in Nat \ {0} /\ NumPlaces \in Nat /\ Offset \in Nat /\ k \in Nat
  BY BlinkAssumption DEF Cols, Width
<1>2. q \in Nat /\ NumPlaces < q * Columns + Columns
  BY <1>1
<1> SUFFICES ASSUME q < r PROVE FALSE
  BY <1>2 DEF Rows
<1>3. PICK d \in Nat : r = q + 1 + d
  <2>1. r - (q + 1) \in Nat /\ r = q + 1 + (r - (q + 1))
    BY <1>2
  <2> QED BY <2>1
<1>4. r * Columns = q * Columns + Columns + d * Columns
  BY <1>1, <1>2, <1>3
<1>5. d * Columns \in Nat /\ q * Columns \in Nat
  BY <1>1, <1>2, <1>3
<1>6. r * Columns + k + Offset < NumPlaces
  BY DEF Location
<1> QED BY <1>1, <1>2, <1>4, <1>5, <1>6

(* What the overlay is.                                                    *)
LEMMA OverlayIs ==
  Overlay = {x \in {Cell(r, k) : r \in Rows, k \in Cols} :
               x[1] < NumPlaces /\ (x[2] # Space \/ x[3] # Space)}
BY DEF Overlay, Cell, Location, Rows, Cols, Width

LEMMA InOverlay ==
  ASSUME NEW r \in Nat, NEW k \in Cols
  PROVE  Cell(r, k) \in Overlay <=> Location(r, k) < NumPlaces /\ Marked(r, k)
<1> PICK x : x = Cell(r, k)
  OBVIOUS
<1>1. x[1] = Location(r, k) /\ x[2] = CharAt(text[0], r, k) /\ x[3] = CharAt(text[1], r, k)
  BY DEF Cell
<1>2. x \in Overlay <=> /\ \E s \in Rows, m \in Cols : x = Cell(s, m)
                        /\ x[1] < NumPlaces /\ (x[2] # Space \/ x[3] # Space)
  BY OverlayIs
<1>3. Location(r, k) < NumPlaces => r \in Rows
  BY RowOnScreen
<1> QED BY <1>1, <1>2, <1>3 DEF Marked

LEMMA CellOf ==
  ASSUME NEW x \in Overlay
  PROVE  \E r \in Rows, k \in Cols : x = Cell(r, k)
BY OverlayIs

(* The cells are apart from each other.                                    *)
LEMMA CellsDiffer ==
  ASSUME NEW r \in Nat, NEW k \in Cols, NEW s \in Nat, NEW m \in Cols, Cell(r, k) = Cell(s, m)
  PROVE  r = s /\ k = m
<1>1. Location(r, k) = Location(s, m)
  BY DEF Cell
<1> QED BY <1>1, LocationsDiffer

(* There are as many as fit a screen.                                      *)
LEMMA OverlayFinite == IsFiniteSet(Overlay)
<1> DEFINE A == Rows \X Cols
           B == {Cell(r, k) : r \in Rows, k \in Cols}
           g == [a \in A |-> Cell(a[1], a[2])]
<1>1. IsFiniteSet(Rows) /\ IsFiniteSet(Cols)
  <2>1. NumPlaces \div Columns \in Int /\ Width - 1 \in Int
    BY BlinkAssumption DEF Width
  <2> QED BY <2>1, FS_Interval DEF Rows, Cols
<1>2. IsFiniteSet(A)
  BY <1>1, FS_Product
<1>3. \A a \in A : g[a] \in B
  BY DEF A
<1>4. ASSUME NEW x \in B PROVE \E a \in A : g[a] = x
  <2>1. PICK r \in Rows, k \in Cols : x = Cell(r, k)
    OBVIOUS
  <2>2. <<r, k>> \in A /\ g[<<r, k>>] = Cell(r, k)
    OBVIOUS
  <2> QED BY <2>1, <2>2
<1>5. g \in [A -> B]
  BY <1>3
<1>6. g \in Surjection(A, B)
  <2> HIDE DEF A, B, g
  <2> QED BY <1>4, <1>5 DEF Surjection
<1>7. IsFiniteSet(B)
  BY <1>2, <1>6, FS_Surjection
<1>8. Overlay \subseteq B
  BY OverlayIs
<1> QED BY <1>7, <1>8, FS_Subset

(* At first nothing is laid.                                               *)
LEMMA LaidNone == LaidBefore(0, 0) = {}
<1> SUFFICES ASSUME NEW x \in LaidBefore(0, 0) PROVE FALSE
  OBVIOUS
<1>1. PICK r \in Nat, k \in Cols : Precedes(r, k, 0, 0)
  BY DEF LaidBefore
<1> QED BY <1>1, BlinkAssumption DEF Precedes, Cols, Width

(* A step within a line lays the cell at its place, if the overlay has it.  *)
LEMMA LaidNext ==
  ASSUME NEW s \in Nat, NEW m \in Cols
  PROVE  /\ Cell(s, m) \in Overlay => LaidBefore(s, m + 1) = LaidBefore(s, m) \cup {Cell(s, m)}
         /\ Cell(s, m) \notin Overlay => LaidBefore(s, m + 1) = LaidBefore(s, m)
         /\ Cell(s, m) \notin LaidBefore(s, m)
<1>1. m \in Nat /\ \A k \in Cols : k \in Nat
  BY BlinkAssumption DEF Cols, Width
<1>2. ASSUME NEW r \in Nat, NEW k \in Cols
      PROVE  Precedes(r, k, s, m + 1) <=> Precedes(r, k, s, m) \/ (r = s /\ k = m)
  BY <1>1 DEF Precedes
<1>3. ASSUME NEW x \in Overlay
      PROVE  x \in LaidBefore(s, m + 1) <=> x \in LaidBefore(s, m) \/ x = Cell(s, m)
  BY <1>2, <1>3 DEF LaidBefore
<1>4. Cell(s, m) \notin LaidBefore(s, m)
  <2> SUFFICES ASSUME Cell(s, m) \in LaidBefore(s, m) PROVE FALSE
    OBVIOUS
  <2>1. PICK r \in Nat, k \in Cols : Cell(s, m) = Cell(r, k) /\ Precedes(r, k, s, m)
    BY DEF LaidBefore
  <2>2. r = s /\ k = m
    BY <2>1, CellsDiffer
  <2> QED BY <1>1, <2>1, <2>2 DEF Precedes
<1>5. LaidBefore(s, m + 1) \subseteq Overlay /\ LaidBefore(s, m) \subseteq Overlay
  BY DEF LaidBefore
<1> QED BY <1>3, <1>4, <1>5

(* The end of both lines lays nothing more, if they have nothing more.      *)
LEMMA LaidRow ==
  ASSUME NEW s \in Nat, NEW m \in Nat, \A k \in Nat : k >= m => ~Marked(s, k)
  PROVE  LaidBefore(s + 1, 0) = LaidBefore(s, m)
<1>1. \A k \in Cols : k \in Nat
  BY BlinkAssumption DEF Cols, Width
<1>2. ASSUME NEW x \in Overlay, x \in LaidBefore(s + 1, 0) PROVE x \in LaidBefore(s, m)
  <2>1. PICK r \in Nat, k \in Cols : x = Cell(r, k) /\ Precedes(r, k, s + 1, 0)
    BY <1>2 DEF LaidBefore
  <2>2. Marked(r, k)
    BY <2>1, InOverlay
  <2>3. Precedes(r, k, s, m)
    BY <1>1, <2>1, <2>2 DEF Precedes
  <2> QED BY <2>1, <2>3 DEF LaidBefore
<1>3. ASSUME NEW x \in Overlay, x \in LaidBefore(s, m) PROVE x \in LaidBefore(s + 1, 0)
  <2>1. PICK r \in Nat, k \in Cols : x = Cell(r, k) /\ Precedes(r, k, s, m)
    BY <1>3 DEF LaidBefore
  <2>2. Precedes(r, k, s + 1, 0)
    BY <2>1 DEF Precedes
  <2> QED BY <2>1, <2>2 DEF LaidBefore
<1> QED BY <1>2, <1>3 DEF LaidBefore

(* When both texts have ended, all of the overlay is laid.                  *)
LEMMA LaidAll ==
  ASSUME NEW s \in Nat, NEW m \in Nat,
         \A r \in Nat, k \in Nat : ~Precedes(r, k, s, m) => ~Marked(r, k)
  PROVE  LaidBefore(s, m) = Overlay
<1> SUFFICES ASSUME NEW x \in Overlay PROVE x \in LaidBefore(s, m)
  BY DEF LaidBefore
<1>1. PICK r \in Rows, k \in Cols : x = Cell(r, k)
  BY CellOf
<1>2. r \in Nat /\ k \in Nat
  BY <1>1, BlinkAssumption DEF Rows, Cols, Width
<1>3. Marked(r, k)
  BY <1>1, <1>2, InOverlay
<1> QED BY <1>1, <1>2, <1>3 DEF LaidBefore

-----------------------------------------------------------------------------
(* The blinkers that are laid                                              *)

\* What the slots in use show, and where.
Cells(array) == {<<array[p].location, array[p].on_char, array[p].off_char>> : p \in Used(array)}

(* All slots are in use when no more is handed out.                        *)
LEMMA NoneFree ==
  ASSUME mp1_malloc = NULL
  PROVE  Used(blink_array) = Slots
<1> DEFINE free == {p \in Slots : IsFree(p)}
<1>1. free \subseteq Nat \ {0}
  BY Bounds DEF Slots
<1>2. free # {} => Min(free) \in free
  <2> HIDE DEF free
  <2> QED BY <1>1, MinIs
<1>3. free = {}
  BY <1>1, <1>2 DEF mp1_malloc, NULL
<1> QED BY <1>3 DEF IsFree, Used

(* Where there is a place and a slot, a call adds its blinker.              *)
LEMMA Adds ==
  ASSUME LibInv, NEW b \in Request, mp1_ioctl_add(b),
         b.location < NumPlaces, Len(List) < NumSlots
  PROVE  /\ Cells(blink_array') = Cells(blink_array) \cup {<<b.location, b.on_char, b.off_char>>}
         /\ Len(List') = Len(List) + 1
<1> PICK l : l = List
  OBVIOUS
<1>1. Listed(l)
  BY HasList DEF LibInv
<1>2. /\ l \in Lists /\ l \in [1..Len(l) -> Slots] /\ Len(l) \in Nat /\ DOMAIN l = 1..Len(l)
      /\ ToSet(l) = Used(blink_array) /\ Holds(blink_array, mp1_list_head, l)
  BY <1>1, ListForm DEF Listed, Holds
<1>3. mp1_malloc # NULL
  <2> SUFFICES ASSUME mp1_malloc = NULL PROVE FALSE
    OBVIOUS
  <2>1. Used(blink_array) = Slots
    BY NoneFree
  <2>2. \A p \in Slots : \E i \in 1..Len(l) : l[i] = p
    BY <1>2, <2>1 DEF ToSet
  <2>3. l \in Surjection(1..Len(l), Slots)
    BY <1>2, <2>2 DEF Surjection
  <2>4. IsFiniteSet(1..Len(l)) /\ Cardinality(1..Len(l)) = Len(l)
    BY <1>2, IntervalSize
  <2>5. IsFiniteSet(Slots) /\ Cardinality(Slots) = NumSlots
    <3>1. NumSlots \in Nat
      BY BlinkAssumption
    <3> QED BY <3>1, IntervalSize DEF Slots
  <2>6. Cardinality(Slots) <= Cardinality(1..Len(l))
    BY <2>3, <2>4, FS_Surjection
  <2>7. Cardinality(1..Len(l)) \in Nat /\ NumSlots \in Nat
    BY <2>4, BlinkAssumption, FS_CardinalityType
  <2> QED BY <1>2, <2>4, <2>5, <2>6, <2>7
<1> PICK p : p = mp1_malloc
  OBVIOUS
<1> PICK r : r = Linked(b, mp1_list_head)
  OBVIOUS
<1>4. p \in Slots /\ blink_array[p].location = 0 /\ p \notin Used(blink_array)
  BY <1>3, MallocIs DEF Used
<1>5. r.location = b.location /\ r.on_char = b.on_char /\ r.off_char = b.off_char /\ b.location \in Nat \ {0}
  BY DEF Linked, Request
<1>6. blink_array' = [blink_array EXCEPT ![p] = r] /\ blink_array \in [Slots -> Record]
  <2>1. b.location \in Nat /\ NumPlaces \in Nat
    BY <1>5, BlinkAssumption
  <2>2. ~(b.location >= NumPlaces)
    BY <2>1
  <2> QED BY <1>3, <2>2 DEF mp1_ioctl_add, LibInv, LibType
<1>7. blink_array'[p] = r /\ \A q \in Slots : q # p => blink_array'[q] = blink_array[q]
  BY <1>4, <1>6
<1>8. Used(blink_array') = Used(blink_array) \cup {p}
  BY <1>4, <1>5, <1>7 DEF Used
<1>9. Cells(blink_array') = Cells(blink_array) \cup {<<b.location, b.on_char, b.off_char>>}
  <2>1. \A q \in Used(blink_array) : blink_array'[q] = blink_array[q]
    BY <1>4, <1>7 DEF Used
  <2> QED BY <1>5, <1>7, <1>8, <2>1 DEF Cells
<1>10. ~UNCHANGED libVars
  BY <1>4, <1>5, <1>7 DEF libVars
<1>11. /\ LibInv'
       /\ Seen(blink_array', List') = Before(InSlot(Linked(b, NULL)), Seen(blink_array, l))
  BY <1>10, AddStep
<1> PICK m : m = List'
  OBVIOUS
<1>12. Listed(m)'
  BY <1>11, HasListNext DEF LibInv
<1>13. m \in Lists
  BY <1>12 DEF Listed, Holds
<1> PICK s : s = Seen(blink_array, l)
  OBVIOUS
<1> PICK x : x = InSlot(Linked(b, NULL))
  OBVIOUS
<1>14. Len(s) = Len(l)
  BY <1>2, SeenForm
<1>15. Len(Seen(blink_array', m)) = Len(m)
  BY <1>13, SeenForm
<1>16. Len(Before(x, s)) = Len(s) + 1
  <2> PICK S : S = {Before(x, s)[i] : i \in 1..(Len(s) + 1)}
    OBVIOUS
  <2>1. Before(x, s) \in [1..(Len(s) + 1) -> S]
    BY DEF Before
  <2> QED BY <1>2, <1>14, <2>1, IsSequence
<1> QED BY <1>9, <1>11, <1>14, <1>15, <1>16

-----------------------------------------------------------------------------
(* The overlay while the texts are read                                    *)

\* What FramesAgree asks of the texts.
Fits == Cardinality(Overlay) <= NumSlots /\ \A f \in Both : LinesFit(text[f]) /\ RowsFit(text[f])

\* The blinkers are the part of the overlay that has been read.
LaidSoFar == /\ Cells(blink_array) = LaidBefore(row, col)
             /\ Len(List) = Cardinality(LaidBefore(row, col))

FramesInv ==
  /\ pc # "main" /\ Fits => LaidSoFar
  /\ pc = "overlaid" => eof[0] /\ eof[1]

(* The texts stay, and so does what is made of them.                        *)
LEMMA TextStays ==
  ASSUME UNCHANGED text
  PROVE  /\ Overlay' = Overlay /\ Fits' = Fits
         /\ \A s, m : LaidBefore(s, m)' = LaidBefore(s, m)
<1>1. \A r, k : Cell(r, k)' = Cell(r, k)
  BY DEF Cell
<1>2. Overlay' = Overlay
  BY DEF Overlay
<1> QED BY <1>1, <1>2 DEF LaidBefore, Fits

(* The blinkers change only with the slots.                                *)
LEMMA LibStays == UNCHANGED libVars => List' = List /\ blink_array' = blink_array
BY DEF libVars, List

(* A pass in which a line goes on lays the cell of its place, if it is one  *)
(* of the overlay.                                                         *)
LEMMA LaysCell ==
  ASSUME LibInv, LaidSoFar, Cardinality(Overlay) <= NumSlots,
         row \in Nat, col \in Cols, UNCHANGED <<text, row>>, col' = col + 1,
         Location(row, col) < LocationWord \/ ~Marked(row, col),
         NEW char0, NEW char1,
         Marked(row, col) => FrameBlinker(char0, char1, row, col) \in Request,
         Shown(char0) = CharAt(text[0], row, col), Shown(char1) = CharAt(text[1], row, col),
         IF Marked(row, col) THEN mp1_ioctl_add(FrameBlinker(char0, char1, row, col))
                             ELSE UNCHANGED libVars
  PROVE  LaidSoFar'
<1> PICK b : b = FrameBlinker(char0, char1, row, col)
  OBVIOUS
<1> PICK x : x = Cell(row, col)
  OBVIOUS
<1> PICK laid : laid = LaidBefore(row, col)
  OBVIOUS
<1>1. Marked(row, col) => /\ b.location = Location(row, col)
                          /\ x = <<b.location, b.on_char, b.off_char>>
  <2> SUFFICES ASSUME Marked(row, col) PROVE b.location = Location(row, col)
    BY DEF FrameBlinker, Cell
  <2> PICK place : place = Location(row, col)
    OBVIOUS
  <2>1. place \in Nat /\ place < LocationWord
    BY LocationType, BlinkAssumption DEF Cols, Width
  <2>2. place % LocationWord = place
    BY <2>1, BlinkAssumption
  <2> QED BY <2>2 DEF FrameBlinker
<1>2. x \in Overlay <=> Location(row, col) < NumPlaces /\ Marked(row, col)
  BY InOverlay
<1>3. /\ x \in Overlay => LaidBefore(row, col + 1) = laid \cup {x}
      /\ x \notin Overlay => LaidBefore(row, col + 1) = laid
      /\ x \notin laid
  BY LaidNext
<1>4. LaidBefore(row, col)' = LaidBefore(row, col + 1)
  BY TextStays
<1>5. laid \subseteq Overlay /\ IsFiniteSet(Overlay) /\ IsFiniteSet(laid)
  BY OverlayFinite, FS_Subset DEF LaidBefore
<1>6. Cells(blink_array) = laid /\ Len(List) = Cardinality(laid)
  BY DEF LaidSoFar
<1>7. CASE x \in Overlay
  <2>1. Cardinality(laid) < Cardinality(Overlay)
    <3>1. Cardinality(laid) <= Cardinality(Overlay) /\ Cardinality(laid) # Cardinality(Overlay)
      BY <1>3, <1>5, <1>7, FS_Subset
    <3>2. Cardinality(laid) \in Nat /\ Cardinality(Overlay) \in Nat
      BY <1>5, FS_CardinalityType
    <3> QED BY <3>1, <3>2
  <2>2. Len(List) < NumSlots
    <3>1. Cardinality(laid) \in Nat /\ Cardinality(Overlay) \in Nat /\ NumSlots \in Nat
      BY <1>5, BlinkAssumption, FS_CardinalityType
    <3> QED BY <1>6, <2>1, <3>1
  <2>3. mp1_ioctl_add(b) /\ b.location < NumPlaces /\ b \in Request
    BY <1>1, <1>2, <1>7
  <2>4. /\ Cells(blink_array') = Cells(blink_array) \cup {<<b.location, b.on_char, b.off_char>>}
        /\ Len(List') = Len(List) + 1
    BY <2>2, <2>3, Adds
  <2>5. Cardinality(laid \cup {x}) = Cardinality(laid) + 1
    BY <1>3, <1>5, FS_AddElement
  <2>6. LaidBefore(row, col)' = laid \cup {x}
    BY <1>3, <1>4, <1>7
  <2> QED BY <1>1, <1>2, <1>6, <1>7, <2>4, <2>5, <2>6 DEF LaidSoFar, Cells
<1>8. CASE x \notin Overlay
  <2>1. UNCHANGED libVars
    <3>1. CASE ~Marked(row, col)
      BY <3>1
    <3>2. CASE Marked(row, col)
      <4>1. b.location >= NumPlaces /\ mp1_ioctl_add(b)
        <5>1. b.location \in Nat /\ NumPlaces \in Nat
          BY <3>2, BlinkAssumption DEF Request
        <5> QED BY <1>1, <1>2, <1>8, <3>2, <5>1
      <4> QED BY <4>1 DEF mp1_ioctl_add
    <3> QED BY <3>1, <3>2
  <2>2. LaidBefore(row, col)' = laid
    BY <1>3, <1>4, <1>8
  <2> QED BY <1>6, <2>1, <2>2, LibStays DEF LaidSoFar, Cells, Used
<1> QED BY <1>7, <1>8

(* A pass of the inner loop keeps the invariant.                           *)
LEMMA FrameLays ==
  ASSUME Inv, FramesInv, FrameByte
  PROVE  FramesInv'
<1> PICK byte : byte = [f \in Both |-> NextByte(f)]
  OBVIOUS
<1> PICK ended : ended = [f \in Both |-> Ends(f)]
  OBVIOUS
<1> DEFINE after(f) == IF Waits(f) THEN pos[f] ELSE pos[f] + 1
           EndOfLine == byte[0] = NL /\ byte[1] = NL
           Visibles == Visible(byte[0]) \/ Visible(byte[1])
<1>1. /\ pc = "frames" /\ UNCHANGED text /\ eof' = ended
      /\ \A f \in Both : pos'[f] = after(f)
      /\ EndOfLine => /\ c' = [f \in Both |-> IF ended[f] THEN NL ELSE "0"]
                      /\ row' = row + 1 /\ col' = 0
                      /\ pc' = IF ended[0] /\ ended[1] THEN "overlaid" ELSE "frames"
                      /\ UNCHANGED libVars
      /\ ~EndOfLine => /\ c' = byte /\ col' = col + 1 /\ row' = row /\ pc' = "frames"
                       /\ IF Visibles
                          THEN mp1_ioctl_add(FrameBlinker(byte[0], byte[1], row, col))
                          ELSE UNCHANGED libVars
  BY DEF FrameByte
<1>2. LibInv /\ FrameType /\ ReadInv /\ row \in Nat /\ col \in Nat
  BY DEF Inv, FrameType
<1>3. ASSUME NEW f \in Both
      PROVE  /\ text'[f] = text[f] /\ (eof'[f] <=> Ends(f))
             /\ CharAt(text[f], row, col) = Shown(byte[f])
             /\ byte[f] = NL => \A k \in Nat : k >= col => CharAt(text[f], row, k) = Space
             /\ byte[f] # NL => /\ pos[f] + 1 \in 1..Len(text[f]) /\ text[f][pos[f] + 1] = byte[f]
                                /\ ColOf(text[f], pos[f] + 1) = col
             /\ Visible(byte[f]) => /\ \E i \in DOMAIN text[f] :
                                         /\ Visible(text[f][i]) /\ RowOf(text[f], i) = row
                                         /\ ColOf(text[f], i) = col
                                    /\ Location(row, col) % LocationWord # 0
  <2>1. byte[f] = NextByte(f) /\ (ended[f] <=> Ends(f))
    BY <1>1
  <2> QED BY <1>1, <1>2, <2>1, FileStep, VisibleIs
<1>4. Fits' => Fits
  BY <1>1, TextStays
<1>5. ASSUME Fits PROVE LaidSoFar'
  <2>1. LaidSoFar
    BY <1>1, <1>5 DEF FramesInv
  <2>2. CASE EndOfLine
    <3>1. \A k \in Nat : k >= col => ~Marked(row, k)
      BY <1>3, <2>2 DEF Marked, Both
    <3>2. LaidBefore(row + 1, 0) = LaidBefore(row, col)
      BY <1>2, <3>1, LaidRow
    <3>3. LaidBefore(row, col)' = LaidBefore(row, col)
      BY <1>1, <2>2, <3>2, TextStays
    <3> QED BY <1>1, <2>1, <2>2, <3>3, LibStays DEF LaidSoFar, Cells, Used
  <2>3. CASE ~EndOfLine
    <3>1. PICK f \in Both : byte[f] # NL
      BY <2>3 DEF Both
    <3>2. /\ pos[f] + 1 \in 1..Len(text[f]) /\ text[f][pos[f] + 1] # NL
          /\ ColOf(text[f], pos[f] + 1) = col
      BY <1>3, <3>1
    <3>3. col < Width
      <4>1. text[f] \in Seq(Chars) /\ Width \in Nat
        BY <1>2, BlinkAssumption DEF FrameType, Width
      <4>2. \A i, j \in DOMAIN text[f] : j - i >= Width => \E n \in i..j : text[f][n] = NL
        <5>1. \A i, j \in DOMAIN text[f] : j - i >= Columns - Offset => \E n \in i..j : text[f][n] = NL
        BY <1>5 DEF Fits, LinesFit
      <5> QED BY <5>1 DEF Width
      <4> QED BY <3>2, <4>1, <4>2, WithinWidth
    <3>4. col \in Cols
      BY <1>2, <3>3, BlinkAssumption DEF Cols, Width
    <3>5. Shown(byte[0]) = CharAt(text[0], row, col) /\ Shown(byte[1]) = CharAt(text[1], row, col)
      BY <1>3 DEF Both
    <3>6. Marked(row, col) <=> Visibles
      BY <3>5, BlinkAssumption DEF Marked, Visible, Shown
    <3>7. ASSUME Visibles
          PROVE  /\ Location(row, col) < LocationWord
                 /\ FrameBlinker(byte[0], byte[1], row, col) \in Request
      <4> PICK g \in Both : Visible(byte[g])
        BY <3>7 DEF Both
      <4>2. Location(row, col) < LocationWord
        <5> PICK i \in DOMAIN text[g] : /\ Visible(text[g][i]) /\ RowOf(text[g], i) = row
                                        /\ ColOf(text[g], i) = col
          BY <1>3
        <5> QED BY <1>5 DEF Fits, RowsFit
      <4>3. Location(row, col) % LocationWord # 0
        BY <1>3
      <4>1. FrameBlinker(byte[0], byte[1], row, col) \in Framed
        <5>1. /\ byte[0] = NextByte(0) /\ Shown(byte[0]) \in Chars \ {NL}
              /\ byte[1] = NextByte(1) /\ Shown(byte[1]) \in Chars \ {NL}
          BY <1>2, BytesAre DEF Both
        <5> QED BY <1>2, <4>3, <5>1, FramedIs
      <4> QED BY <4>1, <4>2, RequestsAre
    <3> QED BY <1>1, <1>2, <1>5, <2>1, <2>3, <3>4, <3>5, <3>6, <3>7, LaysCell DEF Fits
  <2> QED BY <2>2, <2>3
<1>6. pc' = "overlaid" => eof'[0] /\ eof'[1]
  BY <1>1
<1> QED BY <1>4, <1>5, <1>6 DEF FramesInv

(* The overlay is what is laid when both texts have ended.                 *)
LEMMA FramesLaid ==
  ASSUME Inv, FramesInv
  PROVE  FramesAgree
<1> SUFFICES ASSUME pc = "overlaid", Fits
             PROVE  /\ Len(List) = Cardinality(Overlay)
                    /\ Overlay = Cells(blink_array)
  <2>1. Listed(List)
    BY HasList DEF Inv, LibInv
  <2>2. Cells(blink_array) = {<<blink_array[p].location, blink_array[p].on_char, blink_array[p].off_char>> :
                                p \in ToSet(List)}
    BY <2>1 DEF Listed, Holds, Cells
  <2> QED BY <2>2 DEF FramesAgree, Fits
<1>1. row \in Nat /\ col \in Nat /\ \A f \in Both : text[f] \in Seq(Chars)
  BY DEF Inv, FrameType
<1>2. LaidSoFar /\ \A f \in Both : Finished(text[f], pos[f], c[f], row, col)
  BY DEF Inv, FramesInv, ReadInv, ReadSoFar, Both
<1>3. ASSUME NEW r \in Nat, NEW k \in Nat, ~Precedes(r, k, row, col) PROVE ~Marked(r, k)
  <2>1. \A f \in Both : CharAt(text[f], r, k) = Space
    BY <1>1, <1>2, <1>3, NothingLater
  <2> QED BY <2>1 DEF Marked, Both
<1>4. LaidBefore(row, col) = Overlay
  BY <1>1, <1>3, LaidAll
<1> QED BY <1>2, <1>4 DEF LaidSoFar

(* Once both files have been read, the blinkers are the overlay of the two  *)
(* texts, whichever ends or breaks its lines first: for all texts whose     *)
(* lines fit the screen and whose rows fit the word of a location, as long  *)
(* as there are slots for all of the overlay.                               *)
THEOREM OverlayCorrect == Spec => []FramesAgree
<1>1. Init => Inv /\ FramesInv
  <2> SUFFICES ASSUME Init PROVE Inv /\ FramesInv
    OBVIOUS
  <2>1. Inv /\ Listed(<<>>)
    BY InitInv
  <2>2. List = <<>> /\ Used(blink_array) = {}
    <3>1. List = <<>>
      BY <2>1, HasList DEF Inv, LibInv
    <3>2. Used(blink_array) = {}
      BY DEF Init, Used, Free
    <3> QED BY <3>1, <3>2
  <2>3. Cells(blink_array) = {}
    BY <2>2 DEF Cells
  <2>4. LaidSoFar
    <3>1. LaidBefore(row, col) = {}
      BY LaidNone DEF Init
    <3> QED BY <2>2, <2>3, <3>1, FS_EmptySet DEF LaidSoFar
  <2>5. pc = "frames"
    BY DEF Init
  <2> QED BY <2>1, <2>4, <2>5 DEF FramesInv
<1>2. Inv /\ FramesInv /\ [Next]_vars => FramesInv'
  <2> SUFFICES ASSUME Inv, FramesInv, [Next]_vars PROVE FramesInv'
    OBVIOUS
  <2>1. CASE FrameByte
    BY <2>1, FrameLays
  <2>2. CASE FramesReturn
    BY <2>2 DEF FramesReturn, FramesInv
  <2>3. CASE pc = "main" /\ UNCHANGED frameVars
    BY <2>3 DEF frameVars, FramesInv
  <2>4. CASE UNCHANGED vars
    <3>1. UNCHANGED text /\ UNCHANGED libVars /\ UNCHANGED frameVars
      BY <2>4 DEF vars, frameVars
    <3>2. Fits' <=> Fits
      BY <3>1, TextStays
    <3>3. LaidSoFar' <=> LaidSoFar
      BY <3>1, TextStays, LibStays DEF LaidSoFar, Cells, Used, frameVars
    <3> QED BY <3>1, <3>2, <3>3 DEF FramesInv, frameVars
  <2> QED BY <2>1, <2>2, <2>3, <2>4 DEF Next, AddCall, RemoveCall, SyncCall, RtcRead
<1>3. Inv /\ FramesInv => FramesAgree
  BY FramesLaid
<1> QED BY <1>1, <1>2, <1>3, BlinkInvariant, PTL DEF Spec
=============================================================================
