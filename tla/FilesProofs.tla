---------------------------- MODULE FilesProofs ----------------------------
(***************************************************************************)
(* Proofs about file descriptors, for any image that meets ImageAssumption *)
(* and any number of descriptors, processes and sizes of reads.            *)
(*                                                                         *)
(* Three layers: division and remainder, which the prover knows little of; *)
(* read_data(), that it returns consecutive bytes of the file and when it  *)
(* returns none; and the invariant of the descriptors, whose strength is   *)
(* that a read in progress holds the bytes that follow the position of its *)
(* own descriptor, which no other program can move.                        *)
(***************************************************************************)
EXTENDS Files, SequenceTheorems, WellFoundedInduction, TLAPS

(* Division of natural numbers.                                            *)
LEMMA Divided ==
  ASSUME NEW a \in Nat, NEW b \in Nat \ {0}
  PROVE  a \div b \in Nat /\ a % b \in 0..(b - 1) /\ a = b * (a \div b) + (a % b)
OBVIOUS

LEMMA MoreTimes ==
  ASSUME NEW b \in Nat, NEW q \in Int, NEW s \in Int, q < s
  PROVE  b * q + b <= b * s
<1>1. PICK d \in Nat : s = q + 1 + d
  <2>1. s - q - 1 \in Nat /\ s = q + 1 + (s - q - 1)
    OBVIOUS
  <2> QED BY <2>1
<1>2. b * s = b * q + b + b * d
  BY <1>1
<1>3. b * d \in Nat
  OBVIOUS
<1>4. b * q \in Int
  OBVIOUS
<1> QED BY <1>2, <1>3, <1>4

LEMMA Quotient ==
  ASSUME NEW a \in Nat, NEW b \in Nat \ {0}, NEW q \in Int, NEW r \in 0..(b - 1), a = b * q + r
  PROVE  a \div b = q /\ a % b = r
<1> DEFINE s == a \div b
           m == a % b
<1>1. s \in Nat /\ m \in 0..(b - 1) /\ a = b * s + m
  BY Divided
<1>2. b * s \in Int /\ b * q \in Int
  BY <1>1
<1> HIDE DEF s, m
<1>3. CASE q < s
  <2>1. b * q + b <= b * s
    BY <1>1, <1>3, MoreTimes
  <2> QED BY <1>1, <1>2, <2>1
<1>4. CASE s < q
  <2>1. b * s + b <= b * q
    BY <1>1, <1>4, MoreTimes
  <2> QED BY <1>1, <1>2, <2>1
<1>5. CASE s = q
  <2>1. m = r
    BY <1>1, <1>2, <1>5
  <2> QED BY <1>5, <2>1 DEF s, m
<1> QED BY <1>1, <1>3, <1>4, <1>5

LEMMA DividedMore ==
  ASSUME NEW a \in Nat, NEW c \in Nat, a <= c, NEW b \in Nat \ {0}
  PROVE  a \div b <= c \div b
<1> DEFINE q == a \div b
           s == c \div b
<1>1. q \in Nat /\ s \in Nat /\ b * q <= a /\ c < b * s + b
  BY Divided
<1> HIDE DEF q, s
<1>2. ~ (s < q)
  <2> SUFFICES ASSUME s < q PROVE FALSE
    OBVIOUS
  <2>1. b * s + b <= b * q
    BY <1>1, MoreTimes
  <2>2. b * s \in Nat /\ b * q \in Nat
    BY <1>1
  <2> QED BY <1>1, <2>1, <2>2
<1> QED BY <1>1, <1>2 DEF q, s

LEMMA LeastNat ==
  ASSUME NEW S, S \subseteq Nat, S # {}
  PROVE  \E k \in S : \A j \in S : k <= j
<1> DEFINE R == OpToRel(<, Nat)
<1>1. PICK k \in S : \A j \in S : ~ (<<j, k>> \in R)
  BY NatLessThanWellFounded, WFMin
<1>2. \A j \in S : ~ (j < k)
  BY <1>1 DEF OpToRel
<1> QED BY <1>2

(* Counting from the beginning of the block in which the offset lies.      *)
LEMMA FromBlock ==
  ASSUME NEW o \in Nat, NEW i \in Nat, NEW b \in Nat \ {0}
  PROVE  /\ (o + i) \div b = (o \div b) + (((o % b) + i) \div b)
         /\ (o + i) % b = ((o % b) + i) % b
<1> DEFINE q == o \div b
           r == o % b
           s == (r + i) \div b
           m == (r + i) % b
<1>1. q \in Nat /\ r \in 0..(b - 1) /\ o = b * q + r
  BY Divided
<1>2. r + i \in Nat
  BY <1>1
<1>3. s \in Nat /\ m \in 0..(b - 1) /\ r + i = b * s + m
  BY <1>2, Divided
<1> HIDE DEF q, r, s, m
<1>4. b * (q + s) = b * q + b * s /\ b * q \in Nat /\ b * s \in Nat
  BY <1>1, <1>3
<1>5. o + i = b * (q + s) + m
  BY <1>1, <1>3, <1>4
<1>6. (o + i) \div b = q + s /\ (o + i) % b = m
  <2>1. o + i \in Nat /\ q + s \in Int
    BY <1>1, <1>3
  <2> QED BY <1>3, <1>5, <2>1, Quotient
<1> QED BY <1>6 DEF q, r, s, m

(* The block a read gets to is among those of the inode.                   *)
LEMMA BlocksInside ==
  ASSUME NEW inode \in Inodes, NEW o \in Nat, o < Inode[inode].length,
         NEW n \in Nat, n <= Inode[inode].length - (o % BlockSize),
         NEW k \in Int, o \div BlockSize <= k,
         k <= (o \div BlockSize) + (((o % BlockSize) + n) \div BlockSize)
  PROVE  Inode[inode].dataBlockNum[k] \in 0..(num_data_blocks - 1)
<1> DEFINE len == Inode[inode].length
           b == BlockSize
           q == o \div b
           r == o % b
           s == (r + n) \div b
           e == (2 * len) \div b
<1>1. /\ b \in Nat \ {0} /\ len \in Nat /\ e < Entries /\ Entries \in Nat
      /\ Inode[inode].dataBlockNum \in [0..(Entries - 1) -> 0..(num_data_blocks - 1)]
  BY ImageAssumption
<1>2. q \in Nat /\ r \in 0..(b - 1) /\ o = b * q + r
  BY <1>1, Divided
<1>3. r + n \in Nat
  BY <1>2
<1>4. s \in Nat /\ b * s <= r + n
  BY <1>1, <1>3, Divided
<1>5. 2 * len \in Nat
  BY <1>1
<1>6. e \in Nat /\ 2 * len < b * e + b
  <2> HIDE DEF len, b
  <2>1. e \in Nat /\ (2 * len) % b \in 0..(b - 1) /\ 2 * len = b * e + ((2 * len) % b)
    BY <1>1, <1>5, Divided
  <2> QED BY <1>1, <2>1
<1> HIDE DEF len, b, q, r, s, e
<1>7. q + s <= e
  <2> SUFFICES ASSUME e < q + s PROVE FALSE
    BY <1>2, <1>4, <1>6
  <2>1. b * e + b <= b * (q + s)
    <3>1. q + s \in Int /\ b \in Nat
      BY <1>1, <1>2, <1>4
    <3> QED BY <1>6, <3>1, MoreTimes
  <2>2. b * (q + s) = b * q + b * s /\ b * q \in Nat /\ b * s \in Nat /\ b * e \in Nat
    BY <1>1, <1>2, <1>4, <1>6
  <2>3. o < len /\ n <= len - r
    BY DEF len, r, b
  <2> DEFINE bq == b * q
             bs == b * s
             be == b * e
  <2>4. /\ bq \in Nat /\ bs \in Nat /\ be \in Nat /\ be + b <= bq + bs
        /\ o = bq + r /\ bs <= r + n /\ 2 * len < be + b
    BY <1>2, <1>4, <1>6, <2>1, <2>2
  <2> HIDE DEF bq, bs, be
  <2> QED BY ONLY <1>1, <1>2, <2>3, <2>4, n \in Nat, o \in Nat
<1>8. q <= k /\ k <= q + s
  BY DEF q, s, r, b
<1>9. k \in 0..(Entries - 1)
  BY <1>1, <1>2, <1>4, <1>6, <1>7, <1>8
<1> QED BY <1>1, <1>9

(* A read that starts inside a file gives at least a byte, and its bytes are *)
(* those of the file, or beyond it, from the offset on.                    *)
LEMMA ReadData ==
  ASSUME NEW inode \in Inodes, NEW o \in Nat, o < Inode[inode].length, NEW n \in Nat \ {0}
  PROVE  LET result == read_data(inode, o, n)
         IN  /\ result.retval \in Nat \ {0}
             /\ result.data \in Seq(Places) /\ Len(result.data) = result.retval
             /\ \A i \in 1..result.retval : result.data[i] = FileByte(inode, o + i - 1)
             /\ Inode[inode].length <= BlockSize => o + result.retval <= Inode[inode].length
<1> DEFINE len == Inode[inode].length
           m == bytes_read(inode, o, n)
           r == o % BlockSize
<1>1. /\ BlockSize \in Nat \ {0} /\ len \in Nat /\ num_data_blocks \in Nat
  BY ImageAssumption
<1>2. r \in 0..(BlockSize - 1) /\ o \div BlockSize \in Nat /\ r <= o
  <2>1. r \in 0..(BlockSize - 1) /\ o \div BlockSize \in Nat
        /\ o = BlockSize * (o \div BlockSize) + r
    BY <1>1, Divided
  <2>2. BlockSize * (o \div BlockSize) \in Nat
    BY <1>1, <2>1
  <2> HIDE DEF r
  <2> QED BY <1>1, <2>1, <2>2
<1>3. m = IF n < len - r THEN n ELSE len - r
  BY DEF bytes_read, Least
<1>4. m \in Nat \ {0} /\ m <= n /\ m <= len - r
  <2>1. o < len
    OBVIOUS
  <2> HIDE DEF r, len, m
  <2> QED BY <1>1, <1>2, <1>3, <2>1
<1> HIDE DEF m
<1>5. ASSUME NEW k \in (o \div BlockSize)..((o \div BlockSize) + ((r + m) \div BlockSize))
      PROVE  Inode[inode].dataBlockNum[k] \in 0..(num_data_blocks - 1)
  <2>1. k \in Int /\ o \div BlockSize <= k
        /\ k <= (o \div BlockSize) + ((r + m) \div BlockSize)
    OBVIOUS
  <2> QED BY <1>4, <2>1, BlocksInside
<1>6. read_data(inode, o, n) = Result(m, [i \in 1..m |-> Place(inode, o, i)])
  <2>1. ~ (o >= len)
    BY <1>1
  <2>2. \A k \in (o \div BlockSize)..((o \div BlockSize) + ((r + m) \div BlockSize)) :
          ~ (Inode[inode].dataBlockNum[k] >= num_data_blocks)
    BY <1>1, <1>5
  <2> QED BY <2>1, <2>2 DEF read_data, m
<1>7. ASSUME NEW i \in 1..m
      PROVE  Place(inode, o, i) = FileByte(inode, o + i - 1) /\ Place(inode, o, i) \in Places
  <2> DEFINE x == r + i - 1
  <2>1. i - 1 \in Nat /\ o + i - 1 = o + (i - 1) /\ x = r + (i - 1)
    BY <1>2, <1>4
  <2>2. /\ (o + i - 1) \div BlockSize = (o \div BlockSize) + (x \div BlockSize)
        /\ (o + i - 1) % BlockSize = x % BlockSize
    BY <1>1, <2>1, FromBlock
  <2>3. Place(inode, o, i) = FileByte(inode, o + i - 1)
    BY <2>2 DEF Place, FileByte
  <2>4. x \in Nat /\ r + m \in Nat /\ x <= r + m
    <3> HIDE DEF r
    <3> QED BY <1>2, <1>4
  <2>5. Place(inode, o, i) =
          <<Inode[inode].dataBlockNum[(o \div BlockSize) + (x \div BlockSize)], x % BlockSize>>
    BY DEF Place
  <2> HIDE DEF x, r
  <2>6. x % BlockSize \in Nat /\ x \div BlockSize \in Nat
    <3>1. x % BlockSize \in 0..(BlockSize - 1) /\ x \div BlockSize \in Nat
      BY ONLY <1>1, <2>4, Divided
    <3> QED BY ONLY <1>1, <3>1
  <2>7. x \div BlockSize <= (r + m) \div BlockSize
    BY <1>1, <2>4, DividedMore
  <2>8. (r + m) \div BlockSize \in Nat
    BY <1>1, <2>4, Divided
  <2> DEFINE y == x \div BlockSize
             z == (r + m) \div BlockSize
             q == o \div BlockSize
  <2>9. q + y \in q..(q + z)
    <3>1. q \in Nat /\ y \in Nat /\ z \in Nat /\ y <= z
      BY <1>2, <2>6, <2>7, <2>8
    <3> HIDE DEF q, y, z
    <3> QED BY <3>1
  <2>10. Inode[inode].dataBlockNum[q + y] \in 0..(num_data_blocks - 1)
    BY <1>5, <2>9
  <2> HIDE DEF y
  <2>11. <<Inode[inode].dataBlockNum[q + y], x % BlockSize>> \in Places
    BY <1>1, <2>6, <2>10 DEF Places
  <2> QED BY <2>3, <2>5, <2>11 DEF y
<1>8. /\ [i \in 1..m |-> Place(inode, o, i)] \in Seq(Places)
      /\ Len([i \in 1..m |-> Place(inode, o, i)]) = m
  BY <1>4, <1>7
<1>9. len <= BlockSize => o + m <= len
  <2> SUFFICES ASSUME len <= BlockSize PROVE o + m <= len
    OBVIOUS
  <2>1. o = BlockSize * 0 + o /\ o \in 0..(BlockSize - 1)
    BY <1>1
  <2>2. r = o
    BY <1>1, <2>1, Quotient
  <2> QED BY <1>1, <1>4, <2>2
<1> HIDE DEF r, len
<1> QED BY <1>4, <1>6, <1>7, <1>8, <1>9 DEF Result, len

-----------------------------------------------------------------------------
(* The invariant: about a descriptor, about a read in progress through it,  *)
(* and about a terminal.                                                   *)
DescriptorOK(d) ==
  /\ Len(d.got) = d.filePos
  /\ \A k \in 1..d.filePos : d.got[k] = Content(d, k - 1)
  /\ Readable(d) /\ (d.type = "dir" \/ Size(d) <= BlockSize) => d.filePos <= Size(d)

CallOK(c, d) ==
  /\ Readable(d) /\ c.retval \in Nat /\ c.data \in Seq(Places) /\ Len(c.data) = c.retval
  /\ \A k \in 1..c.retval : c.data[k] = Content(d, d.filePos + k - 1)
  /\ c.retval > 0 \/ d.filePos >= Size(d)
  /\ d.type = "dir" \/ Size(d) <= BlockSize => d.filePos + c.retval <= Size(d)

TerminalOK(t) ==
  /\ \A p \in 1..Top(t), i \in Fds : DescriptorOK(fd_arr[t][p][i])
  /\ call[t] # NoCall => /\ call[t].fd \in Fds
                         /\ CallOK(call[t], fd_arr[t][Top(t)][call[t].fd])

RunsUsed == terminal_curr \in Used

IInv == TypeOK /\ RunsUsed /\ \A t \in Used : TerminalOK(t)

LEMMA SizeNat == ASSUME NEW d \in Descriptor PROVE Size(d) \in Nat
BY ImageAssumption DEF Size, Descriptor

LEMMA Fresh ==
  ASSUME NEW type \in {"free", "rtc", "dir", "file"}, NEW inode \in Inodes
  PROVE  Fd(type, inode) \in Descriptor /\ DescriptorOK(Fd(type, inode))
<1>1. Fd(type, inode) \in Descriptor
  BY DEF Fd, Descriptor
<1>2. Fd(type, inode).filePos = 0 /\ Fd(type, inode).got = <<>>
  BY DEF Fd
<1>3. Size(Fd(type, inode)) \in Nat
  BY <1>1, SizeNat
<1> HIDE DEF Fd
<1> QED BY <1>1, <1>2, <1>3 DEF DescriptorOK

LEMMA NewOK ==
  /\ NewProcess \in [Fds -> Descriptor] /\ \A i \in Fds : DescriptorOK(NewProcess[i])
  /\ NoCall \in [fd : Fds \cup {0}, retval : Int, data : Seq(Places)]
<1>1. Fd("free", 0) \in Descriptor /\ DescriptorOK(Fd("free", 0))
  BY Fresh, ImageAssumption
<1>2. NoCall \in [fd : Fds \cup {0}, retval : Int, data : Seq(Places)]
  BY DEF NoCall
<1> QED BY <1>1, <1>2 DEF NewProcess

LEMMA InitIInv == Init => IInv
<1> SUFFICES ASSUME Init PROVE IInv
  OBVIOUS
<1> USE FilesAssumption
<1>1. SwitchTypeOK /\ RunsUsed
  BY DEF Init, SwitchInit, SwitchTypeOK, Terminals, RunsUsed
<1>2. \A t \in Used : fd_arr[t] = <<NewProcess>> /\ call[t] = NoCall
  BY DEF Init
<1>3. fd_arr \in [Used -> Seq([Fds -> Descriptor])] /\ \A t \in Used : Top(t) = 1
  BY NewOK DEF Init, Top
<1>4. TypeOK
  BY <1>1, <1>3, NewOK DEF TypeOK, Init
<1>5. \A t \in Used : TerminalOK(t)
  BY <1>2, <1>3, NewOK DEF TerminalOK
<1> QED BY <1>1, <1>4, <1>5 DEF IInv

LEMMA Unchanged ==
  ASSUME NEW t, TerminalOK(t), fd_arr'[t] = fd_arr[t], call'[t] = call[t]
  PROVE  TerminalOK(t)'
<1>1. Top(t)' = Top(t)
  BY DEF Top
<1> QED BY <1>1 DEF TerminalOK

(* A change of one descriptor of the running process.                      *)
LEMMA SetFd ==
  ASSUME TypeOK, RunsUsed, NEW i \in Fds, NEW d \in Descriptor, fd_arr' = WithMyFd(i, d)
  PROVE  /\ fd_arr' \in [Used -> Seq([Fds -> Descriptor])]
         /\ \A u \in Used : Top(u)' = Top(u) /\ (u # terminal_curr => fd_arr'[u] = fd_arr[u])
         /\ \A p \in 1..Top(terminal_curr), j \in Fds :
              fd_arr'[terminal_curr][p][j] =
                IF p = Top(terminal_curr) /\ j = i THEN d ELSE fd_arr[terminal_curr][p][j]
<1> DEFINE c == terminal_curr
           n == Top(c)
           s == fd_arr[c]
           table == [s[n] EXCEPT ![i] = d]
           s2 == [s EXCEPT ![n] = table]
<1>1. c \in Used /\ s \in Seq([Fds -> Descriptor]) /\ n = Len(s) /\ n \in Nat \ {0}
  BY DEF TypeOK, RunsUsed, Top
<1>2. s[n] \in [Fds -> Descriptor]
  BY <1>1
<1>3. table \in [Fds -> Descriptor] /\ \A j \in Fds : table[j] = IF j = i THEN d ELSE s[n][j]
  BY <1>2
<1>4. fd_arr' = [fd_arr EXCEPT ![c] = s2]
  BY DEF WithMyFd
<1>5. fd_arr'[c] = s2 /\ \A u \in Used : u # c => fd_arr'[u] = fd_arr[u]
  BY <1>1, <1>4 DEF TypeOK
<1> HIDE DEF table
<1>6. s2 \in Seq([Fds -> Descriptor]) /\ Len(s2) = n
      /\ \A p \in 1..n : s2[p] = IF p = n THEN table ELSE s[p]
  <2> HIDE DEF s, n
  <2> QED BY <1>1, <1>3
<1>7. fd_arr' \in [Used -> Seq([Fds -> Descriptor])]
  BY <1>1, <1>4, <1>6 DEF TypeOK
<1>8. \A u \in Used : Top(u)' = Top(u)
  BY <1>1, <1>5, <1>6 DEF Top
<1>9. \A p \in 1..n, j \in Fds : fd_arr'[c][p][j] = IF p = n /\ j = i THEN d ELSE s[p][j]
  BY <1>3, <1>5, <1>6
<1> QED BY <1>5, <1>7, <1>8, <1>9

(* What a step by the running program owes the invariant.                  *)
LEMMA OwnStep ==
  ASSUME IInv, UNCHANGED switchVars,
         fd_arr' \in [Used -> Seq([Fds -> Descriptor])],
         \A u \in Used : Top(u)' \in 1..MaxDepth,
         call' \in [Used -> [fd : Fds \cup {0}, retval : Int, data : Seq(Places)]],
         \A u \in Used : u # terminal_curr => fd_arr'[u] = fd_arr[u] /\ call'[u] = call[u],
         TerminalOK(terminal_curr)'
  PROVE  IInv'
<1>1. SwitchTypeOK' /\ RunsUsed'
  BY DEF IInv, TypeOK, SwitchTypeOK, switchVars, RunsUsed
<1>2. TypeOK'
  BY <1>1 DEF TypeOK
<1>3. ASSUME NEW u \in Used PROVE TerminalOK(u)'
  <2>1. CASE u # terminal_curr
    BY <2>1, Unchanged DEF IInv
  <2>2. CASE u = terminal_curr
    <3>1. terminal_curr' = terminal_curr
      BY DEF switchVars
    <3> QED BY <2>2, <3>1 DEF TerminalOK, Top
  <2> QED BY <2>1, <2>2
<1> QED BY <1>1, <1>2, <1>3 DEF IInv

(* The program is not in a read and one of its descriptors is replaced by a *)
(* good one: open() and close().                                           *)
LEMMA ReplaceFd ==
  ASSUME IInv, InProgram, NEW i \in Fds, NEW d \in Descriptor, DescriptorOK(d),
         fd_arr' = WithMyFd(i, d), UNCHANGED <<switchVars, call>>
  PROVE  IInv'
<1> DEFINE c == terminal_curr
<1>1. TypeOK /\ RunsUsed /\ c \in Used /\ TerminalOK(c)
  BY DEF IInv, RunsUsed
<1>2. /\ fd_arr' \in [Used -> Seq([Fds -> Descriptor])]
      /\ \A u \in Used : Top(u)' = Top(u) /\ (u # c => fd_arr'[u] = fd_arr[u])
      /\ \A p \in 1..Top(c), j \in Fds :
           fd_arr'[c][p][j] = IF p = Top(c) /\ j = i THEN d ELSE fd_arr[c][p][j]
  BY <1>1, SetFd
<1>3. \A p \in 1..Top(c), j \in Fds : DescriptorOK(fd_arr'[c][p][j])
  BY <1>1, <1>2 DEF TerminalOK
<1>4. c' = c /\ Top(c)' = Top(c) /\ call' = call /\ call[c] = NoCall
  BY <1>1, <1>2 DEF switchVars, InProgram
<1>5. TerminalOK(c)'
  BY <1>3, <1>4 DEF TerminalOK
<1>6. \A u \in Used : Top(u)' \in 1..MaxDepth
  BY <1>1, <1>2 DEF TypeOK
<1> QED BY <1>1, <1>2, <1>4, <1>5, <1>6, OwnStep DEF TypeOK

LEMMA OpenedOK ==
  ASSUME NEW name, name = "rtc" \/ Matches(name) # {}
  PROVE  Opened(name) \in Descriptor /\ DescriptorOK(Opened(name))
<1> DEFINE requested == read_dentry_by_name(name)
<1>0. 0 \in Inodes
  BY ImageAssumption
<1>1. CASE name = "rtc"
  BY <1>0, <1>1, Fresh DEF Opened
<1>2. CASE name # "rtc"
  <2>1. Matches(name) # {} /\ Matches(name) \subseteq Nat
    BY <1>2, ImageAssumption DEF Matches
  <2>2. \E k \in Matches(name) : \A j \in Matches(name) : k <= j
    BY <2>1, LeastNat
  <2>3. PICK k \in Matches(name) : requested = dirList[k]
    BY <2>2 DEF read_dentry_by_name
  <2>4. requested.fileType \in {0, 1, 2} /\ requested.inodeNum \in Inodes
    BY <2>3, ImageAssumption DEF Matches
  <2>5. CASE requested.fileType = 0
    BY <1>0, <2>5, Fresh DEF Opened
  <2>6. CASE requested.fileType = 1
    BY <1>0, <1>2, <2>6, Fresh DEF Opened
  <2>7. CASE requested.fileType = 2
    BY <1>2, <2>4, <2>7, Fresh DEF Opened
  <2> QED BY <2>4, <2>5, <2>6, <2>7
<1> QED BY <1>1, <1>2

(* What read_data() or dir_read() gives continues what the descriptor gave. *)
LEMMA ReadOK ==
  ASSUME NEW d \in Descriptor, DescriptorOK(d), Readable(d), NEW n \in Nat \ {0}, NEW i,
         NEW result, result = IF d.type = "dir" THEN dir_read(d.filePos)
                              ELSE read_data(d.inode, d.filePos, n)
  PROVE  CallOK([fd |-> i, retval |-> result.retval, data |-> result.data], d)
<1> DEFINE r == [fd |-> i, retval |-> result.retval, data |-> result.data]
<1> SUFFICES CallOK(r, d)
  OBVIOUS
<1>0. d.filePos \in Nat /\ d.inode \in Inodes /\ Size(d) \in Nat
  BY SizeNat DEF Descriptor
<1>1. CASE d.type = "dir" /\ d.filePos >= Size(d)
  <2>1. result = Result(0, <<>>)
    BY <1>1 DEF dir_read, Size
  <2>2. r.retval = 0 /\ r.data = <<>>
    BY <2>1 DEF Result
  <2>3. d.filePos <= Size(d)
    BY <1>1 DEF DescriptorOK
  <2> HIDE DEF r
  <2> QED BY <1>0, <1>1, <2>2, <2>3 DEF CallOK
<1>2. CASE d.type = "dir" /\ ~(d.filePos >= Size(d))
  <2>1. result = Result(1, << <<-1, d.filePos>> >>)
    BY <1>2 DEF dir_read, Size
  <2>2. r.retval = 1 /\ r.data = << <<-1, d.filePos>> >>
    BY <2>1 DEF Result
  <2>3. <<-1, d.filePos>> \in Places
    BY <1>0, ImageAssumption DEF Places
  <2>4. Content(d, d.filePos) = <<-1, d.filePos>>
    BY <1>2 DEF Content
  <2> HIDE DEF r
  <2>5. r.data \in Seq(Places) /\ Len(r.data) = 1 /\ r.data[1] = Content(d, d.filePos)
    BY <2>2, <2>3, <2>4
  <2> QED BY <1>0, <1>2, <2>2, <2>5 DEF CallOK
<1>3. CASE d.type # "dir" /\ d.filePos >= Size(d)
  <2>1. result = Result(0, <<>>)
    BY <1>0, <1>3 DEF read_data, Size
  <2>2. r.retval = 0 /\ r.data = <<>>
    BY <2>1 DEF Result
  <2>3. Size(d) <= BlockSize => d.filePos <= Size(d)
    BY DEF DescriptorOK
  <2> HIDE DEF r
  <2> QED BY <1>0, <1>3, <2>2, <2>3 DEF CallOK
<1>4. CASE d.type # "dir" /\ ~(d.filePos >= Size(d))
  <2>1. Size(d) = Inode[d.inode].length /\ d.filePos < Inode[d.inode].length
    BY <1>0, <1>4 DEF Size
  <2>2. /\ result.retval \in Nat \ {0} /\ result.data \in Seq(Places)
        /\ Len(result.data) = result.retval
        /\ \A k \in 1..result.retval : result.data[k] = FileByte(d.inode, d.filePos + k - 1)
        /\ Size(d) <= BlockSize => d.filePos + result.retval <= Size(d)
    BY <1>0, <1>4, <2>1, ReadData
  <2>3. \A p : Content(d, p) = FileByte(d.inode, p)
    BY <1>4 DEF Content
  <2>4. r.retval = result.retval /\ r.data = result.data
    OBVIOUS
  <2> HIDE DEF r
  <2> QED BY <1>4, <2>2, <2>3, <2>4 DEF CallOK
<1> QED BY <1>1, <1>2, <1>3, <1>4

LEMMA Joined ==
  ASSUME NEW a \in Seq(Places), NEW b \in Seq(Places), NEW m, NEW n, Len(a) = m, Len(b) = n
  PROVE  /\ a \o b \in Seq(Places) /\ Len(a \o b) = m + n
         /\ \A k \in 1..(m + n) : (a \o b)[k] = IF k <= m THEN a[k] ELSE b[k - m]
BY ConcatProperties

(* The position moves by what was read.                                    *)
LEMMA MovedOK ==
  ASSUME NEW d \in Descriptor, DescriptorOK(d), NEW c, CallOK(c, d)
  PROVE  Moved(d, c) \in Descriptor /\ DescriptorOK(Moved(d, c))
<1> DEFINE e == Moved(d, c)
           g == d.got \o c.data
           p == d.filePos
           r == c.retval
<1>1. /\ p \in Nat /\ d.got \in Seq(Places) /\ Len(d.got) = p
      /\ r \in Nat /\ c.data \in Seq(Places) /\ Len(c.data) = r
  BY DEF Descriptor, DescriptorOK, CallOK
<1>2. /\ g \in Seq(Places) /\ Len(g) = p + r
      /\ \A k \in 1..(p + r) : g[k] = IF k <= p THEN d.got[k] ELSE c.data[k - p]
  <2> DEFINE x == d.got
             y == c.data
  <2>1. x \in Seq(Places) /\ y \in Seq(Places) /\ Len(x) = p /\ Len(y) = r
    BY <1>1
  <2> HIDE DEF p, r, x, y
  <2>2. /\ x \o y \in Seq(Places) /\ Len(x \o y) = p + r
        /\ \A k \in 1..(p + r) : (x \o y)[k] = IF k <= p THEN x[k] ELSE y[k - p]
    BY <2>1, Joined
  <2> QED BY ONLY <2>2 DEF x, y
<1>3. e = [type |-> d.type, inode |-> d.inode, filePos |-> p + r, got |-> g]
  <2>1. r # -1
    BY <1>1
  <2>2. e = [d EXCEPT !.filePos = p + r, !.got = g]
    BY <2>1, Zenon DEF Moved
  <2> HIDE DEF e, g, p, r
  <2> QED BY <2>2 DEF Descriptor
<1> HIDE DEF e, g
<1>4. e.type = d.type /\ e.inode = d.inode /\ e.filePos = p + r /\ e.got = g
  BY <1>3
<1>5. e \in Descriptor
  <2>1. d.type \in {"free", "rtc", "dir", "file"} /\ d.inode \in Inodes
    BY DEF Descriptor
  <2> HIDE DEF p, r
  <2> QED BY <1>1, <1>2, <1>3, <2>1 DEF Descriptor
<1>6. Size(e) = Size(d) /\ \A q : Content(e, q) = Content(d, q)
  BY <1>4 DEF Size, Content
<1>7. ASSUME NEW k \in 1..(p + r) PROVE g[k] = Content(d, k - 1)
  <2>1. CASE k <= p
    <3>1. k \in 1..p /\ g[k] = d.got[k]
      <4> HIDE DEF p, r
      <4> QED BY <1>1, <1>2, <2>1
    <3> QED BY <3>1 DEF DescriptorOK
  <2>2. CASE k > p
    <3>1. k - p \in 1..r /\ p + (k - p) - 1 = k - 1 /\ g[k] = c.data[k - p]
      <4> HIDE DEF p, r
      <4> QED BY <1>1, <1>2, <2>2
    <3>2. c.data[k - p] = Content(d, p + (k - p) - 1)
      BY <3>1 DEF CallOK
    <3> QED BY <3>1, <3>2
  <2> QED BY <1>1, <2>1, <2>2
<1>8. Readable(e) /\ (e.type = "dir" \/ Size(e) <= BlockSize) => e.filePos <= Size(e)
  BY <1>4, <1>6 DEF CallOK
<1>9. DescriptorOK(e)
  <2> HIDE DEF p, r
  <2> QED BY <1>2, <1>4, <1>6, <1>7, <1>8 DEF DescriptorOK
<1> QED BY <1>5, <1>9 DEF e

(* halt() of the process on top of a terminal.                             *)
LEMMA HaltTopOK ==
  ASSUME IInv, NEW t \in Used, HaltTop(t), SwitchTypeOK', RunsUsed'
  PROVE  IInv'
<1> USE FilesAssumption
<1>1. TypeOK /\ TerminalOK(t)
  BY DEF IInv
<1> DEFINE s == fd_arr[t]
           n == Top(t)
<1>2. s \in Seq([Fds -> Descriptor]) /\ n = Len(s) /\ n \in 1..MaxDepth
  BY <1>1 DEF TypeOK, Top
<1>3. /\ Ended(t) \in Seq([Fds -> Descriptor]) /\ Len(Ended(t)) \in 1..MaxDepth
      /\ \A p \in 1..Len(Ended(t)), i \in Fds : DescriptorOK(Ended(t)[p][i])
  <2>1. CASE n > 1
    <3>1. Ended(t) = SubSeq(s, 1, n - 1)
      BY <2>1 DEF Ended
    <3>2. \A p \in 1..n, i \in Fds : DescriptorOK(s[p][i])
      BY <1>1 DEF TerminalOK
    <3> HIDE DEF s, n
    <3>3. /\ Ended(t) \in Seq([Fds -> Descriptor]) /\ Len(Ended(t)) = n - 1
          /\ \A p \in 1..(n - 1) : Ended(t)[p] = s[p]
      BY <1>2, <2>1, <3>1
    <3> QED BY <1>2, <2>1, <3>2, <3>3
  <2>2. CASE ~(n > 1)
    <3>1. Ended(t) = <<NewProcess>>
      BY <2>2 DEF Ended
    <3>2. Len(Ended(t)) = 1 /\ Ended(t)[1] = NewProcess /\ Ended(t) \in Seq([Fds -> Descriptor])
      BY <3>1, NewOK
    <3> QED BY <3>2, NewOK
  <2> QED BY <2>1, <2>2
<1>4. /\ fd_arr' = [fd_arr EXCEPT ![t] = Ended(t)] /\ call' = [call EXCEPT ![t] = NoCall]
  BY DEF HaltTop
<1>5. /\ fd_arr'[t] = Ended(t) /\ call'[t] = NoCall
      /\ \A u \in Used : u # t => fd_arr'[u] = fd_arr[u] /\ call'[u] = call[u]
  BY <1>1, <1>4 DEF TypeOK
<1>6. /\ fd_arr' \in [Used -> Seq([Fds -> Descriptor])]
      /\ call' \in [Used -> [fd : Fds \cup {0}, retval : Int, data : Seq(Places)]]
  BY <1>1, <1>3, <1>4, NewOK DEF TypeOK
<1>7. \A u \in Used : Top(u)' \in 1..MaxDepth
  BY <1>1, <1>3, <1>5 DEF TypeOK, Top
<1>8. TerminalOK(t)'
  BY <1>3, <1>5 DEF TerminalOK, Top
<1>9. \A u \in Used : TerminalOK(u)'
  BY <1>5, <1>8, Unchanged DEF IInv
<1> QED BY <1>6, <1>7, <1>9 DEF IInv, TypeOK

LEMMA NextIInv == IInv /\ [Next]_vars => IInv'
<1> SUFFICES ASSUME IInv, [Next]_vars PROVE IInv'
  OBVIOUS
<1> USE FilesAssumption
<1> DEFINE c == terminal_curr
           n == Top(c)
<1>1. TypeOK /\ RunsUsed /\ c \in Used /\ TerminalOK(c)
  BY DEF IInv, RunsUsed
<1>2. fd_arr[c] \in Seq([Fds -> Descriptor]) /\ n = Len(fd_arr[c]) /\ n \in 1..MaxDepth
  BY <1>1 DEF TypeOK, Top
<1>3. \A i \in Fds : MyFd(i) \in Descriptor /\ DescriptorOK(MyFd(i))
  <2>1. fd_arr[c][n] \in [Fds -> Descriptor] /\ n \in 1..n
    BY <1>2
  <2> QED BY <1>1, <2>1 DEF MyFd, TerminalOK
<1>4. CASE Open
  <2>1. PICK i \in Fds, name \in Names : /\ name = "rtc" \/ Matches(name) # {}
                                         /\ fd_arr' = WithMyFd(i, Opened(name))
    BY <1>4 DEF Open
  <2>2. Opened(name) \in Descriptor /\ DescriptorOK(Opened(name))
    BY <2>1, OpenedOK
  <2> QED BY <1>4, <2>1, <2>2, ReplaceFd DEF Open
<1>5. CASE Close
  <2>1. PICK i \in Fds : fd_arr' = WithMyFd(i, Fd("free", 0))
    BY <1>5 DEF Close
  <2>2. Fd("free", 0) \in Descriptor /\ DescriptorOK(Fd("free", 0))
    BY Fresh, ImageAssumption
  <2> QED BY <1>5, <2>1, <2>2, ReplaceFd DEF Close
<1>6. CASE Read
  <2>0. PICK i \in Fds, m \in Sizes :
          /\ MyFd(i).type \in {"file", "dir"}
          /\ LET result == IF MyFd(i).type = "dir" THEN dir_read(MyFd(i).filePos)
                           ELSE read_data(MyFd(i).inode, MyFd(i).filePos, m)
             IN  call' = [call EXCEPT ![c] =
                            [fd |-> i, retval |-> result.retval, data |-> result.data]]
    BY <1>6 DEF Read
  <2> DEFINE result == IF MyFd(i).type = "dir" THEN dir_read(MyFd(i).filePos)
                       ELSE read_data(MyFd(i).inode, MyFd(i).filePos, m)
  <2>1. /\ Readable(MyFd(i))
        /\ call' = [call EXCEPT ![c] =
                      [fd |-> i, retval |-> result.retval, data |-> result.data]]
    BY <2>0 DEF Readable
  <2> DEFINE r == [fd |-> i, retval |-> result.retval, data |-> result.data]
  <2>2. CallOK(r, MyFd(i))
    BY <1>3, <2>1, ReadOK
  <2>3. r \in [fd : Fds \cup {0}, retval : Int, data : Seq(Places)] /\ r.fd = i
    BY <2>2 DEF CallOK
  <2> HIDE DEF r
  <2>4. /\ call' \in [Used -> [fd : Fds \cup {0}, retval : Int, data : Seq(Places)]]
        /\ call'[c] = r /\ \A u \in Used : u # c => call'[u] = call[u]
    BY <1>1, <2>1, <2>3 DEF TypeOK, r
  <2>5. fd_arr' = fd_arr /\ c' = c
    BY <1>6 DEF Read, switchVars
  <2>6. TerminalOK(c)'
    BY <1>1, <2>2, <2>3, <2>4, <2>5 DEF TerminalOK, Top, MyFd
  <2> QED BY <1>1, <1>6, <2>4, <2>5, <2>6, OwnStep DEF Read, TypeOK, Top
<1>7. CASE Advance
  <2> DEFINE r == call[c]
             d == MyFd(r.fd)
  <2>1. r.fd \in Fds /\ CallOK(r, d)
    BY <1>1, <1>7 DEF Advance, InProgram, TerminalOK, MyFd
  <2>2. Moved(d, r) \in Descriptor /\ DescriptorOK(Moved(d, r))
    BY <1>3, <2>1, MovedOK
  <2>3. fd_arr' = WithMyFd(r.fd, Moved(d, r))
    BY <1>7 DEF Advance
  <2> HIDE DEF d
  <2>4. /\ fd_arr' \in [Used -> Seq([Fds -> Descriptor])]
        /\ \A u \in Used : Top(u)' = Top(u) /\ (u # c => fd_arr'[u] = fd_arr[u])
        /\ \A p \in 1..Top(c), j \in Fds :
             fd_arr'[c][p][j] = IF p = Top(c) /\ j = r.fd THEN Moved(d, r) ELSE fd_arr[c][p][j]
    BY <1>1, <2>1, <2>2, <2>3, SetFd
  <2>5. \A p \in 1..Top(c), j \in Fds : DescriptorOK(fd_arr'[c][p][j])
    BY <1>1, <2>2, <2>4 DEF TerminalOK
  <2>6. /\ call' = [call EXCEPT ![c] = NoCall] /\ c' = c
    BY <1>7 DEF Advance, switchVars
  <2>7. /\ call' \in [Used -> [fd : Fds \cup {0}, retval : Int, data : Seq(Places)]]
        /\ call'[c] = NoCall /\ \A u \in Used : u # c => call'[u] = call[u]
    BY <1>1, <2>6, NewOK DEF TypeOK
  <2>8. TerminalOK(c)'
    BY <1>1, <2>4, <2>5, <2>6, <2>7 DEF TerminalOK
  <2>9. \A u \in Used : Top(u)' \in 1..MaxDepth
    BY <1>1, <2>4 DEF TypeOK
  <2> QED BY <1>7, <2>4, <2>7, <2>8, <2>9, OwnStep DEF Advance
<1>8. CASE Execute
  <2>1. fd_arr' = [fd_arr EXCEPT ![c] = Append(fd_arr[c], NewProcess)] /\ n < MaxDepth
    BY <1>8 DEF Execute
  <2>2. /\ Append(fd_arr[c], NewProcess) \in Seq([Fds -> Descriptor])
        /\ Len(Append(fd_arr[c], NewProcess)) = n + 1
        /\ \A p \in 1..(n + 1) : Append(fd_arr[c], NewProcess)[p] =
                                   IF p = n + 1 THEN NewProcess ELSE fd_arr[c][p]
    BY <1>2, NewOK
  <2>3. /\ fd_arr' \in [Used -> Seq([Fds -> Descriptor])]
        /\ fd_arr'[c] = Append(fd_arr[c], NewProcess)
        /\ \A u \in Used : u # c => fd_arr'[u] = fd_arr[u]
    BY <1>1, <2>1, <2>2 DEF TypeOK
  <2>4. n + 1 \in 1..MaxDepth
    BY <1>2, <2>1
  <2>5. \A u \in Used : Top(u)' \in 1..MaxDepth
    BY <1>1, <2>2, <2>3, <2>4 DEF TypeOK, Top
  <2>6. call' = call /\ call[c] = NoCall /\ c' = c
    BY <1>8 DEF Execute, InProgram, switchVars
  <2>7. \A p \in 1..(n + 1), i \in Fds : DescriptorOK(fd_arr'[c][p][i])
    <3>1. ASSUME NEW p \in 1..(n + 1), NEW i \in Fds, p # n + 1
          PROVE  DescriptorOK(fd_arr[c][p][i])
      <4>1. p \in 1..n
        BY <1>2, <3>1
      <4> QED BY <1>1, <4>1 DEF TerminalOK
    <3> QED BY <2>2, <2>3, <3>1, NewOK
  <2>8. Top(c)' = n + 1
    BY <2>2, <2>3, <2>6 DEF Top
  <2>9. TerminalOK(c)'
    BY <2>6, <2>7, <2>8 DEF TerminalOK
  <2> QED BY <1>1, <1>8, <2>3, <2>5, <2>6, <2>9, OwnStep DEF Execute, TypeOK
<1>9. CASE Halt
  <2>1. SwitchTypeOK' /\ RunsUsed'
    BY <1>1, <1>9 DEF Halt, TypeOK, SwitchTypeOK, switchVars, RunsUsed
  <2> QED BY <1>1, <1>9, <2>1, HaltTopOK DEF Halt
<1>10. ASSUME NEW t \in Used, PitGoTo(t) PROVE IInv'
  <2>1. SwitchTypeOK' /\ RunsUsed'
    BY <1>1, <1>10 DEF PitGoTo, TypeOK, SwitchTypeOK, GoTo, RunsUsed, Terminals
  <2>2. CASE UNCHANGED fileVars
    <3>1. fd_arr' = fd_arr /\ call' = call
      BY <2>2 DEF fileVars
    <3> QED BY <2>1, <3>1, Unchanged DEF IInv, TypeOK, Top
  <2>3. CASE HaltTop(t)
    BY <2>1, <2>3, HaltTopOK
  <2> QED BY <1>10, <2>2, <2>3 DEF PitGoTo
<1>11. ASSUME NEW t \in Used, KeyRequest(t) PROVE IInv'
  <2>1. t \in 1..3
    BY <1>1 DEF TypeOK, RunsUsed, Terminals
  <2>2. active' \subseteq {2, 3}
    BY <1>1, <1>11, <2>1 DEF KeyRequest, TypeOK, SwitchTypeOK, Request
  <2>3. SwitchTypeOK' /\ RunsUsed' /\ fd_arr' = fd_arr /\ call' = call
    BY <1>1, <1>11, <2>1, <2>2
       DEF KeyRequest, TypeOK, SwitchTypeOK, Request, RunsUsed, fileVars, Terminals
  <2> QED BY <2>3, Unchanged DEF IInv, TypeOK, Top
<1>12. CASE UNCHANGED vars
  <2>1. SwitchTypeOK' /\ RunsUsed' /\ fd_arr' = fd_arr /\ call' = call
    BY <1>1, <1>12 DEF TypeOK, SwitchTypeOK, RunsUsed, vars, fileVars, switchVars
  <2> QED BY <2>1, Unchanged DEF IInv, TypeOK, Top
<1> QED BY <1>4, <1>5, <1>6, <1>7, <1>8, <1>9, <1>10, <1>11, <1>12 DEF Next

-----------------------------------------------------------------------------
\* The invariant holds in every state.
THEOREM Invariance == Spec => []IInv
BY InitIInv, NextIInv, PTL DEF Spec

\* Descriptors, positions and reads in progress keep their types, whatever the image.
THEOREM TypeCorrect == Spec => []TypeOK
BY Invariance, PTL DEF IInv

\* Every descriptor gives the contents of its file in order, however reads are
\* cut up, preempted or mixed, for any block size and any image.
THEOREM ReadsCorrect == Spec => []ReadsInOrder
<1>1. IInv => ReadsInOrder
  BY DEF IInv, TerminalOK, DescriptorOK, ReadsInOrder
<1> QED BY <1>1, Invariance, PTL

\* A read never fails, and gives nothing only at the end.
THEOREM ReadsProgress == Spec => []ReadsGiveBytes
<1>1. IInv => ReadsGiveBytes
  BY DEF IInv, TerminalOK, CallOK, ReadsGiveBytes
<1> QED BY <1>1, Invariance, PTL

\* A directory, and a file of one block, is read no further than its end.
THEOREM ShortOnesCorrect == Spec => []ShortOnesEnd
<1>1. IInv => ShortOnesEnd
  BY DEF IInv, TerminalOK, DescriptorOK, ShortOnesEnd
<1> QED BY <1>1, Invariance, PTL
=============================================================================
