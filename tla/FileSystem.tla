----------------------------- MODULE FileSystem -----------------------------
(***************************************************************************)
(* The file system (fileSystem.c): a boot block with the directory, inodes *)
(* that list the data blocks of a file, and the data blocks.  It is read   *)
(* only, so an image is a constant and the functions are operators.        *)
(*                                                                         *)
(* A byte is known by where it lies: its block and its offset in it.  A    *)
(* directory entry lies in the boot block, which is block -1 here.         *)
(***************************************************************************)
EXTENDS Integers, Sequences

CONSTANTS BlockSize,        \* bytes in a block; 4096 in the code
          dirList,          \* the directory entries, in order
          Inode,            \* the inodes: length in bytes, and dataBlockNum
          Entries,          \* block numbers in an inode; 1023 in the code
          num_data_blocks   \* data blocks of the image

Inodes == DOMAIN Inode

\* An inode has a valid block number in every place (0 past the end of its file,
\* as in the image), and no file is so large that a read from any place in it
\* could run over the inode.
ASSUME ImageAssumption ==
  /\ BlockSize \in Nat \ {0} /\ Entries \in Nat /\ num_data_blocks \in Nat \ {0}
  /\ \A i \in Inodes :
       /\ Inode[i].length \in Nat
       /\ (2 * Inode[i].length) \div BlockSize < Entries
       /\ Inode[i].dataBlockNum \in [0..(Entries - 1) -> 0..(num_data_blocks - 1)]
  /\ Len(dirList) \in Nat /\ DOMAIN dirList = 1..Len(dirList)
  /\ \A k \in DOMAIN dirList : /\ dirList[k].fileType \in {0, 1, 2}
                               /\ dirList[k].inodeNum \in Inodes
  /\ 0 \in Inodes

Places == (-1..(num_data_blocks - 1)) \X Nat

-----------------------------------------------------------------------------
Matches(fname) == {k \in DOMAIN dirList : dirList[k].fileName = fname}

\* The first entry of that name.
read_dentry_by_name(fname) ==
  dirList[CHOOSE k \in Matches(fname) : \A j \in Matches(fname) : k <= j]

\* Where the i-th byte of a read lies.
Place(inode, offset, i) ==
  LET from_block == (offset % BlockSize) + i - 1
  IN  <<Inode[inode].dataBlockNum[(offset \div BlockSize) + (from_block \div BlockSize)],
        from_block % BlockSize>>

Least(a, b) == IF a < b THEN a ELSE b

\* How many bytes the loop copies.  Mutants: as many as asked for; one too few.
BytesAsked(inode, offset, length) == length
BytesButOne(inode, offset, length) ==
  Least(length, Inode[inode].length - (offset % BlockSize) - 1)

\* The offset has been reduced by then: what remains is counted from the
\* beginning of the block.
bytes_read(inode, offset, length) ==
  Least(length, Inode[inode].length - (offset % BlockSize))

Result(retval, data) == [retval |-> retval, data |-> data]

\* The loop fails when it comes to a block outside the image, even when it has
\* all bytes.
read_data(inode, offset, length) ==
  LET n == bytes_read(inode, offset, length)
      entered == (offset \div BlockSize)..
                 ((offset \div BlockSize) + (((offset % BlockSize) + n) \div BlockSize))
  IN  IF inode \notin Inodes THEN Result(-1, <<>>)
      ELSE IF offset >= Inode[inode].length THEN Result(0, <<>>)
      ELSE IF \E b \in entered : Inode[inode].dataBlockNum[b] >= num_data_blocks
           THEN Result(-1, <<>>)
      ELSE Result(n, [i \in 1..n |-> Place(inode, offset, i)])

-----------------------------------------------------------------------------
\* Reference: byte p of a file, counted from 0.
FileByte(inode, p) == <<Inode[inode].dataBlockNum[p \div BlockSize], p % BlockSize>>

=============================================================================
