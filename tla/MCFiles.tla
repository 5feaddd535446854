------------------------------ MODULE MCFiles ------------------------------
(***************************************************************************)
(* A small image in the shape of filesys_img: blocks of two bytes, a       *)
(* directory, the clock, a file that fills part of a block, and a file     *)
(* that fills one block and part of a second.                              *)
(***************************************************************************)
EXTENDS Files, TLC

MCDir == << [fileName |-> ".", fileType |-> 1, inodeNum |-> 0],
            [fileName |-> "large", fileType |-> 2, inodeNum |-> 2],
            [fileName |-> "rtc", fileType |-> 0, inodeNum |-> 0],
            [fileName |-> "frame", fileType |-> 2, inodeNum |-> 1] >>

\* The last number of each inode is 0, as past the end of every file of the image.
MCInode == 0 :> [length |-> 0, dataBlockNum |-> [b \in 0..3 |-> 0]]
           @@ 1 :> [length |-> 1, dataBlockNum |-> [b \in 0..3 |-> IF b = 0 THEN 3 ELSE 0]]
           @@ 2 :> [length |-> 3, dataBlockNum |-> [b \in 0..3 |-> IF b = 0 THEN 2
                                                                   ELSE IF b = 1 THEN 1 ELSE 0]]
=============================================================================
