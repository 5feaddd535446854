SPECIFICATION Spec
CONSTANTS BlockSize = 2  Entries = 4  num_data_blocks = 4
          dirList <- MCDir  Inode <- MCInode
          NumFds = 4  Names = {".", "large", "frame", "rtc", "missing"}
          Sizes = {1, 2, 5}  MaxDepth = 2  MaxOpen = 2  Used = {1, 2}
INVARIANTS ReadsInOrder ReadsGiveBytes ShortOnesEnd
