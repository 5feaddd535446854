SPECIFICATION Spec
CONSTANTS BlockSize = 2  Entries = 4  num_data_blocks = 4
          dirList <- MCDir  Inode <- MCInode
          NumFds = 4  Names = {"large"}
          Sizes = {1, 2, 5}  MaxDepth = 1  MaxOpen = 1  Used = {1}
INVARIANT ReadsEnd
