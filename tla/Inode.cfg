\* Two-byte blocks, two direct and two indirect ones a file, and filewrite's chunks as long as one block.
SPECIFICATION Spec
CONSTANTS
  Procs = {1, 2, 3}
  Inodes = {1, 2}
  Files = {1, 2}
  IpOf <- TwoInodes
  FileOf <- SharedFile
  Blocks = {1, 2, 3, 4, 5, 6, 7, 8, 9, 10}
  BSIZE = 2
  NDIRECT = 2
  NINDIRECT = 2
  MAXOPBLOCKS = 6
  Sizes = {1, 7}
  MaxWrites = 3
INVARIANTS BlocksOwned ReadsBack AppendsKept TransactionFits
CHECK_DEADLOCK FALSE
