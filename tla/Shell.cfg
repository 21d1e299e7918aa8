CONSTANTS
  Procs = {1, 2, 3, 4, 5, 6}
  Pipes = {1}
  PIPESIZE = 2
  UintMod = 4
  NFILE = 5
  NOFILE = 5
  Inodes = {"in", "out", "console"}
  max = 1
  Script <- TwoLines
  MAXARGS = 3
  Prog <- Programs
  Input <- FourBytes
  BUFSIZE = 3
  MaxSignals = 1
SPECIFICATION FairSpec
INVARIANTS
  RefsMatch
  PipeEndsMatch
  NoLostPipeWakeup
  EndToEnd
PROPERTIES
  Finishes
CHECK_DEADLOCK FALSE
