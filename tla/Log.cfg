\* Four blocks fill the log of four; two operations at a time have room, a third waits.
CONSTANTS
  Procs = {p1, p2, p3}
  Blocks = {a, b, c, d}
  Data = {0, 1}
  NoBlock = NoBlock
  LOGSIZE = 4
  size = 5
  MAXOPBLOCKS = 2
  OPBLOCKS = 1
SPECIFICATION Spec
INVARIANTS
  DurableWhenIdle
  NoMissedLogWakeup
  NoLogPanic
PROPERTIES
  AllOrNothing
SYMMETRY LogSymmetry
