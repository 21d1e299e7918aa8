CONSTANTS
  NPROC = 2
  NCPU = 2
  Signals = {3, 10}
  MaxPid = 2
  MaxFrames = 1
  TickMod = 1
  SleepTicks = 1
  Masks = {{3}, {3, 18}}
  UserOps <- HandlerOps
  IntrPCs <- UserOnly
  KillPids = {2}
SPECIFICATION Spec
INVARIANTS
  TypeOK
PROPERTIES
  PendingKept
