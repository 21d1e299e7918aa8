CONSTANTS
  NPROC = 2
  NCPU = 2
  Signals = {1, 10}
  MaxPid = 2
  MaxFrames = 1
  TickMod = 1
  SleepTicks = 1
  Masks = {{}}
  UserOps <- HandlerOps
  IntrPCs <- UserOnly
  KillPids = {2}
SPECIFICATION Spec
PROPERTIES
  HandlerOfPending
