CONSTANTS
  NPROC = 2
  NCPU = 2
  Signals = {19}
  MaxPid = 2
  MaxFrames = 1
  TickMod = 4
  SleepTicks = 1
  Masks = {{}}
  UserOps <- SleepOps
  IntrPCs <- UserOnly
  KillPids = {2}
SPECIFICATION Spec
INVARIANTS
  OnlyPtableLock
