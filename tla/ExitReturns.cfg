CONSTANTS
  NPROC = 2
  NCPU = 2
  Signals = {10}
  MaxPid = 2
  MaxFrames = 1
  TickMod = 1
  SleepTicks = 1
  Masks = {{}}
  UserOps <- ExitOps
  IntrPCs <- UserAndExit
  KillPids = {2}
SPECIFICATION Spec
INVARIANTS
  ExitIsFinal
