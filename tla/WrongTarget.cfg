CONSTANTS
  NPROC = 3
  NCPU = 2
  Signals = {15}
  MaxPid = 4
  MaxFrames = 1
  TickMod = 1
  SleepTicks = 1
  Masks = {{}}
  UserOps <- WrongTargetOps
  IntrPCs <- UserOnly
  KillPids = {3}
SPECIFICATION Spec
PROPERTIES
  KillHitsTarget
