CONSTANTS
  NPROC = 2
  NCPU = 2
  Signals = {9, 18, 19}
  MaxPid = 2
  MaxFrames = 1
  TickMod = 3
  SleepTicks = 1
  Masks = {{}}
  UserOps <- SignalOps
  IntrPCs <- UserOnly
  KillPids <- PidsAndAll
SPECIFICATION Spec
INVARIANTS
  KernelStackExclusive
  NoOverdueSleeper
PROPERTIES
  StopHolds
