CONSTANTS
  NPROC = 4
  NCPU = 1
  Signals = {}
  MaxPid = 4
  MaxFrames = 1
  TickMod = 1
  SleepTicks = 1
  Masks = {{}}
  UserOps <- FamilyOps
  IntrPCs <- UserForkAndExit
  KillPids = {0, 1, 2}
SPECIFICATION Spec
INVARIANTS
  NoMissedChild
  FamilyTree
  UniquePids
PROPERTIES
  ImplementsLife
