CONSTANTS
  NPROC = 3
  NCPU = 1
  Signals = {9, 20}
  MaxPid = 3
  MaxFrames = 1
  TickMod = 1
  SleepTicks = 1
  Masks = {{}}
  UserOps <- LiveOps
  IntrPCs <- UserAndFork
  KillPids = {2}
SPECIFICATION FairSpec
INVARIANTS
  FamilyTree
PROPERTIES
  KilledExits
  WaitReturns
