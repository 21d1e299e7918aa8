SPECIFICATION Spec
CONSTANTS
  Procs = {p1, p2}
  NINODES = 5
  NINODE = 5
  Names = {"a", "b"}
  Starts <- AllStarts
  MaxCalls = 2
  MaxCrashes = 1
INVARIANTS LinksCovered OpenKept DirectoryTree PanicOnlyStrayed
SYMMETRY FsSymmetry
CHECK_DEADLOCK FALSE
