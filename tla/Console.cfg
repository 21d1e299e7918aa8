\* Two readers on a ring of three characters; the counters wrap at 6.
CONSTANTS
  Procs = {1, 2}
  Letters = {"a"}
  INPUT_BUF = 3
  UintMod = 6
  Sizes = {1, 2}
SPECIFICATION Spec
INVARIANT NoLostInputWakeup
PROPERTY ImplementsLines
