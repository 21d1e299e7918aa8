\* Two processes over two buffers and three blocks, two of which are written.
SPECIFICATION FairSpec
CONSTANTS
  p1 = p1
  p2 = p2
  in1 = in1
  in2 = in2
  Callers = {p1, p2, in1, in2}
  outer <- TwoEach
  Bufs = {f1, f2}
  Blocks = {k1, k2, k3}
  Changed = {k1, k2}
  Data = {0, 1}
  k1 = k1
  k2 = k2
  k3 = k3
  Nested <- LogFirst
  NoProc = NoProc
  NoBuf = NoBuf
  NoBlock = NoBlock
  Garbage = Garbage
  DiskErrors = FALSE
  MaxPinned = 1
INVARIANTS BreadContents PanicOnlyFull NoLostIoWakeup
PROPERTY RequestServed
