\* Three processes, two-byte pages, four user pages in two tables, and too few frames.
SPECIFICATION Spec
CONSTANTS
  Procs = {"init", "p", "q"}
  initproc = "init"
  Pages = {1, 2, 3, 4, 5, 6, 7, 8, 9, 10, 11, 12, 13, 14, 15, 16, 17, 18}
  Early = {1, 2, 3}
  OtherCpus = 1
  NoPage = 0
  PGSIZE = 2
  NPTENTRIES = 2
  NUTAB = 2
  Images <- Programs
  Amounts <- SbrkArgs
  ArgBytes = {1, 3}
  MaxCalls = 4
  MaxGiven = 1
INVARIANTS PagesPartitioned SizeMapped PanicOnlyTorn ArgsMapped
CHECK_DEADLOCK FALSE
