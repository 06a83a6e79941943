SPECIFICATION FairSpec
CONSTANTS
  NTHR = 3
  NPAGES = 3
  KTHREADS = FALSE
PROPERTIES
  ReadyRuns
  DiskWaitReturns
  JoinReturns
