SPECIFICATION Spec
CONSTANTS
  NPROC = 3
  PROCESS_IOMAX = 2
  NTHR = 4
  MAX_OPEN_FILES = 1
  NDEV = 1
  File = {"a", "b"}
  REFMOD = 8
  MAXREFS = 3
  SharedExit = TRUE
CHECK_DEADLOCK FALSE
INVARIANTS
  DescriptorIntact
