SPECIFICATION Spec
CONSTANTS
  Thread = {t1, t2}
  NoThread = none
  FS_BLKSZ = 2
  MAX_OPEN_FILES = 2
  Dentries <- MCDentries
  ByteLen <- MCByteLen
  ReadLen = {3}
  WriteLen = {2}
  Positions = {1, 4}
  Unknown = "c"
  MAXWRITES = 2
  WritesAtPos = FALSE
  DiskFails = FALSE
INVARIANTS
  WritesReachFile
