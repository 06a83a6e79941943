SPECIFICATION VioBlkSpec
CONSTANTS
  Thread = {t1, t2}
  NoThread = none
  NSECT = 2
  BLKSZ = 2
  WORD = 16
  ReadLen = {0, 2, 4}
  WriteLen = {1, 4}
  Positions = {0, 2}
  MAXPOS = 4
INVARIANTS
  OwnAnswer
  ReadsFollowPos
PROPERTIES
  OwnerReturns
