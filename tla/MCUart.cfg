SPECIFICATION UartSpec
CONSTANTS
  Thread = {t1, t2}
  NoThread = none
  SERIAL_RBUFSZ = 2
  POSMOD = 4
  RXMAX = 4
  TXMAX = 4
  ReadSizes = {2}
  WriteSizes = {1, 3}
INVARIANTS
  BytesInOrder
  InterruptsArmed
  NoLostWakeup
PROPERTIES
  ReaderServed
  WriteReturns
