SPECIFICATION Spec
CONSTANTS
  NTHR = 4
  NPAGES = 3
  KTHREADS = TRUE
INVARIANTS
  TypeOK
  ListsExact
  OneRunning
  SuspendAsserts
  NoSpuriousChildExit
  FreeSlotUnreferenced
  MutualExclusion
  NoLostUnlock
  NoLostExit
  NoLostCompletion
  ForkFrameIntact
  InterruptsRestored
  NoSleepWhileReady
