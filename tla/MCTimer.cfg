SPECIFICATION TimerSpec
CONSTANTS
  Thread = {t1, t2, t3}
  NoThread = idle
  TICK_PERIOD = 2
  UINT64_MAX = 63
  TMAX = 5
  TIMER_FREQ = 2
  MICRO = 1
  Us = {1, 31, 32}
INVARIANTS
  SleepListExact
  NoLostTimer
  NoEarlyWake
PROPERTIES
  SleepEnds
  TicksCatchUp
