SPECIFICATION Spec
CONSTANTS
  Other = {"a"}
  MAXCHUNK = 3
  MAXIN = 4
  MAXOUT = 4
  GETSN = 3
CHECK_DEADLOCK FALSE
INVARIANTS
  LineEndsNormal
  ScreenShowsLine
