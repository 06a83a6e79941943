SPECIFICATION Spec
CONSTANTS
  NTHR = 4
  NPAGES = 3
  KTHREADS = TRUE
INVARIANTS
  StacksAccounted
