SPECIFICATION Spec
CONSTANTS
  NPROC = 2
  NPAGES = 12
  PTE_PER_LEVEL = 2
  NVPN = 4
  PAGE_SIZE = 3
  HEAP_INIT = 2
  PROC_SIZE = 1
  THR_SIZE = 2
  Program <- MCProgram
  MAXEXEC = 2
  Stored = {"x"}
  StackPages = {3}
VIEW View
CHECK_DEADLOCK FALSE
INVARIANTS
  PagesOwned
  HeapDisjoint

  
