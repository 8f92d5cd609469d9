SPECIFICATION MCSpec
CONSTANTS
  Task = {a, b}
  FRAMES = 11
  RESERVED = {0}
  PTES = 3
  UPDE = 4
  KPDE = 2
  RUN_BOUND = 2
  CALL_BOUND = 8
  TORN_BOUND = 6
SYMMETRY Perms
INVARIANTS
  FramesUsedOnce
  NothingLeaks
  KernelHalfFresh
  HeapSound
  RegionsSound
  WildExplained
CHECK_DEADLOCK FALSE
