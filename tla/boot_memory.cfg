SPECIFICATION Spec
CONSTANTS
  PAGE = 3
  BITS = 4
  PTES = 5
  TOP = 15
  KERNEL_END = 3
  MAP_LEN = 3
INVARIANTS
  BitmapRight
  WildNeedsOddMachine
CHECK_DEADLOCK FALSE
