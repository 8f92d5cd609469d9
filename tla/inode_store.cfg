SPECIFICATION Spec
CONSTANTS
  e = e
  a = a
  b = b
  c = c
  d = d
  File = {e, a, b, c, d}
  Sectors <- MCSectors
  PER_SECTOR = 2
  IBLOCK = 1
  MAX_SECTORS = 2
  INODE_BITS = 4
  DATA_BITS = 4
  Garbage = {0, 3}
  CUT_BOUND = 1
INVARIANTS
  DamageNeedsExcess
  BitmapsExact
CHECK_DEADLOCK FALSE
