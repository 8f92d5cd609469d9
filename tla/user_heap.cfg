SPECIFICATION HeapSpec
CONSTANTS
  AREAS = 4
  PAGE = 7
  PHDR = 3
  HDR = 2
  Size = {1, 2, 5}
  EMPTY = EMPTY
INVARIANTS
  BlocksTile
  FreeOrHeld
  HeldIsThere
  EmptyGivenBack
CHECK_DEADLOCK FALSE
