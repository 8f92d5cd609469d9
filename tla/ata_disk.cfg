SPECIFICATION FairSpec
CONSTANTS
  x = x
  y = y
  Value = {x, y}
  Blank = Blank
  LAST = 2
  MAX_COUNT = 2
INVARIANTS
  ReadsWhatWasWritten
  DurableUnlessRaced
PROPERTY CallEnds
CHECK_DEADLOCK FALSE
