SPECIFICATION Spec
CONSTANTS
  Page = {p1, p2, p3}
  NULL = NULL
  TOTAL = 3
  WORDS = 256
SYMMETRY Perms
INVARIANTS
  ListsSound
  NeverTwice
  NothingLost
CHECK_DEADLOCK FALSE
