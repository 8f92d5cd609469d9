SPECIFICATION Spec
CONSTANTS
  Page = {p1, p2, p3}
  NULL = NULL
  TOTAL = 1
  WORDS = 512
SYMMETRY Perms
INVARIANTS
  NoEmptySlab
CHECK_DEADLOCK FALSE
