SPECIFICATION Spec
CONSTANTS
  USTACK = 12
  ISTACK = 12
  IDLE_USE = 2
  HANDLER = 4
  Vector = {0, 13, 14}
INVARIANTS
  StraysOnlyIfBare
  KernelLossExplained
CHECK_DEADLOCK FALSE
