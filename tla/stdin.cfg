SPECIFICATION StdinFairSpec
CONSTANTS
  UserTask = {t1, t2}
  Idle = Idle
  Reaper = Reaper
  NULL = NULL
  QUANTUM = 2
  Char = {"a", "nl"}
  NL = "nl"
  NUL = "nul"
  SIZE = 2
  LEN_BOUND = 1
  TYPED_BOUND = 2
PROPERTIES
  ImplementsTty
  WokenReturns
  ReadyRuns
  DeadAreReaped
CHECK_DEADLOCK FALSE
