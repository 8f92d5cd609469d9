SPECIFICATION TurnSpec
CONSTANTS
  UserTask = {t1, t2, t3, t4}
  Idle = Idle
  Reaper = Reaper
  NULL = NULL
  QUANTUM = 2
SYMMETRY Perms
INVARIANTS
  RingIsCycle
  LiveAccounted
  WaiterIsAsleep
  TotalIsExact
  ReaperHasDuty
  SpinNeedsBusyEnqueue
PROPERTIES
  ImplementsTaskLife
  OneTurnEach
CHECK_DEADLOCK FALSE
