SPECIFICATION VfsSpec
CONSTANTS
  UserTask = {t1, t2, t3}
  Idle = Idle
  Reaper = Reaper
  NULL = NULL
  Kernels = {TRUE, FALSE}
  MAX_FD = 3
INVARIANTS
  FilesAccounted
  
CHECK_DEADLOCK FALSE
