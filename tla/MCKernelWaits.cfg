CONSTANTS
  Tables = {1}
  Callers = {0, 1}
  UserTasks = {1}
  TABLE_SIZE = 2
  POOL_SIZE = 2
  Rights <- MCRights
  Bufs = {b1}
  Msgs = {m1, m2}
  MAX_GEN = 0
  NULL = NULL
  QUANTUM = 1
  NoTask = NoTask
SPECIFICATION KernelSpec
INVARIANTS ParkedTaskWaits
CHECK_DEADLOCK FALSE
