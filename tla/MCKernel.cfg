CONSTANTS
  Tables = {1, 2}
  Callers = {0, 1, 2}
  UserTasks = {1, 2}
  TABLE_SIZE = 2
  POOL_SIZE = 4
  Rights <- MCRights
  Bufs = {b1}
  Msgs = {m1, m2}
  MAX_GEN = 0
  NULL = NULL
  QUANTUM = 1
  NoTask = NoTask
SPECIFICATION KernelSpec
INVARIANTS ParkedInOwnSpace
PROPERTIES ImplementsCap ImplementsSched
CHECK_DEADLOCK FALSE
VIEW MCView
