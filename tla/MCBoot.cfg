SPECIFICATION WaySpec
CONSTANTS
  Parts = {"boot", "tpm", "fat", "context", "sched"}
  MaxInits = 2
  MaxGaps = 1
  BytesSent <- MCSent
  Announced <- MCAnnounced
  AnswerLength <- MCLength
  HEADER = 2
  READ_MIN = 3
  SECTOR = 2
  MASK = 16
  EOF_MIN = 14
  HALF = 4
  NAME = 2
  EXT = 1
  Volumes <- MCVolumes
  Paths <- MCPaths
  Lens = {0, 1, 4, 9}
  Users = {1, 2, 3}
  Values = {0, 1}
  UserTasks = {1, 2, 3}
  QUANTUM = 2
  NoTask = NoTask
INVARIANTS
  BootInv TpmInv FatInv ContextInv OneRunning InServiceOwner
PROPERTIES
  VerdictComes CallEnds StrictRotation AckOrIdle
CHECK_DEADLOCK FALSE
