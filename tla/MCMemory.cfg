SPECIFICATION MemSpec
CONSTANTS
  MemMaps <- MCMemMaps
  FRAME_SIZE = 2
  BITS = 2
  Top = 13
  HDR = 4
  HEAP_ALIGN = 2
  PAGE_SIZE = 16
  HEAP_INIT_PAGES = 1
  HEAP_MAX_PAGES = 3
  MAX_FRAMES = 2
  c1 = c1
  c2 = c2
  c3 = c3
  Callers = {c1, c2, c3}
  Sizes = {1, 13}
  LEVELS = 2
  UserIdx <- MCUser
  KernelIdx <- MCKernel
  FRAMES = 10
  Device = 14
  HhdmPage <- MCHhdm
  TASK_USER_STACK_PAGE <- MCStack
  LoadPages <- MCLoadPages
  MAX_TASKS = 2
  TableSizes = {2, 3}
  PAGE = 2
  WORD = 16
  ADDRS = 8
  UsbImages <- MCImages
  Embedded <- MCEmbedded
  HeapRooms <- MCHeapRooms
  FrameRooms <- MCFrameRooms
INVARIANTS
  PmmInv HeapInv VmmInv LoaderInv
PROPERTIES
  ImplementsSpaces
SYMMETRY MCSymmetry
CHECK_DEADLOCK FALSE
