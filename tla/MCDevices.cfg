SPECIFICATION DevSpec
CONSTANTS
  XHCI_RING_SIZE = 9
  XHCI_EVENT_RING_SIZE = 5
  Budgets <- MCBudgets
  RING = 3
  LINE_MAX = 2
  FB_SHELL_ROWS = 2
  FB_SHELL_COLS = 2
INVARIANTS
  XhciInv ConsoleInv
PROPERTIES
  WaitEnds ImplementsQueue
CHECK_DEADLOCK FALSE
