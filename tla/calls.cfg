\* Two pids, four pages, page tables of three entries; the calls of the kernel
\* without the checks of the shell, up to an assert.
SPECIFICATION Spec
CONSTANTS
  MAX_PID = 2
  PAGE_CAPACITY = 3
  NUM_OF_PAGE_FOR_USER = 4
  START_PAGE_OF_USER = 1
  SIZE_OF_PAGE = 4
  SYS_USED_AT_BOOT = 1
  SIZE_OF_PCB = 1
  BASE_MOD = 16
  ADDR_MOD = 64
  ORDER_MODE = TRUE
  UNSET = UNSET
  CallSizes = {0, 1, 5, 8, 12}
INVARIANTS
  RingsFit
  OnePageMoves
PROPERTIES
  CallsReturn
  ImplementsAtomic
\* the program stops at a failed assert
CHECK_DEADLOCK FALSE
