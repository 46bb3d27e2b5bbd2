\* Sizes that are whole pages, as in testUI of the test program; five pages that enter the
\* free list as the test program boots when built with MEMORY_NOT_ORDER.
SPECIFICATION Spec
CONSTANTS
  MAX_PID = 3
  PAGE_CAPACITY = 3
  NUM_OF_PAGE_FOR_USER = 5
  START_PAGE_OF_USER = 2
  SIZE_OF_PAGE = 4
  SYS_USED_AT_BOOT = 4
  SIZE_OF_PCB = 1
  BASE_MOD = 16
  ADDR_MOD = 64
  ORDER_MODE = FALSE
  KB = 1
  FOPEN_MAX = 1
  NULL = NULL
  FileNames = {"image"}
  FileSizes = {0, 8}
  TypedPids = {0, 1, 2}
  TypedSizes = {4, 8, 12, 16}
INVARIANTS
  UsedExact
  PageTableShown
PROPERTY AdmittedIsGranted
\* the program really stops, at exit or at a failed assert
CHECK_DEADLOCK FALSE
