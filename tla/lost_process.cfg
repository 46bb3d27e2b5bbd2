\* A process whose slot dp empties for another pid.
SPECIFICATION Spec
CONSTANTS
  MAX_PID = 3
  PAGE_CAPACITY = 3
  NUM_OF_PAGE_FOR_USER = 4
  START_PAGE_OF_USER = 1
  SIZE_OF_PAGE = 4
  SYS_USED_AT_BOOT = 0
  SIZE_OF_PCB = 1
  BASE_MOD = 16
  ADDR_MOD = 64
  ORDER_MODE = TRUE
  KB = 1
  FOPEN_MAX = 0
  NULL = NULL
  FileNames = {}
  FileSizes = {}
  TypedPids = {0, 1, 2, 3, 16}
  TypedSizes = {0, 1, 5, 12, 13, 65}
PROPERTY ExitFindsEveryProcess
\* the program really stops, at exit or at a failed assert
CHECK_DEADLOCK FALSE
