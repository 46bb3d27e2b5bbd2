\* Two pids, three pages and one file, absent, empty, shorter than what ld compares
\* or larger than a page table can map at boot; one load that is too large uses up
\* the streams.
\* The alphabet does not divide the page, so a page out of place shows.
SPECIFICATION ImagesSpec
CONSTANTS
  MAX_PID = 2
  PAGE_CAPACITY = 2
  NUM_OF_PAGE_FOR_USER = 3
  START_PAGE_OF_USER = 1
  SIZE_OF_PAGE = 4
  SYS_USED_AT_BOOT = 1
  SIZE_OF_PCB = 1
  BASE_MOD = 16
  ADDR_MOD = 64
  ORDER_MODE = TRUE
  KB = 2
  FOPEN_MAX = 1
  NULL = NULL
  FileNames = {"image"}
  FileSizes = {0, 1, 9}
  TypedPids = {0, 1, 2}
  TypedSizes = {1, 3, 4}
  ALPHABET = 3
  WINDOW = 2
  Blank = Blank
INVARIANTS
  TypeOK
  ImagesReachable
  ImagesVerify
PROPERTIES
  ImplementsAllocator
  ContentsSurvive
  LoadRestores
  StoredInARow
  LoadAccepts
\* the program really stops, at exit or at a failed assert
CHECK_DEADLOCK FALSE
