------------------------------- MODULE Layout -------------------------------
(***************************************************************************)
(* The sizes and numbers the kernel is built with, and what follows from   *)
(* them alone: the areas of the memory, the order in which pages are free  *)
(* at boot, and the conversion of bytes to pages.                          *)
(***************************************************************************)
EXTENDS Integers, Sequences, FiniteSets

CONSTANTS
  MAX_PID,               \* number of pids; also the mark of an idle PCB
  PAGE_CAPACITY,         \* entries of a page table
  NUM_OF_PAGE_FOR_USER,  \* pages of the user area
  START_PAGE_OF_USER,    \* number of the first of them
  SIZE_OF_PAGE,          \* size of a page, in bytes
  SYS_USED_AT_BOOT,      \* system area in use when the system starts
  SIZE_OF_PCB,           \* sizeof(struct ProcessControlBlock)
  BASE_MOD,              \* 2^16: base_type counts modulo this
  ADDR_MOD,              \* 2^32: address_type counts modulo this
  ORDER_MODE             \* flag of creatSystem: TRUE from the shell, either from tests

Pids      == 0 .. MAX_PID - 1
Entries   == 0 .. PAGE_CAPACITY - 1
UserPages == START_PAGE_OF_USER .. START_PAGE_OF_USER + NUM_OF_PAGE_FOR_USER - 1

PAGE_NOT_USED == BASE_MOD - 1

\* The system area ends, and the user area starts, at page START_PAGE_OF_USER.
USER_ADDR_OFFSET == START_PAGE_OF_USER * SIZE_OF_PAGE
USER_CAPACITY    == NUM_OF_PAGE_FOR_USER * SIZE_OF_PAGE
MEMORY_CAPACITY  == USER_ADDR_OFFSET + USER_CAPACITY

\* "4K*1024 = 4M": a program is at most what one page table can map.
MAX_SIZE_OF_PROGRAM == PAGE_CAPACITY * SIZE_OF_PAGE

ASSUME KernelAssumption ==
  /\ MAX_PID \in Nat \ {0}
  /\ PAGE_CAPACITY \in Nat \ {0}
  /\ NUM_OF_PAGE_FOR_USER \in Nat \ {0}
  /\ START_PAGE_OF_USER \in Nat \ {0}
  /\ SIZE_OF_PAGE \in Nat \ {0}
  /\ SYS_USED_AT_BOOT \in Nat
  /\ SIZE_OF_PCB \in Nat \ {0}
  /\ BASE_MOD \in Nat \ {0}
  /\ ADDR_MOD \in Nat \ {0}
  /\ ORDER_MODE \in BOOLEAN
  \* what is in use at boot fits into the system area
  /\ SYS_USED_AT_BOOT <= USER_ADDR_OFFSET
  \* every page number is a base_type other than PAGE_NOT_USED
  /\ START_PAGE_OF_USER + NUM_OF_PAGE_FOR_USER < BASE_MOD
  \* every number of entries is a base_type
  /\ PAGE_CAPACITY < BASE_MOD
  \* sizes up to the largest program are rounded up to pages without a wrap
  /\ MAX_SIZE_OF_PROGRAM + SIZE_OF_PAGE <= ADDR_MOD
  \* 2^32 bytes are a whole number of times 2^16 pages
  /\ ADDR_MOD % (SIZE_OF_PAGE * BASE_MOD) = 0

-----------------------------------------------------------------------------
(* Sequences in key order.  SortedBy(S, key) lists the finite set S by     *)
(* increasing key; it is not SetToSortSeq because that one is defined      *)
(* through CHOOSE and a recursive sort, which the provers cannot unfold.   *)
Below(S, key, x)  == {y \in S : key[y] < key[x]}

SortedBy(S, key) ==
  [k \in 1 .. Cardinality(S) |->
     CHOOSE x \in S : Cardinality(Below(S, key, x)) = k - 1]

(* intiMemory: page numbers enter the free list in order, or all those     *)
(* whose offset is 0 modulo 4, then 1, 2 and 3 modulo 4.                   *)
BootKey ==
  [page \in UserPages |->
     LET i == page - START_PAGE_OF_USER
     IN  IF ORDER_MODE THEN i ELSE (i % 4) * NUM_OF_PAGE_FOR_USER + i]

-----------------------------------------------------------------------------
\* Mutant: rounded down.
WholePages(bytes) == (bytes \div SIZE_OF_PAGE) % BASE_MOD

\* Mutant: one page too many for a whole number of pages.
PagesAndOne(bytes) == (bytes \div SIZE_OF_PAGE + 1) % BASE_MOD

byte2Page(bytes) ==
  (((bytes + SIZE_OF_PAGE - 1) % ADDR_MOD) \div SIZE_OF_PAGE) % BASE_MOD

=============================================================================
