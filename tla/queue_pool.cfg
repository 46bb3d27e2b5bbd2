\* The lists of pids and of pages: created empty, filled by pushes.
SPECIFICATION Spec
CONSTANTS
  Resource = {0, 1, 2, 3}
  CAPACITY = 4
  UNSET = UNSET
  FROM_ARRAY = FALSE
INVARIANTS
  TypeOK
  PoolConserved
PROPERTY ImplementsFifo
CHECK_DEADLOCK TRUE
