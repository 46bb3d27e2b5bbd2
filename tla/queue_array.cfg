\* The list of a page table: filled from an array.
SPECIFICATION Spec
CONSTANTS
  Resource = {0, 1, 2, 3}
  CAPACITY = 4
  UNSET = UNSET
  FROM_ARRAY = TRUE
INVARIANT LentIsNotFree
CHECK_DEADLOCK TRUE
