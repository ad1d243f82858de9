CONSTANTS
  src_size = 4
  PageSize = 4
  Iterations = 2
  Rows = 3
  Faulty = TRUE
SPECIFICATION Spec
INVARIANTS
  GrepFindsFailures
\* The program ends after its last row.
CHECK_DEADLOCK FALSE
