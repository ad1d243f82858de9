CONSTANTS
  source_size = 2
  CompLen = 3
  Iterations = 3
  Faulty = FALSE
SPECIFICATION Spec
INVARIANTS
  ReservedSizePassed
\* The benchmark ends.
CHECK_DEADLOCK FALSE
