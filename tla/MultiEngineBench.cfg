CONSTANTS
  mem_size = 7
  job_n = 3
  Iterations = 2
  Faulty = TRUE
SPECIFICATION Spec
INVARIANTS
  UnflaggedIsSound
  BlameIsRight
  SharedBufferIsFlagged
  EveryByteOnce
PROPERTIES
  ImplementsRow
\* The benchmark ends.
CHECK_DEADLOCK FALSE
