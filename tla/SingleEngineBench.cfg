CONSTANTS
  source_size = 2
  CompLen = 3
  Iterations = 3
  Faulty = TRUE
SPECIFICATION Spec
INVARIANTS
  UnflaggedIsSound
  OfferedSpaceFits
  BlameIsRight
\* The benchmark ends.
CHECK_DEADLOCK FALSE
