CONSTANTS
  ChunkArg = 3
  MaxSize = 7
  Faulty = TRUE
  Iterations = 2
SPECIFICATION FairRowSpec
INVARIANTS
  UnflaggedIsSound
  BadTableIsFlagged
  StreamIsComplete
PROPERTIES
  StreamIsSequential
  RowEnds
  ImplementsRow
\* The benchmark ends.
CHECK_DEADLOCK FALSE
