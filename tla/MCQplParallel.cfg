CONSTANTS
  ThreadCount = 3
  ByteMod = 4
  ChunkSize <- MCChunkSize
  CompLen <- MCCompLen
  WQSize = 2
  Engines = 2
SPECIFICATION FairSpec
INVARIANTS
  SuccessIsComplete
  NoOverlap
  StatusIsFaithful
  TableHygiene
  ReserveSuffices
  DecompressedSize
  FailsOnlyWhenFull
PROPERTIES
  BuffersStable
  Terminates
  ImplementsBatch
\* The call returns and the accelerator drains: nothing is left to do.
CHECK_DEADLOCK FALSE
