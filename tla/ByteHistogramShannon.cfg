CONSTANTS
  Byte = {b0, b1, b2}
  CountMod = 4
  MaxSize = 6
SPECIFICATION CountSpec
INVARIANTS
  ShannonProbabilities
\* The function returns.
CHECK_DEADLOCK FALSE
