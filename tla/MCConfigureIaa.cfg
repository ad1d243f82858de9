CONSTANTS
  num_iax = 2
  max_engines = 2
  max_wqs = 2
  Selections <- MCSelections
  Engines = {1, 2, 3}
  Runs = 2
  MaxFaults = 2
SPECIFICATION Spec
INVARIANTS
  QuietMeansConfigured
  OthersAreOff
\* The script ends after its last run.
CHECK_DEADLOCK FALSE
