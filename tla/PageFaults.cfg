CONSTANTS
  Iterations = 2
  Runs = 3
  MaxFds = 2
  Faulty = TRUE
SPECIFICATION Spec
INVARIANTS
  ScenarioIsMeasured
  UnflaggedIsSound
  MismatchIsSilent
  OneDescriptorPerRun
\* The program ends after its last run.
CHECK_DEADLOCK FALSE
