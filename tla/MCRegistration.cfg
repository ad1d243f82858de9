CONSTANTS
  Files <- MCFiles
  ReadSizes <- MCReadSizes
  Jobs = {1, 26}
  Filters <- MCFilters
  Repetitions = 1
  MaxFds = 22
  Faulty = TRUE
SPECIFICATION FairSpec
INVARIANTS
  TypeOK
  AllOrNothing
  RowsGetTheirData
  DescriptorBudget
PROPERTIES
  SelectedRowsRun
\* The process ends.
CHECK_DEADLOCK FALSE
