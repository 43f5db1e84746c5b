\* Two jobs in a row, on each of the four sandboxes.
CONSTANTS
  MaxHolders = 3
  MaxCalls = 2
SPECIFICATION FairSpec
CHECK_DEADLOCK FALSE
INVARIANTS
  TypeOK
  StatusTruthful
  OnlyCompiledRuns
  CleanReturn
PROPERTY
  Returns
