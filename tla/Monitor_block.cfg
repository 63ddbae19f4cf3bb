SPECIFICATION FairSpec
CONSTANTS
  Cap = 1
  Height = 1
  MaxWork = 2
  MaxOutcomes = 1
  None = none
PROPERTY WritesReturn
CHECK_DEADLOCK FALSE
