SPECIFICATION Spec
CONSTANTS
  Cap = 1
  Height = 1
  MaxWork = 4
  MaxOutcomes = 1
  None = none
INVARIANT UpdatesAreQuiescent
CHECK_DEADLOCK FALSE
