SPECIFICATION Spec
CONSTANTS
  Cap = 1
  Height = 1
  MaxWork = 2
  MaxOutcomes = 1
  None = none
INVARIANT FailuresAreReported
CHECK_DEADLOCK FALSE
