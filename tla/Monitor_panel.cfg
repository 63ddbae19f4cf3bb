SPECIFICATION FairSpec
CONSTANTS
  Cap = 2
  Height = 1
  MaxWork = 4
  MaxOutcomes = 2
  None = none
INVARIANTS
  ScreenIsTheFrame
  LogIsCurrent
PROPERTY PanelCloses
CHECK_DEADLOCK FALSE
