SPECIFICATION FairSpec
CONSTANTS
  Groups = {1, 2}
  MaxSequence = 3
  Generations = {1}
  Markers = {m1}
  MaxFiles = 2
  BaselineSequence = 1
  ObjectWatch = objects
  None = none
INVARIANTS
  TypeOK
  SnapshotTellsAll
  NothingIsReplayed
  EveryCommitIsTold
PROPERTIES
  PauseKeepsOutcome
  PreparedWorkIsKept
  OffersAreSettled
  CallsReturn
