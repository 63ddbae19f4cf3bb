SPECIFICATION Spec
CONSTANTS
  Groups = {1}
  MaxSequence = 1
  Generations = {1}
  Markers = {}
  MaxFiles = 1
  BaselineSequence = 0
  ObjectWatch = objects
  None = none
INVARIANTS BackendIsExclusive
