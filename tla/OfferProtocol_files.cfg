SPECIFICATION Spec
CONSTANTS
  Components = {"a", "b", "c", "g"}
  Nested = {"a/x"}
  ObjectPaths = {"objects/a", "objects/b", "objects/c"}
  Digests = {"d1", "d2"}
  Phrases = {"two words"}
  Numbers = {"1", "12"}
  Shorter <- MCShorter
  Words <- MCWords
  Written <- MCWritten
  Lines <- MCLines
  Markers <- MCMarkers
  Descriptor <- MCDescriptor
  MaxDamage = 2
  Sections <- MCSections
INVARIANTS
  ParsesAsDeclared
  WrittenIsRead
  TornOffersAreNotLoaded
  OneDescriptorPerGroup
CHECK_DEADLOCK FALSE
