SPECIFICATION Spec
CONSTANTS
  Groups = {g1}
  Publishers = {p1, p2}
  Contents = {a, b}
  Incompatible = {b}
  MaxSequence = 3
  MaxSessions = 2
  None = None
INVARIANTS
  PendingIsItsOwn
  EventsFollowTheStream
  ImagesAreAccountedFor
PROPERTIES
  PublicationsIncrease
  PauseHolds
CHECK_DEADLOCK FALSE
