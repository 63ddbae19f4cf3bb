SPECIFICATION Spec
CONSTANTS
  Groups = {g1}
  Publishers = {p1}
  Contents = {a, b}
  Incompatible = {b}
  MaxSequence = 2
  MaxSessions = 1
  None = None
INVARIANT ReadyIsPickedUp
CHECK_DEADLOCK FALSE
