SPECIFICATION Spec
CONSTANTS
  Publishers = {p1, p2}
  Consumers = {c1}
  MemberCount = 2
  Contents = {a}
  MaxSequence = 3
  None = none
INVARIANTS
  DirectoriesAreRestored
SYMMETRY Symmetric
CHECK_DEADLOCK FALSE
