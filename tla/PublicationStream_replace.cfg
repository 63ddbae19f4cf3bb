SPECIFICATION Spec
CONSTANTS
  Publishers = {p1}
  Consumers = {c1}
  MemberCount = 1
  Contents = {a}
  MaxSequence = 2
  None = none
PROPERTY PublishedIsImmutable
CHECK_DEADLOCK FALSE
