SPECIFICATION FairSpec
CONSTANTS
  Publishers = {p1, p2}
  Consumers = {c1}
  MemberCount = 1
  Contents = {a, b}
  MaxSequence = 2
  None = none
INVARIANTS
  SettledOnce
  OffersAreSound
  OffersAreConsumed
PROPERTIES
  SequencesIncrease
  OffersAreSettled
CHECK_DEADLOCK FALSE
