SPECIFICATION Spec
CONSTANTS
  Entries = {e1, e2}
  Slots = {s1, s2, s3, s4}
  Identities = {i1}
  Groups = {g1}
  Batch = batch
  Members = {m1, m2}
  Offered = {m1}
  Baseline = baseline
  Foreign = foreign
  AllocationFails = TRUE
SYMMETRY Symmetric
INVARIANTS
  TypeOK
  MemoryIsSafe
  CandidatesAreAccountedFor
  OneHomePerIdentity
PROPERTIES
  ImplementsAtomicReload
  EntriesAreRespected
  RejectedChangesNothing
