---------------------- MODULE ReloadTransactionProofs ----------------------
(***************************************************************************)
(* Proofs about the transaction engine, for any number of entries, slots,  *)
(* groups, members and identities.                                         *)
(***************************************************************************)
EXTENDS ReloadTransaction, TLAPS

-----------------------------------------------------------------------------
(* The slots and entries of a set of images. *)

\* The operators that collect slots and entries stay within their types.
LEMMA ImagesType ==
  ASSUME NEW images \in SUBSET Image
  PROVE  /\ CodeOf(images) \subseteq Slots
         /\ StateOf(images) \subseteq Identities \X Slots
         /\ SlotsOf(images) \subseteq Slots
         /\ EntriesOf(images) \subseteq Entries
BY DEF CodeOf, StateOf, SlotsOf, EntriesOf, Image

\* Adding one image adds the slots of that image.
LEMMA SlotsOfUnion ==
  ASSUME NEW images, NEW image
  PROVE  SlotsOf(images \cup {image}) = SlotsOf(images) \cup SlotsOf({image})
BY DEF SlotsOf, CodeOf, StateOf

\* No image, no slot.
LEMMA SlotsOfNothing == SlotsOf({}) = {} /\ StateOf({}) = {} /\ EntriesOf({}) = {}
BY DEF SlotsOf, CodeOf, StateOf, EntriesOf

\* The code slot of an image of the set is a slot of the set.
LEMMA CodeIsSlot ==
  ASSUME NEW images, NEW i \in images
  PROVE  i.code \in SlotsOf(images)
BY DEF SlotsOf, CodeOf

\* Freeing candidates touches candidates only.
LEMMA ReclaimKeeps ==
  ASSUME NEW o, NEW kinds \in SUBSET {"building", "prepared"}, NEW s \in Slots,
         status[s] \in {"session", "process"}
  PROVE  Reclaim(o, kinds)[s] = status[s]
BY DEF Reclaim

\* Reclaiming changes a status to "free" or not at all.
LEMMA ReclaimType ==
  ASSUME NEW o, NEW kinds, status \in [Slots -> Statuses]
  PROVE  Reclaim(o, kinds) \in [Slots -> Statuses]
BY DEF Reclaim, Statuses

\* Handing over leaves a function from slots to statuses.
LEMMA HandOverType ==
  ASSUME NEW images, status \in [Slots -> Statuses]
  PROVE  HandOver(images, "session") \in [Slots -> Statuses]
BY DEF HandOver, Statuses

-----------------------------------------------------------------------------
(* Type correctness. *)

\* The initial values have their types.
LEMMA TypeInit == Init => TypeOK
<1> SUFFICES ASSUME Init PROVE TypeOK
  OBVIOUS
<1>1. Batch \in Owners
  BY DEF Owners
<1>2. entry \in [Entries -> Targets]
  BY DEF Init, Targets
<1>3. status \in [Slots -> Statuses]
  BY DEF Init, Statuses
<1> QED
  BY <1>1, <1>2, <1>3 DEF Init, TypeOK, Stages

\* What the loader returns is an Image.
LEMMA LoadedImageType ==
  ASSUME NEW m \in Members, NEW s \in FreeSlots, NEW R \in SUBSET Entries,
         NEW home \in FreshHomes(s)
  PROVE  LoadedImage(m, s, R, home) \in Image
<1>1. PICK fresh \in SUBSET Identities : home \in [fresh -> FreeSlots]
  BY DEF FreshHomes
<1>2. {<<d, home[d]>> : d \in DOMAIN home} \in SUBSET (Identities \X Slots)
  BY <1>1 DEF FreeSlots
<1> QED
  BY <1>2 DEF LoadedImage, Image, FreeSlots

\* Preparation keeps the types.
LEMMA TypePreparation ==
  ASSUME TypeOK, NEW o \in Owners,
         (\E m \in Members : LoadObject(o, m)) \/ LoadFails(o) \/ Prepare(o)
  PROVE  TypeOK'
<1>1. ASSUME NEW m \in Members, LoadObject(o, m) PROVE TypeOK'
  <2>1. PICK image \in Image : Adopt(o, image)
    BY <1>1, LoadedImageType DEF LoadObject
  <2>2. building' \in [Owners -> SUBSET Image]
    BY <2>1 DEF Adopt, TypeOK
  <2>3. status' \in [Slots -> Statuses] /\ owner' \in [Slots -> Owners]
    BY <2>1 DEF Adopt, TypeOK, Statuses
  <2> QED
    BY <1>1, <2>2, <2>3 DEF LoadObject, TypeOK, tx
<1>2. CASE LoadFails(o)
  BY <1>2, ReclaimType DEF LoadFails, TypeOK, tx
<1>3. CASE Prepare(o)
  <2>1. status' \in [Slots -> Statuses]
    BY <1>3, ReclaimType DEF Prepare, TypeOK, Statuses
  <2> QED
    BY <1>3, <2>1 DEF Prepare, TypeOK, tx
<1> QED
  BY <1>1, <1>2, <1>3

\* Destroying the transaction's candidates keeps the types.
LEMMA TypeReject == ASSUME TypeOK, Reject PROVE TypeOK'
BY ReclaimType DEF Reject, TypeOK, Stages

\* Publishing keeps the types, whatever is reported.
LEMMA TypePublish ==
  ASSUME TypeOK, NEW outcome \in {"applied", "rejected"}, Publish(outcome)
  PROVE  TypeOK'
BY HandOverType, ImagesType DEF Publish, TypeOK, Stages

\* Every step of commit() keeps the types.
LEMMA TypeCommit ==
  ASSUME TypeOK,
         \/ \E o \in Owners : Begin(o)
         \/ ReserveCommit \/ ReserveFails \/ SnapshotEntries \/ SnapshotFails
         \/ \E e \in Entries : PatchEntry(e) \/ RestoreEntry(e) \/ RestoreFails(e)
         \/ PatchFails \/ RolledBack \/ Poison \/ Commit \/ CommitThrowsLate
  PROVE  TypeOK'
<1> USE DEF memory, candidates, Stages
<1>1. CASE \E o \in Owners : Begin(o)
  BY <1>1 DEF Begin, TypeOK
<1>2. CASE ReserveCommit
  BY <1>2 DEF ReserveCommit, TypeOK
<1>3. CASE ReserveFails \/ SnapshotFails \/ RolledBack
  BY <1>3, TypeReject DEF ReserveFails, SnapshotFails, RolledBack
<1>4. CASE SnapshotEntries
  BY <1>4 DEF SnapshotEntries, TypeOK
<1>5. ASSUME NEW e \in Entries, PatchEntry(e) PROVE TypeOK'
  BY <1>5 DEF PatchEntry, TypeOK, Image, Targets
<1>6. ASSUME NEW e \in Entries, RestoreEntry(e) PROVE TypeOK'
  BY <1>6 DEF RestoreEntry, TypeOK
<1>7. ASSUME NEW e \in Entries, RestoreFails(e) PROVE TypeOK'
  BY <1>7 DEF RestoreFails, TypeOK
<1>8. CASE PatchFails
  BY <1>8 DEF PatchFails, TypeOK
<1>9. CASE Poison
  BY <1>9, HandOverType DEF Poison, TypeOK
<1>10. CASE Commit
  BY <1>10, TypePublish DEF Commit
<1>11. CASE CommitThrowsLate
  BY <1>11, TypePublish DEF CommitThrowsLate, TypeOK
<1> QED
  BY <1>1, <1>2, <1>3, <1>4, <1>5, <1>6, <1>7, <1>8, <1>9, <1>10, <1>11

\* Other sessions and the end of this one keep the types.
LEMMA TypeSurroundings ==
  ASSUME TypeOK, (\E e \in Entries : OtherSessionPatches(e)) \/ EndSession
  PROVE  TypeOK'
<1>1. ASSUME NEW e \in Entries, OtherSessionPatches(e) PROVE TypeOK'
  BY <1>1 DEF OtherSessionPatches, TypeOK, candidates, tx, Targets
<1>2. CASE EndSession
  BY <1>2 DEF EndSession, TypeOK, tx, Statuses
<1> QED
  BY <1>1, <1>2

\* Every state of the transaction engine is well typed.
THEOREM TypeCorrect == Spec => []TypeOK
<1>1. TypeOK /\ [Next]_vars => TypeOK'
  <2> SUFFICES ASSUME TypeOK, [Next]_vars PROVE TypeOK'
    OBVIOUS
  <2>1. CASE UNCHANGED vars
    BY <2>1 DEF vars, memory, candidates, tx, TypeOK
  <2>2. CASE Next
    BY <2>2, TypePreparation, TypeCommit, TypeSurroundings DEF Next
  <2> QED
    BY <2>1, <2>2
<1> QED
  BY <1>1, TypeInit, PTL DEF Spec

-----------------------------------------------------------------------------
(* Memory safety.  An entry is safe because its target is retained for     *)
(* good, or because the running transaction has just written it and still  *)
(* owns the candidate it points to.  The invariant also says who owns the  *)
(* candidates, for a thread that drops its own must not free another's.    *)

Retained(s) == status[s] \in {"session", "process"}

EntriesAreSafe ==
  \A e \in Entries : entry[e] \in Slots =>
    \/ Retained(entry[e])
    \/ e \in patched \cup failed /\ entry[e] \in SlotsOf(prepared[txOwner])

WritesBelongToCommit ==
  /\ stage \notin {"patching", "rollback"} => patched = {}
  /\ stage # "rollback" => failed = {}

MemoryInv ==
  /\ CandidatesAreOwned
  /\ EntriesAreSafe
  /\ NoDanglingRollback
  /\ StateOutlivesGenerations
  /\ WritesBelongToCommit

\* Nothing is loaded and nothing is redirected in an initial state.
LEMMA MemoryInit == Init => MemoryInv
<1> SUFFICES ASSUME Init PROVE MemoryInv
  OBVIOUS
<1>1. CandidatesAreOwned
  BY SlotsOfNothing DEF Init, CandidatesAreOwned
<1>2. EntriesAreSafe
  BY MarkersAreNotSlots DEF Init, EntriesAreSafe
<1> QED
  BY <1>1, <1>2 DEF Init, MemoryInv, NoDanglingRollback,
     StateOutlivesGenerations, WritesBelongToCommit

\* What a step needs to keep the part of the invariant about entries and
\* state when it writes no entry: retained slots stay retained, and the
\* transaction that is writing keeps its candidate.
LEMMA QuietStep ==
  ASSUME TypeOK, MemoryInv,
         UNCHANGED <<entry, stage, txOwner, saved, patched, failed>>,
         \A s \in Slots : Retained(s) => status'[s] = status[s],
         committed' = committed,
         stage # "idle" => prepared'[txOwner] = prepared[txOwner]
  PROVE  /\ EntriesAreSafe' /\ NoDanglingRollback'
         /\ StateOutlivesGenerations' /\ WritesBelongToCommit'
<1>1. stage = "idle" => patched = {} /\ failed = {}
  BY DEF MemoryInv, WritesBelongToCommit
<1>2. EntriesAreSafe'
  BY <1>1 DEF MemoryInv, EntriesAreSafe, Retained, TypeOK
<1>3. NoDanglingRollback'
  BY DEF MemoryInv, NoDanglingRollback, Retained, TypeOK
<1>4. StateOutlivesGenerations'
  BY DEF MemoryInv, StateOutlivesGenerations, Retained, TypeOK
<1> QED
  BY <1>2, <1>3, <1>4 DEF MemoryInv, WritesBelongToCommit

\* Loading takes free slots only.
LEMMA MemoryLoad ==
  ASSUME TypeOK, MemoryInv, NEW o \in Owners, NEW m \in Members, LoadObject(o, m)
  PROVE  MemoryInv'
<1>1. PICK s \in FreeSlots, R \in SUBSET Entries : \E home \in FreshHomes(s) :
        Adopt(o, LoadedImage(m, s, R, home))
  BY DEF LoadObject
<1>2. PICK home \in FreshHomes(s) : Adopt(o, LoadedImage(m, s, R, home))
  BY <1>1
<1> DEFINE image == LoadedImage(m, s, R, home)
<1>3. SlotsOf({image}) \subseteq FreeSlots
  <2>1. PICK fresh \in SUBSET Identities : home \in [fresh -> FreeSlots]
    BY DEF FreshHomes
  <2> QED
    BY <2>1 DEF SlotsOf, CodeOf, StateOf, LoadedImage
<1>4. \A t \in Slots : status[t] # "free" => status'[t] = status[t] /\ owner'[t] = owner[t]
  BY <1>2, <1>3 DEF Adopt, FreeSlots, TypeOK
<1>5. \A t \in Slots : t \in SlotsOf({image}) => status'[t] = "building" /\ owner'[t] = o
  BY <1>2 DEF Adopt
<1>6. CandidatesAreOwned'
  <2> SUFFICES ASSUME NEW p \in Owners, NEW t \in Slots
               PROVE /\ t \in SlotsOf(building'[p]) => status'[t] = "building" /\ owner'[t] = p
                     /\ t \in SlotsOf(prepared'[p]) => status'[t] = "prepared" /\ owner'[t] = p
    BY DEF CandidatesAreOwned
  <2>1. t \in SlotsOf(prepared'[p]) => status'[t] = "prepared" /\ owner'[t] = p
    BY <1>4 DEF LoadObject, MemoryInv, CandidatesAreOwned
  <2>2. CASE p # o
    <3>1. building'[p] = building[p]
      BY <2>2, <1>2 DEF Adopt, TypeOK
    <3> QED
      BY <2>1, <3>1, <1>4 DEF MemoryInv, CandidatesAreOwned
  <2>3. CASE p = o
    <3>1. building'[o] = building[o] \cup {image}
      BY <1>2 DEF Adopt, TypeOK
    <3>2. SlotsOf(building'[o]) = SlotsOf(building[o]) \cup SlotsOf({image})
      BY <3>1, SlotsOfUnion
    <3> QED
      BY <2>1, <2>3, <3>2, <1>4, <1>5 DEF MemoryInv, CandidatesAreOwned
  <2> QED
    BY <2>2, <2>3
<1>7. \A t \in Slots : Retained(t) => status'[t] = status[t]
  BY <1>4 DEF Retained
<1> QED
  BY <1>6, <1>7, QuietStep DEF LoadObject, MemoryInv, tx

\* A failed preparation frees candidates of its own owner only, and never
\* those of a transaction in progress.
LEMMA MemoryLoadFails ==
  ASSUME TypeOK, MemoryInv, NEW o \in Owners, LoadFails(o)
  PROVE  MemoryInv'
<1> DEFINE kinds == IF o = Batch THEN {"building"} ELSE {"building", "prepared"}
<1>1. status' = Reclaim(o, kinds)
  BY DEF LoadFails
<1>2. \A t \in Slots : status'[t] # status[t] => owner[t] = o /\ status[t] \in kinds
  BY <1>1 DEF Reclaim
<1>3. CandidatesAreOwned'
  <2> SUFFICES ASSUME NEW p \in Owners, NEW t \in Slots
               PROVE /\ t \in SlotsOf(building'[p]) => status'[t] = "building" /\ owner'[t] = p
                     /\ t \in SlotsOf(prepared'[p]) => status'[t] = "prepared" /\ owner'[t] = p
    BY DEF CandidatesAreOwned
  <2>1. CASE p # o
    BY <2>1, <1>2 DEF LoadFails, MemoryInv, CandidatesAreOwned, TypeOK
  <2>2. CASE p = o
    <3>1. t \notin SlotsOf(building'[p])
      BY <2>2, SlotsOfNothing DEF LoadFails, TypeOK
    <3>2. prepared'[p] = IF o = Batch THEN prepared[o] ELSE {}
      BY <2>2 DEF LoadFails, TypeOK
    <3> QED
      BY <3>1, <3>2, <2>2, <1>2, SlotsOfNothing DEF LoadFails, MemoryInv, CandidatesAreOwned
  <2> QED
    BY <2>1, <2>2
<1>4. \A t \in Slots : Retained(t) => status'[t] = status[t]
  BY <1>2 DEF Retained
<1>5. stage # "idle" => prepared'[txOwner] = prepared[txOwner]
  BY SeparateOwners DEF LoadFails, MayPrepare, WorkerMayRun, TypeOK, Owners
<1> QED
  BY <1>3, <1>4, <1>5, QuietStep DEF LoadFails, MemoryInv, tx

\* A validated generation replaces the uncommitted one of its owner.
LEMMA MemoryPrepare ==
  ASSUME TypeOK, MemoryInv, NEW o \in Owners, Prepare(o)
  PROVE  MemoryInv'
<1>1. \A t \in Slots : /\ t \in SlotsOf(building[o]) => status'[t] = "prepared"
                      /\ t \notin SlotsOf(building[o]) /\ status'[t] # status[t]
                           => owner[t] = o /\ status[t] = "prepared"
  BY DEF Prepare, Reclaim
<1>2. CandidatesAreOwned'
  <2> SUFFICES ASSUME NEW p \in Owners, NEW t \in Slots
               PROVE /\ t \in SlotsOf(building'[p]) => status'[t] = "building" /\ owner'[t] = p
                     /\ t \in SlotsOf(prepared'[p]) => status'[t] = "prepared" /\ owner'[t] = p
    BY DEF CandidatesAreOwned
  <2>1. CASE p # o
    <3>1. building'[p] = building[p] /\ prepared'[p] = prepared[p]
      BY <2>1 DEF Prepare, TypeOK
    <3>2. t \in SlotsOf(building[p]) \cup SlotsOf(prepared[p]) => t \notin SlotsOf(building[o])
      BY <2>1 DEF MemoryInv, CandidatesAreOwned
    <3> QED
      BY <2>1, <3>1, <3>2, <1>1 DEF Prepare, MemoryInv, CandidatesAreOwned
  <2>2. CASE p = o
    <3>1. building'[p] = {} /\ prepared'[p] = building[o]
      BY <2>2 DEF Prepare, TypeOK
    <3> QED
      BY <2>2, <3>1, <1>1, SlotsOfNothing DEF Prepare, MemoryInv, CandidatesAreOwned
  <2> QED
    BY <2>1, <2>2
<1>3. \A t \in Slots : Retained(t) => status'[t] = status[t]
  BY <1>1 DEF Retained, MemoryInv, CandidatesAreOwned
<1>4. stage # "idle" => prepared'[txOwner] = prepared[txOwner]
  BY SeparateOwners DEF Prepare, MayPrepare, WorkerMayRun, TypeOK, Owners
<1> QED
  BY <1>2, <1>3, <1>4, QuietStep DEF Prepare, MemoryInv, tx

\* A step of commit() that leaves the memory and the candidates alone keeps
\* their ownership.
LEMMA OwnershipUntouched ==
  ASSUME CandidatesAreOwned, UNCHANGED <<status, owner, candidates>>
  PROVE  CandidatesAreOwned'
BY DEF CandidatesAreOwned, candidates

\* Reject reclaims the candidates of a transaction no written entry is left of.
LEMMA MemoryReject ==
  ASSUME TypeOK, MemoryInv, Reject, patched = {}, failed = {}
  PROVE  MemoryInv'
<1>1. \A t \in Slots : status'[t] # status[t] => owner[t] = txOwner /\ status[t] = "prepared"
  BY DEF Reject, Reclaim
<1>2. \A t \in Slots : Retained(t) => status'[t] = status[t]
  BY <1>1 DEF Retained
<1>3. CandidatesAreOwned'
  <2> SUFFICES ASSUME NEW p \in Owners, NEW t \in Slots
               PROVE /\ t \in SlotsOf(building'[p]) => status'[t] = "building" /\ owner'[t] = p
                     /\ t \in SlotsOf(prepared'[p]) => status'[t] = "prepared" /\ owner'[t] = p
    BY DEF CandidatesAreOwned
  <2>1. p = txOwner => prepared'[p] = {}
    BY DEF Reject, TypeOK
  <2>2. p # txOwner => prepared'[p] = prepared[p]
    BY DEF Reject, TypeOK
  <2>3. owner' = owner /\ building' = building
    BY DEF Reject
  <2>4. t \in SlotsOf(building'[p]) => status'[t] = "building" /\ owner'[t] = p
    BY <1>1, <2>3 DEF MemoryInv, CandidatesAreOwned
  <2>5. t \in SlotsOf(prepared'[p]) => status'[t] = "prepared" /\ owner'[t] = p
    BY <1>1, <2>1, <2>2, <2>3, SlotsOfNothing DEF MemoryInv, CandidatesAreOwned
  <2> QED
    BY <2>4, <2>5
<1>4. EntriesAreSafe'
  BY <1>2 DEF Reject, MemoryInv, EntriesAreSafe, Retained, TypeOK
<1>5. NoDanglingRollback' /\ WritesBelongToCommit'
  BY DEF Reject, NoDanglingRollback, WritesBelongToCommit
<1>6. StateOutlivesGenerations'
  BY <1>2 DEF Reject, MemoryInv, StateOutlivesGenerations, Retained, TypeOK
<1> QED
  BY <1>3, <1>4, <1>5, <1>6 DEF MemoryInv

\* Moving the generation into the session keeps every safe entry safe: the
\* written ones now jump into retained memory.
LEMMA MemoryHandOver ==
  ASSUME TypeOK, MemoryInv,
         status' = HandOver(prepared[txOwner], "session"),
         prepared' = [prepared EXCEPT ![txOwner] = {}],
         committed' \in {committed, committed \cup StateOf(prepared[txOwner])},
         stage' = "idle", patched' = {}, failed' = {},
         UNCHANGED <<entry, owner, building>>
  PROVE  MemoryInv'
<1>1. \A t \in Slots : status'[t] = IF t \in SlotsOf(prepared[txOwner]) THEN "session"
                                   ELSE status[t]
  BY DEF HandOver
<1>2. CandidatesAreOwned'
  <2> SUFFICES ASSUME NEW p \in Owners, NEW t \in Slots
               PROVE /\ t \in SlotsOf(building'[p]) => status'[t] = "building" /\ owner'[t] = p
                     /\ t \in SlotsOf(prepared'[p]) => status'[t] = "prepared" /\ owner'[t] = p
    BY DEF CandidatesAreOwned
  <2>1. p = txOwner => prepared'[p] = {}
    BY DEF TypeOK
  <2>2. p # txOwner => prepared'[p] = prepared[p]
    BY DEF TypeOK
  <2>3. txOwner \in Owners
    BY DEF TypeOK
  <2> QED
    BY <1>1, <2>1, <2>2, <2>3, SlotsOfNothing DEF MemoryInv, CandidatesAreOwned
<1>3. EntriesAreSafe'
  BY <1>1 DEF MemoryInv, EntriesAreSafe, Retained, TypeOK
<1>4. StateOutlivesGenerations'
  <2> SUFFICES ASSUME NEW p \in committed' PROVE status'[p[2]] = "session"
    BY DEF StateOutlivesGenerations
  <2>1. CASE p \in committed
    BY <2>1, <1>1 DEF MemoryInv, StateOutlivesGenerations, TypeOK
  <2>2. CASE p \in StateOf(prepared[txOwner])
    <3>1. p[2] \in SlotsOf(prepared[txOwner])
      BY <2>2 DEF SlotsOf
    <3>2. p[2] \in Slots
      BY <2>2, ImagesType DEF TypeOK
    <3> QED
      BY <3>1, <3>2, <1>1
  <2> QED
    BY <2>1, <2>2
<1>5. NoDanglingRollback' /\ WritesBelongToCommit'
  BY DEF NoDanglingRollback, WritesBelongToCommit
<1> QED
  BY <1>2, <1>3, <1>4, <1>5 DEF MemoryInv

\* Patching and restoring one entry.
LEMMA MemoryWrite ==
  ASSUME TypeOK, MemoryInv, NEW e \in Entries,
         PatchEntry(e) \/ RestoreEntry(e) \/ RestoreFails(e)
  PROVE  MemoryInv'
<1>1. CandidatesAreOwned'
  BY OwnershipUntouched DEF MemoryInv, PatchEntry, RestoreEntry, RestoreFails, memory
<1>2. NoDanglingRollback' /\ StateOutlivesGenerations' /\ WritesBelongToCommit'
  BY DEF MemoryInv, PatchEntry, RestoreEntry, RestoreFails, memory,
         NoDanglingRollback, StateOutlivesGenerations, WritesBelongToCommit
<1>3. EntriesAreSafe'
  <2>1. CASE PatchEntry(e)
    <3>1. PICK i \in prepared[txOwner] : entry' = [entry EXCEPT ![e] = i.code]
      BY <2>1 DEF PatchEntry
    <3>2. entry'[e] \in SlotsOf(prepared[txOwner])
      BY <3>1, CodeIsSlot DEF TypeOK
    <3>3. \A f \in Entries \ {e} : entry'[f] = entry[f]
      BY <3>1 DEF TypeOK
    <3> QED
      BY <2>1, <3>2, <3>3 DEF PatchEntry, MemoryInv, EntriesAreSafe, Retained, candidates
  <2>2. CASE RestoreEntry(e)
    <3>1. entry'[e] = saved[e] /\ \A f \in Entries \ {e} : entry'[f] = entry[f]
      BY <2>2 DEF RestoreEntry, TypeOK
    <3> QED
      BY <2>2, <3>1 DEF RestoreEntry, MemoryInv, EntriesAreSafe, NoDanglingRollback,
                        Retained, candidates
  <2>3. CASE RestoreFails(e)
    BY <2>3 DEF RestoreFails, MemoryInv, EntriesAreSafe, Retained, candidates, memory
  <2> QED
    BY <2>1, <2>2, <2>3
<1> QED
  BY <1>1, <1>2, <1>3 DEF MemoryInv

\* The steps of commit() between its writes, and its four ends.
LEMMA MemoryCommit ==
  ASSUME TypeOK, MemoryInv,
         \/ \E o \in Owners : Begin(o)
         \/ ReserveCommit \/ ReserveFails \/ SnapshotEntries \/ SnapshotFails
         \/ PatchFails \/ RolledBack \/ Poison \/ Commit \/ CommitThrowsLate
  PROVE  MemoryInv'
<1>1. ASSUME NEW o \in Owners, Begin(o) PROVE MemoryInv'
  <2>1. patched = {} /\ failed = {}
    BY <1>1 DEF Begin, MemoryInv, WritesBelongToCommit
  <2> QED
    BY <1>1, <2>1, OwnershipUntouched DEF Begin, MemoryInv, EntriesAreSafe, Retained,
       NoDanglingRollback, StateOutlivesGenerations, WritesBelongToCommit, memory
<1>2. CASE ReserveCommit \/ PatchFails
  BY <1>2, OwnershipUntouched DEF ReserveCommit, PatchFails, MemoryInv, EntriesAreSafe,
     Retained, NoDanglingRollback, StateOutlivesGenerations, WritesBelongToCommit,
     memory, candidates
<1>3. CASE ReserveFails \/ SnapshotFails \/ RolledBack
  BY <1>3, MemoryReject DEF ReserveFails, SnapshotFails, RolledBack, MemoryInv,
     WritesBelongToCommit
<1>4. CASE SnapshotEntries
  <2>1. patched = {} /\ failed = {}
    BY <1>4 DEF SnapshotEntries, MemoryInv, WritesBelongToCommit
  <2>2. CandidatesAreOwned'
    BY <1>4, OwnershipUntouched DEF SnapshotEntries, MemoryInv, memory
  <2>3. NoDanglingRollback'
    BY <1>4, <2>1 DEF SnapshotEntries, MemoryInv, EntriesAreSafe, Retained,
       NoDanglingRollback, memory
  <2> QED
    BY <1>4, <2>1, <2>2, <2>3 DEF SnapshotEntries, MemoryInv, EntriesAreSafe, Retained,
       StateOutlivesGenerations, WritesBelongToCommit, memory, candidates
<1>5. CASE Poison
  BY <1>5, MemoryHandOver DEF Poison
<1>6. CASE Commit \/ CommitThrowsLate
  <2>1. PICK outcome : Publish(outcome)
    BY <1>6 DEF Commit, CommitThrowsLate
  <2>2. failed' = {}
    BY <2>1 DEF Publish, MemoryInv, WritesBelongToCommit
  <2> QED
    BY <2>1, <2>2, MemoryHandOver DEF Publish
<1> QED
  BY <1>1, <1>2, <1>3, <1>4, <1>5, <1>6

\* Another session's redirect is no slot of ours; ending the session turns
\* its memory over to the process.
LEMMA MemorySurroundings ==
  ASSUME TypeOK, MemoryInv,
         (\E e \in Entries : OtherSessionPatches(e)) \/ EndSession
  PROVE  MemoryInv'
<1>1. ASSUME NEW e \in Entries, OtherSessionPatches(e) PROVE MemoryInv'
  <2>1. CandidatesAreOwned'
    BY <1>1, OwnershipUntouched DEF OtherSessionPatches, MemoryInv
  <2>2. EntriesAreSafe'
    BY <1>1, MarkersAreNotSlots DEF OtherSessionPatches, MemoryInv, EntriesAreSafe,
       Retained, candidates, tx, TypeOK
  <2> QED
    BY <1>1, <2>1, <2>2 DEF OtherSessionPatches, MemoryInv, NoDanglingRollback,
       StateOutlivesGenerations, WritesBelongToCommit, tx
<1>2. CASE EndSession
  <2>1. \A t \in Slots : status'[t] = IF status[t] = "session" THEN "process"
                                    ELSE IF status[t] = "prepared" THEN "free" ELSE status[t]
    BY <1>2 DEF EndSession
  <2>2. stage' = "idle" /\ patched = {} /\ failed = {} /\ patched' = {} /\ failed' = {}
    BY <1>2 DEF EndSession, HostMayRun, tx, MemoryInv, WritesBelongToCommit
  <2>3. EntriesAreSafe'
    BY <1>2, <2>1, <2>2 DEF EndSession, MemoryInv, EntriesAreSafe, Retained, TypeOK
  <2>4. CandidatesAreOwned'
    <3> SUFFICES ASSUME NEW p \in Owners, NEW t \in Slots
                 PROVE /\ t \in SlotsOf(building'[p]) => status'[t] = "building" /\ owner'[t] = p
                       /\ t \in SlotsOf(prepared'[p]) => status'[t] = "prepared" /\ owner'[t] = p
      BY DEF CandidatesAreOwned
    <3>1. prepared'[p] = {} /\ building' = building /\ owner' = owner
      BY <1>2 DEF EndSession
    <3> QED
      BY <2>1, <3>1, SlotsOfNothing DEF MemoryInv, CandidatesAreOwned
  <2>5. StateOutlivesGenerations'
    BY <1>2 DEF EndSession, StateOutlivesGenerations
  <2> QED
    BY <2>2, <2>3, <2>4, <2>5 DEF MemoryInv, NoDanglingRollback, WritesBelongToCommit
<1> QED
  BY <1>1, <1>2

\* The ownership invariant holds in every state.
THEOREM MemoryCorrect == Spec => []MemoryInv
<1>1. TypeOK /\ MemoryInv /\ [Next]_vars => MemoryInv'
  <2> SUFFICES ASSUME TypeOK, MemoryInv, [Next]_vars PROVE MemoryInv'
    OBVIOUS
  <2>1. CASE UNCHANGED vars
    BY <2>1 DEF vars, memory, candidates, tx, MemoryInv, CandidatesAreOwned,
       EntriesAreSafe, Retained, NoDanglingRollback, StateOutlivesGenerations,
       WritesBelongToCommit
  <2>2. CASE Next
    BY <2>2, MemoryLoad, MemoryLoadFails, MemoryPrepare, MemoryWrite, MemoryCommit,
       MemorySurroundings DEF Next
  <2> QED
    BY <2>1, <2>2
<1> QED
  BY <1>1, MemoryInit, TypeCorrect, PTL DEF Spec

\* No entry of the running program ever jumps into reclaimed memory: between
\* two writes, during a rollback, after one that failed, and after the
\* session is gone.
LEMMA NoDanglingEntryAlways == Spec => []NoDanglingEntry
<1>1. MemoryInv /\ TypeOK => NoDanglingEntry
  BY DEF MemoryInv, CandidatesAreOwned, EntriesAreSafe, Retained, NoDanglingEntry, TypeOK
<1> QED
  BY <1>1, MemoryCorrect, TypeCorrect, PTL

\* A captured rollback image never leads into reclaimed memory.
LEMMA NoDanglingRollbackAlways == Spec => []NoDanglingRollback
<1>1. MemoryInv => NoDanglingRollback
  BY DEF MemoryInv
<1> QED
  BY <1>1, MemoryCorrect, PTL

\* Published state stays mapped as long as the session binds code to it.
LEMMA StateOutlivesGenerationsAlways == Spec => []StateOutlivesGenerations
<1>1. MemoryInv => StateOutlivesGenerations
  BY DEF MemoryInv
<1> QED
  BY <1>1, MemoryCorrect, PTL

\* Nothing that can still be reached is ever reclaimed.
THEOREM MemoryIsSafeAlways == Spec => []MemoryIsSafe
BY NoDanglingEntryAlways, NoDanglingRollbackAlways, StateOutlivesGenerationsAlways, PTL
   DEF MemoryIsSafe

-----------------------------------------------------------------------------
(* Refinement.  Between Begin and the end of a transaction the program is  *)
(* not running reloadable code, so the abstract entries are those from     *)
(* before it.  The invariant says which entries differ from them: exactly  *)
(* the ones written and not restored, and those hold the offered target.   *)

\* What is in the redirects of a set of loaded images.
LEMMA RedirectsMembers ==
  ASSUME NEW images \in SUBSET Image
  PROVE  /\ \A i \in images : \A e \in i.replaces : <<e, i.code>> \in RedirectsOf(images)
         /\ \A e, c : <<e, c>> \in RedirectsOf(images) => e \in EntriesOf(images)
         /\ RedirectsOf(images) \subseteq Entries \X Slots
BY DEF RedirectsOf, EntriesOf, Image

\* No image, no redirect.
LEMMA RedirectsOfNothing == RedirectsOf({}) = {}
BY DEF RedirectsOf

\* A validated generation offers one target for an entry.
LEMMA ValidatedOffersOneTarget ==
  ASSUME NEW images \in SUBSET Image, OneReplacement(images),
         NEW p \in RedirectsOf(images), NEW q \in RedirectsOf(images), p[1] = q[1]
  PROVE  p[2] = q[2]
<1>1. PICK i \in images : \E e \in i.replaces : p = <<e, i.code>>
  BY DEF RedirectsOf
<1>2. PICK j \in images : \E e \in j.replaces : q = <<e, j.code>>
  BY DEF RedirectsOf
<1>3. i = j
  BY <1>1, <1>2 DEF OneReplacement
<1> QED
  BY <1>1, <1>2, <1>3

WritesAreOffered ==
  \A e \in Entries : IF e \in patched \cup failed
                    THEN <<e, entry[e]>> \in RedirectsOf(prepared[txOwner])
                    ELSE entry[e] = before[e]

AtomicInv ==
  /\ stage # "idle" => ~poisoned /\ WritesAreOffered
  /\ stage \in {"patching", "rollback"} => saved = before
  /\ stage \notin {"patching", "rollback"} => patched = {}
  /\ stage # "rollback" => failed = {}
  /\ patched \cap failed = {}

\* No transaction is running in an initial state.
LEMMA AtomicInit == Init => AtomicInv
BY DEF Init, AtomicInv

\* Preparation does not disturb the generation being committed.
LEMMA PreparationSparesCommit ==
  ASSUME TypeOK, NEW o \in Owners,
         (\E m \in Members : LoadObject(o, m)) \/ LoadFails(o) \/ Prepare(o),
         stage # "idle"
  PROVE  prepared'[txOwner] = prepared[txOwner]
BY SeparateOwners DEF LoadObject, LoadFails, Prepare, MayPrepare, WorkerMayRun, TypeOK, Owners

\* Every step keeps the written entries and the recorded ones apart.
LEMMA AtomicStep == TypeOK /\ AtomicInv /\ [Next]_vars => AtomicInv'
<1> SUFFICES ASSUME TypeOK, AtomicInv, [Next]_vars PROVE AtomicInv'
  OBVIOUS
<1>1. ASSUME NEW o \in Owners,
             (\E m \in Members : LoadObject(o, m)) \/ LoadFails(o) \/ Prepare(o)
      PROVE AtomicInv'
  <2>1. UNCHANGED <<entry, tx, poisoned, before>>
    BY <1>1 DEF LoadObject, LoadFails, Prepare
  <2> QED
    BY <1>1, <2>1, PreparationSparesCommit DEF AtomicInv, WritesAreOffered, tx
<1>2. ASSUME NEW o \in Owners, Begin(o) PROVE AtomicInv'
  BY <1>2 DEF Begin, AtomicInv, WritesAreOffered, memory
<1>3. CASE ReserveCommit \/ PatchFails
  BY <1>3 DEF ReserveCommit, PatchFails, AtomicInv, WritesAreOffered, memory, candidates
<1>4. CASE ReserveFails \/ SnapshotFails \/ RolledBack
  BY <1>4 DEF ReserveFails, SnapshotFails, RolledBack, Reject, AtomicInv
<1>5. CASE SnapshotEntries
  <2>1. \A e \in Entries : entry[e] = before[e]
    BY <1>5 DEF SnapshotEntries, AtomicInv, WritesAreOffered
  <2>2. entry = before
    BY <2>1 DEF TypeOK
  <2> QED
    BY <1>5, <2>2 DEF SnapshotEntries, AtomicInv, WritesAreOffered, memory, candidates
<1>6. ASSUME NEW e \in Entries, PatchEntry(e) PROVE AtomicInv'
  <2>1. PICK i \in prepared[txOwner] :
          e \in i.replaces /\ entry' = [entry EXCEPT ![e] = i.code]
    BY <1>6 DEF PatchEntry
  <2>2. <<e, entry'[e]>> \in RedirectsOf(prepared[txOwner])
    BY <2>1, RedirectsMembers DEF TypeOK
  <2>3. \A f \in Entries \ {e} : entry'[f] = entry[f]
    BY <2>1 DEF TypeOK
  <2>4. WritesAreOffered'
    BY <1>6, <2>2, <2>3 DEF PatchEntry, AtomicInv, WritesAreOffered, candidates
  <2> QED
    BY <1>6, <2>4 DEF PatchEntry, AtomicInv
<1>7. ASSUME NEW e \in Entries, RestoreEntry(e) PROVE AtomicInv'
  <2>1. entry'[e] = before[e] /\ \A f \in Entries \ {e} : entry'[f] = entry[f]
    BY <1>7 DEF RestoreEntry, TypeOK, AtomicInv
  <2>2. WritesAreOffered'
    BY <1>7, <2>1 DEF RestoreEntry, AtomicInv, WritesAreOffered, candidates
  <2> QED
    BY <1>7, <2>2 DEF RestoreEntry, AtomicInv
<1>8. ASSUME NEW e \in Entries, RestoreFails(e) PROVE AtomicInv'
  <2>1. patched' \cup failed' = patched \cup failed
    BY <1>8 DEF RestoreFails
  <2>2. WritesAreOffered'
    BY <1>8, <2>1 DEF RestoreFails, AtomicInv, WritesAreOffered, memory, candidates
  <2> QED
    BY <1>8, <2>2 DEF RestoreFails, AtomicInv
<1>9. CASE Poison
  BY <1>9 DEF Poison, AtomicInv
<1>10. CASE Commit \/ CommitThrowsLate
  BY <1>10 DEF Commit, CommitThrowsLate, Publish, AtomicInv
<1>11. ASSUME (\E e \in Entries : OtherSessionPatches(e)) \/ EndSession PROVE AtomicInv'
  BY <1>11 DEF OtherSessionPatches, EndSession, HostMayRun, AtomicInv, tx
<1>12. CASE UNCHANGED vars
  BY <1>12 DEF vars, memory, candidates, tx, AtomicInv, WritesAreOffered
<1> QED
  BY <1>1, <1>2, <1>3, <1>4, <1>5, <1>6, <1>7, <1>8, <1>9, <1>10, <1>11, <1>12 DEF Next

\* A rejected transaction leaves every entry as it was before Begin.
LEMMA RejectRestored ==
  ASSUME TypeOK, AtomicInv, stage # "idle", patched = {}, failed = {}
  PROVE  entry = before
<1>1. \A e \in Entries : entry[e] = before[e]
  BY DEF AtomicInv, WritesAreOffered
<1> QED
  BY <1>1 DEF TypeOK

\* The mapped variables.
Live == IF stage = "idle" THEN entry ELSE before
Offers == [o \in Owners |-> RedirectsOf(prepared[o])]

\* Replacing the generation of one owner changes its offer only.
LEMMA OffersAfter ==
  ASSUME TypeOK, NEW o \in Owners, NEW images,
         prepared' = [prepared EXCEPT ![o] = images]
  PROVE  /\ Offers'[o] = RedirectsOf(images)
         /\ \A p \in Owners \ {o} : Offers'[p] = Offers[p]
BY DEF TypeOK, Offers

\* Every end of a transaction is a step of AtomicReload.
LEMMA RefineEnds ==
  ASSUME TypeOK, TypeOK', AtomicInv,
         \/ Reject /\ patched = {} /\ failed = {} /\ stage # "idle"
         \/ Poison \/ Commit \/ CommitThrowsLate
  PROVE  Atomic!Next
<1> USE DEF Live, Offers
<1>0. txOwner \in Owners
  BY DEF TypeOK
<1>1. CASE Reject /\ patched = {} /\ failed = {} /\ stage # "idle"
  <2>1. Live' = Live
    BY <1>1, RejectRestored DEF Reject
  <2>2. Offers'[txOwner] = {} /\ \A p \in Owners \ {txOwner} : Offers'[p] = Offers[p]
    BY <1>0, <1>1, OffersAfter, RedirectsOfNothing DEF Reject
  <2>3. result' = "rejected" /\ poisoned' = poisoned
    BY <1>1 DEF Reject
  <2>4. Atomic!Reject(txOwner)
    BY <2>1, <2>2, <2>3 DEF Atomic!Reject, Atomic!Consumed, Atomic!OnlyOffer
  <2> QED
    BY <1>0, <2>4 DEF Atomic!Next
<1>2. ASSUME Poison \/ Commit \/ CommitThrowsLate PROVE Atomic!Next
  <2>1. stage # "idle" /\ stage' = "idle" /\ entry' = entry /\ ~poisoned
    BY <1>2 DEF Poison, Commit, CommitThrowsLate, Publish, AtomicInv
  <2>2. Offers'[txOwner] = {} /\ \A p \in Owners \ {txOwner} : Offers'[p] = Offers[p]
    BY <1>0, <1>2, OffersAfter, RedirectsOfNothing DEF Poison, Commit, CommitThrowsLate, Publish
  <2>3. Live = before /\ Live' = entry
    BY <2>1
  <2>4. entry \in [Entries -> Slots \cup {Baseline, Foreign}]
    BY DEF TypeOK, Targets
  <2>5. Offers[txOwner] = RedirectsOf(prepared[txOwner])
    BY <1>0
  <2>6. CASE Poison
    <3>1. \A e \in Entries : entry[e] = before[e] \/ <<e, entry[e]>> \in Offers[txOwner]
      BY <2>1, <2>5 DEF AtomicInv, WritesAreOffered
    <3>2. Atomic!Break(txOwner)
      BY <2>1, <2>2, <2>3, <2>4, <2>6, <3>1 DEF Poison, Atomic!Break, Atomic!Rewritten,
         Atomic!Consumed, Atomic!OnlyOffer
    <3> QED
      BY <1>0, <3>2 DEF Atomic!Next
  <2>7. CASE Commit \/ CommitThrowsLate
    <3>1. \A e \in Entries :
            \/ <<e, entry[e]>> \in Offers[txOwner]
            \/ entry[e] = before[e] /\ \A c \in Slots : <<e, c>> \notin Offers[txOwner]
      <4> SUFFICES ASSUME NEW e \in Entries
                   PROVE  \/ <<e, entry[e]>> \in Offers[txOwner]
                          \/ /\ entry[e] = before[e]
                             /\ \A c \in Slots : <<e, c>> \notin Offers[txOwner]
        OBVIOUS
      <4>1. EntriesOf(prepared[txOwner]) \subseteq patched /\ failed = {}
        BY <2>7 DEF Commit, CommitThrowsLate, Publish, Unpatched, AtomicInv
      <4>2. CASE e \in patched
        BY <4>2, <2>1, <2>5 DEF AtomicInv, WritesAreOffered
      <4>3. CASE e \notin patched
        <5>1. entry[e] = before[e]
          BY <4>1, <4>3, <2>1 DEF AtomicInv, WritesAreOffered
        <5>2. prepared[txOwner] \in SUBSET Image
          BY <1>0 DEF TypeOK
        <5>3. \A c \in Slots : <<e, c>> \notin Offers[txOwner]
          BY <2>5, <4>1, <4>3, <5>2, RedirectsMembers
        <5> QED
          BY <5>1, <5>3
      <4> QED
        BY <4>2, <4>3
    <3>2. /\ result' = "applied" \/ (AllocationFails /\ result' = "rejected")
          /\ poisoned' = poisoned
      BY <2>7 DEF Commit, CommitThrowsLate, Publish
    <3>3. Atomic!Apply(txOwner)
      BY <2>1, <2>2, <2>3, <2>4, <3>1, <3>2 DEF Atomic!Apply, Atomic!Rewritten,
         Atomic!Consumed, Atomic!OnlyOffer
    <3> QED
      BY <1>0, <3>3 DEF Atomic!Next
  <2> QED
    BY <1>2, <2>6, <2>7
<1> QED
  BY <1>1, <1>2

\* Preparation offers, withdraws, or does nothing the host can see.
LEMMA RefinePreparation ==
  ASSUME TypeOK, NEW o \in Owners,
         (\E m \in Members : LoadObject(o, m)) \/ LoadFails(o) \/ Prepare(o)
  PROVE  Atomic!Next \/ UNCHANGED <<Live, Offers, poisoned, result>>
<1> USE DEF Live
<1>1. Live' = Live /\ UNCHANGED <<poisoned, result>>
  BY DEF LoadObject, LoadFails, Prepare, tx
<1>2. CASE prepared' = prepared
  BY <1>1, <1>2 DEF Offers
<1>3. ASSUME NEW images \in SUBSET Image, OneReplacement(images),
             prepared' = [prepared EXCEPT ![o] = images]
      PROVE  Atomic!Next
  <2>1. Offers'[o] = RedirectsOf(images) /\ \A p \in Owners \ {o} : Offers'[p] = Offers[p]
    BY <1>3, OffersAfter
  <2>2. \A p, q \in RedirectsOf(images) : p[1] = q[1] => p[2] = q[2]
    BY <1>3, ValidatedOffersOneTarget
  <2>3. Atomic!Offer(o)
    BY <1>1, <2>1, <2>2 DEF Offers, Atomic!Offer, Atomic!OneTarget, Atomic!OnlyOffer
  <2> QED
    BY <2>3 DEF Atomic!Next
<1>4. CASE \E m \in Members : LoadObject(o, m)
  BY <1>2, <1>4 DEF LoadObject
<1>5. CASE LoadFails(o)
  <2>1. OneReplacement({})
    BY DEF OneReplacement
  <2> QED
    BY <1>2, <1>3, <1>5, <2>1 DEF LoadFails
<1>6. CASE Prepare(o)
  BY <1>3, <1>6 DEF Prepare, TypeOK
<1> QED
  BY <1>4, <1>5, <1>6

\* What commit() does before its end is invisible, but for its beginning.
LEMMA RefineCommitSteps ==
  ASSUME TypeOK,
         \/ \E o \in Owners : Begin(o)
         \/ ReserveCommit \/ SnapshotEntries \/ PatchFails
         \/ \E e \in Entries : PatchEntry(e) \/ RestoreEntry(e) \/ RestoreFails(e)
  PROVE  Atomic!Next \/ UNCHANGED <<Live, Offers, poisoned, result>>
<1>1. CASE \E o \in Owners : Begin(o)
  <2>1. Live' = Live /\ Offers' = Offers /\ poisoned' = poisoned /\ result' = "none"
    BY <1>1 DEF Begin, Live, Offers, memory, candidates
  <2> QED
    BY <2>1 DEF Atomic!Next, Atomic!Start, Live, Offers
<1>2. CASE ReserveCommit \/ SnapshotEntries \/ PatchFails
  BY <1>2 DEF ReserveCommit, SnapshotEntries, PatchFails, Live, Offers, candidates
<1>3. CASE \E e \in Entries : PatchEntry(e) \/ RestoreEntry(e) \/ RestoreFails(e)
  BY <1>3 DEF PatchEntry, RestoreEntry, RestoreFails, Live, Offers, candidates
<1> QED
  BY <1>1, <1>2, <1>3

\* Another session's redirect and the end of this session map to themselves.
LEMMA RefineSurroundings ==
  ASSUME TypeOK, (\E e \in Entries : OtherSessionPatches(e)) \/ EndSession
  PROVE  Atomic!Next
<1> USE DEF Live, Offers
<1>1. stage = "idle" /\ stage' = "idle"
  BY DEF OtherSessionPatches, EndSession, HostMayRun, tx
<1>2. ASSUME NEW e \in Entries, OtherSessionPatches(e) PROVE Atomic!Next
  <2>1. Atomic!Intrude(e)
    BY <1>1, <1>2 DEF OtherSessionPatches, Atomic!Intrude, candidates
  <2> QED
    BY <2>1 DEF Atomic!Next
<1>3. CASE EndSession
  <2>1. \A o \in Owners : prepared'[o] = {}
    BY <1>3 DEF EndSession
  <2>2. Offers' = [o \in Owners |-> {}]
    BY <2>1, RedirectsOfNothing
  <2>3. Atomic!Replace
    BY <1>1, <1>3, <2>2 DEF EndSession, Atomic!Replace
  <2> QED
    BY <2>3 DEF Atomic!Next
<1> QED
  BY <1>2, <1>3

\* The write-by-write commit implements the one-step transaction: the
\* program sees a generation on all of its entries or on none, or the session
\* is lost; and it is told the truth, unless bookkeeping fails after the last
\* write.
THEOREM Refinement == Spec => ImplementsAtomicReload
<1>1. Init => Atomic!Init
  <2> SUFFICES ASSUME Init PROVE Atomic!Init
    OBVIOUS
  <2>1. Offers = [o \in Owners |-> {}]
    BY RedirectsOfNothing DEF Init, Offers
  <2> QED
    BY <2>1 DEF Init, Atomic!Init, Offers
<1>2. TypeOK /\ TypeOK' /\ AtomicInv /\ [Next]_vars => [Atomic!Next]_(Atomic!vars)
  <2> SUFFICES ASSUME TypeOK, TypeOK', AtomicInv, [Next]_vars
               PROVE Atomic!Next \/ UNCHANGED <<Live, Offers, poisoned, result>>
    BY DEF Atomic!vars, Live, Offers
  <2>1. CASE UNCHANGED vars
    BY <2>1 DEF vars, memory, candidates, tx, Live, Offers
  <2>2. CASE ReserveFails \/ SnapshotFails \/ RolledBack \/ Poison \/ Commit \/ CommitThrowsLate
    <3>1. ReserveFails \/ SnapshotFails \/ RolledBack
            => Reject /\ patched = {} /\ failed = {} /\ stage # "idle"
      BY DEF ReserveFails, SnapshotFails, RolledBack, AtomicInv
    <3> QED
      BY <2>2, <3>1, RefineEnds
  <2> QED
    BY <2>1, <2>2, RefinePreparation, RefineCommitSteps, RefineSurroundings DEF Next
<1>3. Spec => []AtomicInv
  BY AtomicInit, AtomicStep, TypeCorrect, PTL DEF Spec
<1> QED
  BY <1>1, <1>2, <1>3, TypeCorrect, PTL DEF Spec, Atomic!Spec, ImplementsAtomicReload

-----------------------------------------------------------------------------
(* Outcomes.  A transaction that runs has not told anything yet, so that   *)
(* the step that tells is the one that ends it.                            *)

OutcomeIsOpen == stage # "idle" => result = "none"

\* Only Begin starts a transaction, and it forgets the last result.
LEMMA OutcomeStep == OutcomeIsOpen /\ [Next]_vars => OutcomeIsOpen'
<1> SUFFICES ASSUME OutcomeIsOpen, [Next]_vars PROVE OutcomeIsOpen'
  OBVIOUS
<1> USE DEF OutcomeIsOpen
<1>1. ASSUME NEW o \in Owners,
             (\E m \in Members : LoadObject(o, m)) \/ LoadFails(o) \/ Prepare(o) \/ Begin(o)
      PROVE OutcomeIsOpen'
  BY <1>1 DEF LoadObject, LoadFails, Prepare, Begin, tx
<1>2. CASE ReserveCommit \/ SnapshotEntries \/ PatchFails
  BY <1>2 DEF ReserveCommit, SnapshotEntries, PatchFails
<1>3. CASE ReserveFails \/ SnapshotFails \/ RolledBack \/ Poison \/ Commit \/ CommitThrowsLate
  BY <1>3 DEF ReserveFails, SnapshotFails, RolledBack, Reject, Poison, Commit,
     CommitThrowsLate, Publish
<1>4. ASSUME NEW e \in Entries,
             PatchEntry(e) \/ RestoreEntry(e) \/ RestoreFails(e) \/ OtherSessionPatches(e)
      PROVE OutcomeIsOpen'
  BY <1>4 DEF PatchEntry, RestoreEntry, RestoreFails, OtherSessionPatches, tx
<1>5. CASE EndSession
  BY <1>5 DEF EndSession, tx
<1>6. CASE UNCHANGED vars
  BY <1>6 DEF vars, tx
<1> QED
  BY <1>1, <1>2, <1>3, <1>4, <1>5, <1>6 DEF Next

\* The entries before the transaction are what a rejection leaves behind.
LEMMA AtomicCorrect == Spec => []AtomicInv
BY AtomicInit, AtomicStep, TypeCorrect, PTL DEF Spec

\* A transaction that is reported as rejected before it was applied changed no
\* entry, whatever it had already written.
THEOREM RejectedChangesNothingAlways == Spec => RejectedChangesNothing
<1>1. ASSUME TypeOK, AtomicInv, OutcomeIsOpen, [Next]_vars,
             stage \notin {"idle", "patching"}, result' = "rejected"
      PROVE entry' = before
  <2>1. result = "none"
    BY <1>1 DEF OutcomeIsOpen
  <2>2. CASE Reject /\ patched = {} /\ failed = {}
    BY <1>1, <2>2, RejectRestored DEF Reject
  <2>3. CASE ReserveFails \/ SnapshotFails \/ RolledBack
    <3>1. Reject /\ patched = {} /\ failed = {}
      BY <2>3, <1>1 DEF ReserveFails, SnapshotFails, RolledBack, AtomicInv
    <3> QED
      BY <3>1, <2>2
  <2>4. ASSUME NEW o \in Owners,
               (\E m \in Members : LoadObject(o, m)) \/ LoadFails(o) \/ Prepare(o) \/ Begin(o)
        PROVE FALSE
    BY <1>1, <2>1, <2>4 DEF LoadObject, LoadFails, Prepare, Begin
  <2>5. CASE ReserveCommit \/ SnapshotEntries \/ PatchFails \/ Poison \/ Commit
             \/ CommitThrowsLate \/ EndSession
    BY <1>1, <2>1, <2>5 DEF ReserveCommit, SnapshotEntries, PatchFails, Poison, Commit,
       CommitThrowsLate, Publish, EndSession
  <2>6. ASSUME NEW e \in Entries,
               PatchEntry(e) \/ RestoreEntry(e) \/ RestoreFails(e) \/ OtherSessionPatches(e)
        PROVE FALSE
    BY <1>1, <2>1, <2>6 DEF PatchEntry, RestoreEntry, RestoreFails, OtherSessionPatches
  <2>7. CASE UNCHANGED vars
    BY <1>1, <2>1, <2>7 DEF vars
  <2> QED
    BY <1>1, <2>3, <2>4, <2>5, <2>6, <2>7 DEF Next
<1>2. Init => OutcomeIsOpen
  BY DEF Init, OutcomeIsOpen
<1>3. Spec => []OutcomeIsOpen
  BY <1>2, OutcomeStep, PTL DEF Spec
<1>4. TypeOK /\ AtomicInv /\ OutcomeIsOpen /\ [Next]_vars =>
        [stage \notin {"idle", "patching"} /\ result' = "rejected" => entry' = before]_vars
  BY <1>1
<1> QED
  BY <1>3, <1>4, AtomicCorrect, TypeCorrect, PTL DEF Spec, RejectedChangesNothing

\* An incomplete rollback ends all writing, and a redirect this session does
\* not own is never overwritten: a patch refuses it, and a rollback only
\* visits entries that hold the code of its own generation.
THEOREM EntriesAreRespectedAlways == Spec => EntriesAreRespected
<1> DEFINE Respected(e) ==
      /\ poisoned /\ poisoned' => entry'[e] = entry[e] \/ entry'[e] = Foreign
      /\ entry[e] = Foreign => entry'[e] = Foreign
<1>1. ASSUME TypeOK, AtomicInv, [Next]_vars, NEW e \in Entries PROVE Respected(e)
  <2>1. stage # "idle" => ~poisoned
    BY <1>1 DEF AtomicInv
  <2>2. CASE entry' = entry
    BY <2>2
  <2>3. ASSUME NEW f \in Entries, PatchEntry(f) PROVE Respected(e)
    <3>1. entry[f] # Foreign
      BY <2>3, MarkersAreNotSlots DEF PatchEntry, Patchable
    <3>2. f # e => entry'[e] = entry[e]
      BY <2>3, <1>1 DEF PatchEntry, TypeOK
    <3>3. stage # "idle"
      BY <2>3 DEF PatchEntry
    <3> QED
      BY <2>1, <3>1, <3>2, <3>3
  <2>4. ASSUME NEW f \in Entries, RestoreEntry(f) PROVE Respected(e)
    <3>1. stage # "idle" /\ f \in patched
      BY <2>4 DEF RestoreEntry
    <3>2. <<f, entry[f]>> \in RedirectsOf(prepared[txOwner])
      BY <1>1, <3>1 DEF AtomicInv, WritesAreOffered
    <3>3. prepared[txOwner] \in SUBSET Image
      BY <1>1 DEF TypeOK
    <3>4. entry[f] # Foreign
      BY <3>2, <3>3, RedirectsMembers, MarkersAreNotSlots
    <3>5. f # e => entry'[e] = entry[e]
      BY <2>4, <1>1 DEF RestoreEntry, TypeOK
    <3> QED
      BY <2>1, <3>1, <3>4, <3>5
  <2>5. ASSUME NEW f \in Entries, OtherSessionPatches(f) PROVE Respected(e)
    BY <2>5, <1>1 DEF OtherSessionPatches, TypeOK
  <2>6. ASSUME NEW o \in Owners,
               (\E m \in Members : LoadObject(o, m)) \/ LoadFails(o) \/ Prepare(o) \/ Begin(o)
        PROVE entry' = entry
    BY <2>6 DEF LoadObject, LoadFails, Prepare, Begin, memory
  <2>7. ASSUME NEW f \in Entries, RestoreFails(f) PROVE entry' = entry
    BY <2>7 DEF RestoreFails, memory
  <2>8. CASE ReserveCommit \/ SnapshotEntries \/ PatchFails \/ Poison \/ Commit
             \/ CommitThrowsLate \/ EndSession
    BY <2>2, <2>8 DEF ReserveCommit, SnapshotEntries, PatchFails, Poison, Commit,
       CommitThrowsLate, Publish, EndSession, memory
  <2>9. CASE ReserveFails \/ SnapshotFails \/ RolledBack
    BY <2>2, <2>9 DEF ReserveFails, SnapshotFails, RolledBack, Reject
  <2>10. CASE UNCHANGED vars
    BY <2>2, <2>10 DEF vars, memory
  <2> QED
    BY <1>1, <2>2, <2>3, <2>4, <2>5, <2>6, <2>7, <2>8, <2>9, <2>10 DEF Next
<1>2. TypeOK /\ AtomicInv /\ [Next]_vars =>
        [\A e \in Entries :
           /\ poisoned /\ poisoned' => entry'[e] = entry[e] \/ entry'[e] = Foreign
           /\ entry[e] = Foreign => entry'[e] = Foreign]_vars
  BY <1>1
<1> QED
  BY <1>2, AtomicCorrect, TypeCorrect, PTL DEF Spec, EntriesAreRespected

-----------------------------------------------------------------------------
(* Accounting.  MemoryInv says that the slots of a loaded image are        *)
(* candidates; here is the converse, that no candidate slot is without its *)
(* image.                                                                  *)

NothingLeaks ==
  \A s \in Slots : /\ status[s] = "building" => s \in SlotsOf(building[owner[s]])
                   /\ status[s] = "prepared" => s \in SlotsOf(prepared[owner[s]])

\* Loading takes free slots for the image it adds.
LEMMA LeakLoad ==
  ASSUME TypeOK, NothingLeaks, NEW o \in Owners, NEW m \in Members, LoadObject(o, m)
  PROVE  NothingLeaks'
<1>1. PICK image : Adopt(o, image)
  BY DEF LoadObject
<1>2. building'[o] = building[o] \cup {image} /\ \A p \in Owners \ {o} : building'[p] = building[p]
  BY <1>1 DEF Adopt, TypeOK
<1>3. SlotsOf(building'[o]) = SlotsOf(building[o]) \cup SlotsOf({image})
  BY <1>2, SlotsOfUnion
<1>4. ASSUME NEW s \in Slots
      PROVE /\ status'[s] = "building" => s \in SlotsOf(building'[owner'[s]])
            /\ status'[s] = "prepared" => s \in SlotsOf(prepared'[owner'[s]])
  <2>1. CASE s \in SlotsOf({image})
    BY <1>1, <1>3, <2>1 DEF Adopt
  <2>2. CASE s \notin SlotsOf({image})
    <3>1. status'[s] = status[s] /\ owner'[s] = owner[s] /\ owner[s] \in Owners
      BY <1>1, <2>2 DEF Adopt, TypeOK
    <3>2. SlotsOf(building[owner[s]]) \subseteq SlotsOf(building'[owner[s]])
      BY <1>2, <1>3, <3>1
    <3> QED
      BY <3>1, <3>2 DEF NothingLeaks, LoadObject
  <2> QED
    BY <2>1, <2>2
<1> QED
  BY <1>4 DEF NothingLeaks

\* A failed preparation frees every slot of the images it drops.
LEMMA LeakLoadFails ==
  ASSUME TypeOK, NothingLeaks, NEW o \in Owners, LoadFails(o)
  PROVE  NothingLeaks'
<1> SUFFICES ASSUME NEW s \in Slots
             PROVE /\ status'[s] = "building" => s \in SlotsOf(building'[owner'[s]])
                   /\ status'[s] = "prepared" => s \in SlotsOf(prepared'[owner'[s]])
  BY DEF NothingLeaks
<1>1. owner' = owner /\ owner[s] \in Owners
  BY DEF LoadFails, TypeOK
<1>2. CASE owner[s] # o
  BY <1>1, <1>2 DEF LoadFails, Reclaim, NothingLeaks, TypeOK
<1>3. CASE owner[s] = o
  <2>1. status'[s] # "building"
    BY <1>3 DEF LoadFails, Reclaim
  <2>2. status'[s] = "prepared" => status[s] = "prepared" /\ prepared' = prepared
    BY <1>3 DEF LoadFails, Reclaim
  <2> QED
    BY <1>1, <1>3, <2>1, <2>2 DEF NothingLeaks
<1> QED
  BY <1>2, <1>3

\* Validation moves the slots of a generation and frees those of the one it
\* replaces.
LEMMA LeakPrepare ==
  ASSUME TypeOK, MemoryInv, NothingLeaks, NEW o \in Owners, Prepare(o)
  PROVE  NothingLeaks'
<1> SUFFICES ASSUME NEW s \in Slots
             PROVE /\ status'[s] = "building" => s \in SlotsOf(building'[owner'[s]])
                   /\ status'[s] = "prepared" => s \in SlotsOf(prepared'[owner'[s]])
  BY DEF NothingLeaks
<1>1. owner' = owner /\ owner[s] \in Owners
  BY DEF Prepare, TypeOK
<1>2. prepared'[o] = building[o] /\ \A p \in Owners \ {o} :
         prepared'[p] = prepared[p] /\ building'[p] = building[p]
  BY DEF Prepare, TypeOK
<1>3. CASE s \in SlotsOf(building[o])
  <2>1. owner[s] = o /\ status'[s] = "prepared"
    BY <1>3 DEF MemoryInv, CandidatesAreOwned, Prepare
  <2> QED
    BY <1>1, <1>2, <1>3, <2>1
<1>4. CASE s \notin SlotsOf(building[o])
  <2>1. status'[s] = IF owner[s] = o /\ status[s] = "prepared" THEN "free" ELSE status[s]
    BY <1>4 DEF Prepare, Reclaim
  <2>2. status'[s] \in {"building", "prepared"} => status'[s] = status[s] /\ owner[s] # o
    BY <1>4, <2>1 DEF NothingLeaks
  <2> QED
    BY <1>1, <1>2, <2>2 DEF NothingLeaks
<1> QED
  BY <1>3, <1>4

\* The ends of a transaction free or hand over every slot of the generation.
LEMMA LeakEnds ==
  ASSUME TypeOK, MemoryInv, NothingLeaks,
         prepared' = [prepared EXCEPT ![txOwner] = {}],
         UNCHANGED <<owner, building>>,
         \/ status' = Reclaim(txOwner, {"prepared"})
         \/ status' = HandOver(prepared[txOwner], "session")
  PROVE  NothingLeaks'
<1> SUFFICES ASSUME NEW s \in Slots
             PROVE /\ status'[s] = "building" => s \in SlotsOf(building'[owner'[s]])
                   /\ status'[s] = "prepared" => s \in SlotsOf(prepared'[owner'[s]])
  BY DEF NothingLeaks
<1>1. owner[s] \in Owners /\ \A p \in Owners \ {txOwner} : prepared'[p] = prepared[p]
  BY DEF TypeOK
<1>2. CASE status' = Reclaim(txOwner, {"prepared"})
  <2>1. status'[s] \in {"building", "prepared"} =>
           status'[s] = status[s] /\ (status[s] = "prepared" => owner[s] # txOwner)
    BY <1>2 DEF Reclaim
  <2> QED
    BY <1>1, <2>1 DEF NothingLeaks
<1>3. CASE status' = HandOver(prepared[txOwner], "session")
  <2>1. status'[s] \in {"building", "prepared"} =>
           status'[s] = status[s] /\ s \notin SlotsOf(prepared[txOwner])
    BY <1>3 DEF HandOver
  <2> QED
    BY <1>1, <2>1 DEF NothingLeaks
<1> QED
  BY <1>2, <1>3

\* No step leaves a candidate slot without its image.
LEMMA LeakStep == TypeOK /\ MemoryInv /\ NothingLeaks /\ [Next]_vars => NothingLeaks'
<1> SUFFICES ASSUME TypeOK, MemoryInv, NothingLeaks, [Next]_vars PROVE NothingLeaks'
  OBVIOUS
<1>1. CASE UNCHANGED <<status, owner, building, prepared>>
  BY <1>1 DEF NothingLeaks
<1>2. ASSUME NEW o \in Owners, Begin(o) PROVE NothingLeaks'
  BY <1>1, <1>2 DEF Begin, memory, candidates
<1>3. CASE ReserveCommit \/ SnapshotEntries \/ PatchFails
  BY <1>1, <1>3 DEF ReserveCommit, SnapshotEntries, PatchFails, memory, candidates
<1>4. ASSUME NEW e \in Entries,
             PatchEntry(e) \/ RestoreEntry(e) \/ RestoreFails(e) \/ OtherSessionPatches(e)
      PROVE NothingLeaks'
  BY <1>1, <1>4 DEF PatchEntry, RestoreEntry, RestoreFails, OtherSessionPatches, memory,
     candidates
<1>5. CASE ReserveFails \/ SnapshotFails \/ RolledBack
  BY <1>5, LeakEnds DEF ReserveFails, SnapshotFails, RolledBack, Reject
<1>6. CASE Poison \/ Commit \/ CommitThrowsLate
  BY <1>6, LeakEnds DEF Poison, Commit, CommitThrowsLate, Publish
<1>7. CASE EndSession
  BY <1>7 DEF EndSession, NothingLeaks, TypeOK
<1>8. CASE UNCHANGED vars
  BY <1>1, <1>8 DEF vars, memory, candidates
<1> QED
  BY <1>2, <1>3, <1>4, <1>5, <1>6, <1>7, <1>8, LeakLoad, LeakLoadFails, LeakPrepare DEF Next

\* Preparation neither leaks memory nor hands the same memory out twice,
\* whatever fails in between: the candidate slots of an owner are those of its
\* images.
THEOREM CandidatesAreAccountedForAlways == Spec => []CandidatesAreAccountedFor
<1>1. Init => NothingLeaks
  BY DEF Init, NothingLeaks
<1>2. MemoryInv /\ NothingLeaks => CandidatesAreAccountedFor
  BY DEF MemoryInv, NothingLeaks, CandidatesAreAccountedFor
<1> QED
  BY <1>1, <1>2, LeakStep, MemoryCorrect, TypeCorrect, PTL DEF Spec

-----------------------------------------------------------------------------
(* Homes.  What a generation introduces is compared with the committed     *)
(* state when its commit is reserved; nothing else may commit until it     *)
(* ends, though preparation goes on next to it.                            *)

HomesInv ==
  /\ OneHomePerIdentity
  /\ stage \in {"reserved", "patching"} => IntroducesOnlyNewState(prepared[txOwner])

\* Only the transaction that was checked adds homes.
LEMMA HomesStep == TypeOK /\ HomesInv /\ [Next]_vars => HomesInv'
<1> SUFFICES ASSUME TypeOK, HomesInv, [Next]_vars PROVE HomesInv'
  OBVIOUS
<1> USE DEF HomesInv
<1>1. CASE committed' = committed /\ stage' \notin {"reserved", "patching"}
  BY <1>1 DEF OneHomePerIdentity
<1>2. CASE /\ committed' = committed /\ txOwner' = txOwner
           /\ stage' = stage /\ (stage # "idle" => prepared'[txOwner] = prepared[txOwner])
  BY <1>2 DEF OneHomePerIdentity, IntroducesOnlyNewState, OneDefinition
<1>3. ASSUME NEW o \in Owners,
             (\E m \in Members : LoadObject(o, m)) \/ LoadFails(o) \/ Prepare(o)
      PROVE HomesInv'
  <2>1. UNCHANGED <<committed, tx>>
    BY <1>3 DEF LoadObject, LoadFails, Prepare
  <2> QED
    BY <1>2, <1>3, <2>1, PreparationSparesCommit DEF tx
<1>4. ASSUME NEW o \in Owners, Begin(o) PROVE HomesInv'
  BY <1>1, <1>4 DEF Begin
<1>5. CASE ReserveCommit \/ SnapshotEntries
  <2>1. UNCHANGED <<committed, txOwner, prepared>>
    BY <1>5 DEF ReserveCommit, SnapshotEntries, candidates
  <2>2. IntroducesOnlyNewState(prepared[txOwner])
    BY <1>5 DEF ReserveCommit, SnapshotEntries
  <2> QED
    BY <2>1, <2>2 DEF OneHomePerIdentity, IntroducesOnlyNewState, OneDefinition
<1>6. CASE ReserveFails \/ SnapshotFails \/ RolledBack
  BY <1>1, <1>6 DEF ReserveFails, SnapshotFails, RolledBack, Reject
<1>7. CASE PatchFails \/ Poison \/ EndSession
  BY <1>7 DEF PatchFails, Poison, EndSession, HostMayRun, OneHomePerIdentity, tx
<1>8. ASSUME NEW e \in Entries,
             PatchEntry(e) \/ RestoreEntry(e) \/ RestoreFails(e) \/ OtherSessionPatches(e)
      PROVE HomesInv'
  BY <1>2, <1>8 DEF PatchEntry, RestoreEntry, RestoreFails, OtherSessionPatches, candidates, tx
<1>9. CASE Commit \/ CommitThrowsLate
  <2>1. committed' = committed \cup StateOf(prepared[txOwner]) /\ stage' = "idle"
    BY <1>9 DEF Commit, CommitThrowsLate, Publish
  <2>2. IntroducesOnlyNewState(prepared[txOwner])
    BY <1>9 DEF Commit, CommitThrowsLate, Publish
  <2>3. OneHomePerIdentity'
    <3> SUFFICES ASSUME NEW p \in committed', NEW q \in committed', p[1] = q[1]
                 PROVE p[2] = q[2]
      BY DEF OneHomePerIdentity
    <3>1. CASE p \in committed /\ q \in committed
      BY <3>1 DEF OneHomePerIdentity
    <3>2. CASE p \in StateOf(prepared[txOwner]) /\ q \in StateOf(prepared[txOwner])
      BY <3>2, <2>2 DEF IntroducesOnlyNewState, OneDefinition
    <3> QED
      BY <3>1, <3>2, <2>1, <2>2 DEF IntroducesOnlyNewState
  <2> QED
    BY <2>1, <2>3
<1>10. CASE UNCHANGED vars
  BY <1>2, <1>10 DEF vars, candidates, tx
<1> QED
  BY <1>3, <1>4, <1>5, <1>6, <1>7, <1>8, <1>9, <1>10 DEF Next

\* An introduced global never gets a second home, whichever groups and batches
\* were prepared against the same state.
THEOREM OneHomePerIdentityAlways == Spec => []OneHomePerIdentity
<1>1. Init => HomesInv
  BY DEF Init, HomesInv, OneHomePerIdentity
<1>2. HomesInv => OneHomePerIdentity
  BY DEF HomesInv
<1> QED
  BY <1>1, <1>2, HomesStep, TypeCorrect, PTL DEF Spec
=============================================================================
