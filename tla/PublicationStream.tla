------------------------- MODULE PublicationStream -------------------------
(***************************************************************************)
(* One publication stream on a local filesystem: publisher processes       *)
(* (src/runtime/publisher.cpp) that serialize on the stream lock and may   *)
(* die at any step, the consumers of any number of sessions                *)
(* (src/runtime/generation_stream.cpp, and the worker that loads what they *)
(* consumed), and the build, which rewrites the objects being published.   *)
(*                                                                         *)
(* A digest is the content itself, so a generation id, which hashes the    *)
(* digests of the members in order, is the tuple of their contents.  Files *)
(* are read and removed one at a time; only renames are atomic.            *)
(***************************************************************************)
EXTENDS Naturals, Sequences, FiniteSets

CONSTANTS Publishers,   \* publisher processes
          Consumers,    \* consumers, each with a cursor of its own
          MemberCount,  \* members of the group, in descriptor order
          Contents,     \* what an object file may hold
          MaxSequence,  \* bound on the publication sequence
          None

ASSUME CountsArePositive == MemberCount \in Nat \ {0} /\ MaxSequence \in Nat
ASSUME NoneIsNoContent == None \notin Contents \cup Publishers

Members == 1..MemberCount
Sequences1 == 1..MaxSequence
Ids == [Members -> Contents]

\* A generation directory: the sequence its manifest names, 0 without a
\* manifest, and the objects present.
Directory == [manifest : 0..MaxSequence, objects : [Members -> Contents \cup {None}]]
ASSUME NoneIsNoDirectory == None \notin Directory

Offers == [sequence : Sequences1, id : Ids]

VARIABLES
  source,       \* the build's object files
  generations,  \* <publication_key>/generations/<id>, or None
  offers,       \* <publication_key>/offers/<sequence>-<id>.ready
  lock,         \* the publisher holding .publish.lock, or None
  publisher,    \* what each publisher is doing
  consumer,     \* what each consumer is doing
  cursor,       \* generation_stream::cursor_
  \* What happened, which no step of the program reads:
  settled,      \* offers each consumer observed, with the outcome
  loads,        \* contents loaded for a consumed generation
  rewritten,    \* objects rewritten between the two reads of the publication at work
  mixed,        \* ids released by a publication with a rewritten object
  replaced,     \* offered ids whose directory a publication began to remove
  torn          \* ids whose publisher died while it might remove them

files == <<generations, offers>>
marks == <<rewritten, mixed, replaced, torn>>
vars == <<source, files, lock, publisher, consumer, cursor, settled, loads, marks>>

NoObjects == [m \in Members |-> None]

PublisherSteps == {"idle", "reading", "staging", "removing", "offering"}

Publisher == [step     : PublisherSteps,
              sequence : 0..MaxSequence,
              member   : Members,
              digests  : [Members -> Contents \cup {None}],
              staged   : [Members -> Contents \cup {None}]]

PublisherAt(step, n) == [step |-> step, sequence |-> n, member |-> 1,
                         digests |-> NoObjects, staged |-> NoObjects]
IdlePublisher == PublisherAt("idle", 0)

Consumer == [step     : {"idle", "manifest", "directory", "checking", "loading", "fatal"},
             selected : Offers \cup {None},
             member   : Members,
             loaded   : [Members -> Contents \cup {None}]]

ConsumerAt(step, offer) == [step |-> step, selected |-> offer, member |-> 1,
                            loaded |-> NoObjects]
IdleConsumer == ConsumerAt("idle", None)

-----------------------------------------------------------------------------
(* The build. *)

\* Objects the publication at work has hashed and not copied yet.
HashedOnly ==
  {m \in Members : \E p \in Publishers : /\ publisher[p].step \in {"reading", "staging"}
                                        /\ publisher[p].digests[m] # None
                                        /\ publisher[p].staged[m] = None}

\* An object file is rewritten, or is missing while its compiler runs.
Rebuild(m, content) ==
  /\ content # source[m]
  /\ source' = [source EXCEPT ![m] = content]
  /\ rewritten' = rewritten \cup ({m} \cap HashedOnly)
  /\ UNCHANGED <<files, lock, publisher, consumer, cursor, settled, loads>>
  /\ UNCHANGED <<mixed, replaced, torn>>

-----------------------------------------------------------------------------
(* Publication. *)

\* Mistake: numbering by the count of generations kept.
CountGenerations == {Cardinality({id \in Ids : generations[id] # None}) + 1} \cap Sequences1

\* next_sequence: one past the greatest ready marker, if the bound allows it.
NextSequence ==
  {n \in Sequences1 : /\ \A o \in offers : o.sequence < n
                      /\ n = 1 \/ \E o \in offers : o.sequence + 1 = n}

\* The lock is the whole of a publication; the sequence is taken under it.
TakeLock(p) ==
  /\ publisher[p].step = "idle"
  /\ lock = None
  /\ lock' = p
  /\ \E n \in NextSequence :
       publisher' = [publisher EXCEPT ![p] = PublisherAt("reading", n)]
  /\ UNCHANGED <<source, files, consumer, cursor, settled, loads, marks>>

\* The next member, or the first of the next step.
Advance(p, next) ==
  LET m == publisher[p].member IN
    [member |-> IF m = MemberCount THEN 1 ELSE m + 1,
     step   |-> IF m = MemberCount THEN next ELSE publisher[p].step]

\* The first read of an object is hashed into the manifest and the id.
ReadMember(p) ==
  /\ publisher[p].step = "reading"
  /\ source[publisher[p].member] # None
  /\ publisher' = [publisher EXCEPT
        ![p].digests[publisher[p].member] = source[publisher[p].member],
        ![p].step = Advance(p, "staging").step,
        ![p].member = Advance(p, "staging").member]
  /\ UNCHANGED <<source, files, lock, consumer, cursor, settled, loads, marks>>

\* Mistake: an object that did not change is not copied again.
StageChangedMember(p) ==
  /\ publisher[p].step = "staging"
  /\ source[publisher[p].member] # None
  /\ publisher' = [publisher EXCEPT
        ![p].staged[publisher[p].member] =
           IF \E o \in offers : o.id[publisher[p].member] = source[publisher[p].member]
           THEN None ELSE source[publisher[p].member],
        ![p].step = Advance(p, "removing").step,
        ![p].member = Advance(p, "removing").member]
  /\ UNCHANGED <<source, files, lock, consumer, cursor, settled, loads, marks>>

\* The second read is what the generation will hold; the manifest follows.
StageMember(p) ==
  /\ publisher[p].step = "staging"
  /\ source[publisher[p].member] # None
  /\ publisher' = [publisher EXCEPT
        ![p].staged[publisher[p].member] = source[publisher[p].member],
        ![p].step = Advance(p, "removing").step,
        ![p].member = Advance(p, "removing").member]
  /\ UNCHANGED <<source, files, lock, consumer, cursor, settled, loads, marks>>

\* Does a ready marker name this generation?
Offered(id) == \E o \in offers : o.id = id

\* remove_all of a directory with the same id unlinks one file at a time.
RemoveFile(p) ==
  /\ publisher[p].step = "removing"
  /\ LET id == publisher[p].digests IN
     /\ generations[id] # None
     /\ \/ /\ generations[id].manifest # 0
           /\ generations' = [generations EXCEPT ![id].manifest = 0]
        \/ \E m \in Members :
             /\ generations[id].objects[m] # None
             /\ generations' = [generations EXCEPT ![id].objects[m] = None]
        \/ /\ generations[id] = [manifest |-> 0, objects |-> NoObjects]
           /\ generations' = [generations EXCEPT ![id] = None]
     /\ replaced' = replaced \cup (IF Offered(id) THEN {id} ELSE {})
  /\ UNCHANGED <<source, offers, lock, publisher, consumer, cursor, settled, loads>>
  /\ UNCHANGED <<rewritten, mixed, torn>>

\* A release whose objects were rewritten since they were hashed is mixed;
\* whatever it is, its directory is whole again.
MarkRelease(p) ==
  /\ mixed' = mixed \cup (IF rewritten = {} THEN {} ELSE {publisher[p].digests})
  /\ torn' = torn \ {publisher[p].digests}
  /\ rewritten' = {}
  /\ UNCHANGED replaced

\* Mistake: releasing a generation prunes the ones before it.
ReleasePruning(p) ==
  /\ publisher[p].step = "removing"
  /\ generations[publisher[p].digests] = None
  /\ generations' = [id \in Ids |->
        IF id = publisher[p].digests
        THEN [manifest |-> publisher[p].sequence, objects |-> publisher[p].staged] ELSE None]
  /\ publisher' = [publisher EXCEPT ![p].step = "offering"]
  /\ MarkRelease(p)
  /\ UNCHANGED <<source, offers, lock, consumer, cursor, settled, loads>>

\* The complete staging directory is renamed to its id.
ReleaseGeneration(p) ==
  /\ publisher[p].step = "removing"
  /\ generations[publisher[p].digests] = None
  /\ generations' = [generations EXCEPT ![publisher[p].digests] =
        [manifest |-> publisher[p].sequence, objects |-> publisher[p].staged]]
  /\ publisher' = [publisher EXCEPT ![p].step = "offering"]
  /\ MarkRelease(p)
  /\ UNCHANGED <<source, offers, lock, consumer, cursor, settled, loads>>

Unlocked(p) == IF lock = p THEN None ELSE lock

\* The ready marker is renamed into place last, and the lock released.
ReleaseOffer(p) ==
  /\ publisher[p].step = "offering"
  /\ offers' = offers \cup {[sequence |-> publisher[p].sequence, id |-> publisher[p].digests]}
  /\ publisher' = [publisher EXCEPT ![p] = IdlePublisher]
  /\ lock' = Unlocked(p)
  /\ UNCHANGED <<source, generations, consumer, cursor, settled, loads, marks>>

\* A missing object, a full disk, a kill: the publisher gives up where it is,
\* and the operating system releases its lock.
GivesUp(p) ==
  /\ publisher[p].step # "idle"
  /\ publisher' = [publisher EXCEPT ![p] = IdlePublisher]
  /\ lock' = Unlocked(p)
  /\ rewritten' = {}
  /\ torn' = torn \cup (IF publisher[p].step = "removing" THEN {publisher[p].digests} ELSE {})
  /\ UNCHANGED <<source, files, consumer, cursor, settled, loads, mixed, replaced>>

-----------------------------------------------------------------------------
(* Consumption: poll(), and the preparation that follows it. *)

Newer(c) == {o \in offers : o.sequence > cursor[c]}

\* poll() lists the offers and settles on the newest.
Scan(c) ==
  /\ consumer[c].step = "idle"
  /\ \E o \in Newer(c) :
       /\ \A q \in Newer(c) : q.sequence <= o.sequence
       /\ consumer' = [consumer EXCEPT ![c] = ConsumerAt("manifest", o)]
  /\ UNCHANGED <<source, files, lock, publisher, cursor, settled, loads, marks>>

Opened(c) == generations[consumer[c].selected.id]

\* The object the consumer is at, None when it or its directory is gone.
OpenedObject(c) ==
  IF Opened(c) = None THEN None ELSE Opened(c).objects[consumer[c].member]

Settles(c, status) ==
  settled' = [settled EXCEPT
                ![c] = Append(@, [sequence |-> consumer[c].selected.sequence, status |-> status])]

\* Mistake: a rejected offer stays ahead of the cursor.
RejectsWithoutPassing(c) ==
  /\ consumer' = [consumer EXCEPT ![c] = IdleConsumer]
  /\ Settles(c, "rejected")
  /\ UNCHANGED cursor

\* Mistake: an offer that cannot be read is passed without an observation.
RejectsQuietly(c) ==
  /\ cursor' = [cursor EXCEPT ![c] = consumer[c].selected.sequence]
  /\ consumer' = [consumer EXCEPT ![c] = IdleConsumer]
  /\ UNCHANGED settled

Rejects(c) ==
  /\ cursor' = [cursor EXCEPT ![c] = consumer[c].selected.sequence]
  /\ consumer' = [consumer EXCEPT ![c] = IdleConsumer]
  /\ Settles(c, "rejected")

\* The manifest must be there and name the sequence of its marker.
ReadManifest(c) ==
  /\ consumer[c].step = "manifest"
  /\ IF Opened(c) # None /\ Opened(c).manifest = consumer[c].selected.sequence
     THEN /\ consumer' = [consumer EXCEPT ![c].step = "directory"]
          /\ UNCHANGED <<cursor, settled>>
     ELSE Rejects(c)
  /\ UNCHANGED <<source, files, lock, publisher, loads, marks>>

\* canonical() of the directory throws when the directory is gone, and poll()
\* has no handler for it: the worker dies, and its session with it.
ResolveDirectory(c) ==
  /\ consumer[c].step = "directory"
  /\ consumer' = [consumer EXCEPT ![c].step = IF Opened(c) = None THEN "fatal" ELSE "checking"]
  /\ UNCHANGED <<source, files, lock, publisher, cursor, settled, loads, marks>>

MatchesDigest(c) == OpenedObject(c) = consumer[c].selected.id[consumer[c].member]

LastMember(c) == consumer[c].member = MemberCount

\* One object after the other is read and compared with the manifest; the
\* last one completes the observation.
CheckObject(c) ==
  /\ consumer[c].step = "checking"
  /\ IF ~MatchesDigest(c) THEN Rejects(c)
     ELSE IF LastMember(c)
     THEN /\ cursor' = [cursor EXCEPT ![c] = consumer[c].selected.sequence]
          /\ consumer' = [consumer EXCEPT ![c].step = "loading", ![c].member = 1]
          /\ UNCHANGED settled
     ELSE /\ consumer' = [consumer EXCEPT ![c].member = @ + 1]
          /\ UNCHANGED <<cursor, settled>>
  /\ UNCHANGED <<source, files, lock, publisher, loads, marks>>

\* Mistake: the worker loads the build's own objects, not the published copies.
LoadsBuildOutput(c) ==
  /\ consumer[c].step = "loading"
  /\ source[consumer[c].member] # None
  /\ LET loaded == [consumer[c].loaded EXCEPT ![consumer[c].member] = source[consumer[c].member]] IN
     IF LastMember(c)
     THEN /\ loads' = loads \cup {[id |-> consumer[c].selected.id, contents |-> loaded]}
          /\ consumer' = [consumer EXCEPT ![c] = IdleConsumer]
          /\ Settles(c, "consumed")
     ELSE /\ consumer' = [consumer EXCEPT ![c].loaded = loaded, ![c].member = @ + 1]
          /\ UNCHANGED <<settled, loads>>
  /\ UNCHANGED <<source, files, lock, publisher, cursor, marks>>

\* The worker reads every object again to load it.
LoadObject(c) ==
  /\ consumer[c].step = "loading"
  /\ OpenedObject(c) # None
  /\ LET loaded == [consumer[c].loaded EXCEPT
                      ![consumer[c].member] = OpenedObject(c)] IN
     IF LastMember(c)
     THEN /\ loads' = loads \cup {[id |-> consumer[c].selected.id, contents |-> loaded]}
          /\ consumer' = [consumer EXCEPT ![c] = IdleConsumer]
          /\ Settles(c, "consumed")
     ELSE /\ consumer' = [consumer EXCEPT ![c].loaded = loaded, ![c].member = @ + 1]
          /\ UNCHANGED <<settled, loads>>
  /\ UNCHANGED <<source, files, lock, publisher, cursor, marks>>

\* An object that is gone by then rejects the generation after all.
LoadFails(c) ==
  /\ consumer[c].step = "loading"
  /\ OpenedObject(c) = None
  /\ Rejects(c)
  /\ UNCHANGED <<source, files, lock, publisher, loads, marks>>

-----------------------------------------------------------------------------
Init ==
  /\ source \in Ids
  /\ generations = [id \in Ids |-> None]
  /\ offers = {}
  /\ lock = None
  /\ publisher = [p \in Publishers |-> IdlePublisher]
  /\ consumer = [c \in Consumers |-> IdleConsumer]
  /\ cursor = [c \in Consumers |-> 0]
  /\ settled = [c \in Consumers |-> <<>>]
  /\ loads = {}
  /\ rewritten = {} /\ mixed = {} /\ replaced = {} /\ torn = {}

Publishes(p) ==
  \/ TakeLock(p) \/ ReadMember(p) \/ StageMember(p) \/ RemoveFile(p)
  \/ ReleaseGeneration(p) \/ ReleaseOffer(p) \/ GivesUp(p)

Consumes(c) ==
  \/ Scan(c) \/ ReadManifest(c) \/ ResolveDirectory(c) \/ CheckObject(c)
  \/ LoadObject(c) \/ LoadFails(c)

Next ==
  \/ \E m \in Members, content \in Contents \cup {None} : Rebuild(m, content)
  \/ \E p \in Publishers : Publishes(p)
  \/ \E c \in Consumers : Consumes(c)

Spec == Init /\ [][Next]_vars

\* A worker polls every 100 ms.  Nobody is obliged to publish.
FairSpec == Spec /\ \A c \in Consumers : WF_vars(Consumes(c))

-----------------------------------------------------------------------------
(* Properties. *)

TypeOK ==
  /\ source \in [Members -> Contents \cup {None}]
  /\ generations \in [Ids -> Directory \cup {None}]
  /\ offers \in SUBSET Offers
  /\ lock \in Publishers \cup {None}
  /\ publisher \in [Publishers -> Publisher]
  /\ consumer \in [Consumers -> Consumer]
  /\ cursor \in [Consumers -> 0..MaxSequence]
  /\ settled \in [Consumers -> Seq([sequence : Sequences1, status : {"consumed", "rejected"}])]
  /\ loads \in SUBSET [id : Ids, contents : Ids]
  /\ rewritten \in SUBSET Members
  /\ mixed \in SUBSET Ids /\ replaced \in SUBSET Ids /\ torn \in SUBSET Ids

\* Racing publishers and dead ones never hand out a sequence twice, or out of
\* order (docs/managed-reload-design.md:454-457).
SequencesIncrease ==
  [][\A o \in offers' \ offers : \A q \in offers : q.sequence < o.sequence]_vars

\* A consumer settles every offer at most once, in sequence order, and passes
\* it for good, whatever it found (src/runtime/generation_stream.hpp:46-49).
SettledOnce ==
  \A c \in Consumers : \A i, j \in DOMAIN settled[c] :
    i < j => settled[c][i].sequence < settled[c][j].sequence

\* All of a generation is in its directory.
Whole(id) == /\ generations[id] # None
             /\ generations[id].manifest # 0
             /\ \A m \in Members : generations[id].objects[m] # None

\* "A crash leaves staging data and maybe an unreferenced generation, never an
\* incomplete offer" (src/runtime/publisher.cpp:120-121): whenever no publisher
\* is at work, a ready offer leads to its manifest and all of its objects.
OffersAreComplete == lock = None => \A o \in offers : Whole(o.id)

\* "Published contents MUST NOT be modified"
\* (docs/managed-reload-design.md:468).
PublishedIsImmutable ==
  [][\A o \in offers : generations'[o.id] = generations[o.id]]_vars

\* "Artifact problems are rejections (values), not exceptions; only
\* programming errors throw" (src/runtime/generation_stream.hpp:60-61).
PollNeverThrows == \A c \in Consumers : consumer[c].step # "fatal"

\* An offer leads to a whole generation with its own sequence, from the moment
\* its marker is there (src/runtime/publisher.cpp:118-121), until a publication
\* of the same content begins to replace it.
OffersLeadHome ==
  \A o \in offers : o.id \in replaced \/
    (Whole(o.id) /\ generations[o.id].manifest = o.sequence)

\* "validates membership and digests" before the release
\* (docs/managed-reload-design.md:464): a directory never holds anything but
\* what its id hashes, replaced or not, unless an object was rewritten between
\* the two reads of a publication.
DirectoriesMatchDigests ==
  \A id \in Ids : id \in mixed \/ generations[id] = None \/
    \A m \in Members : generations[id].objects[m] \in {id[m], None}

\* What is offered can be had, and is what was hashed.
OffersAreSound == OffersLeadHome /\ DirectoriesMatchDigests

\* "Identical content yields the same ID: republishing replaces the old
\* directory" (src/runtime/publisher.cpp:143-144): nothing but that empties a
\* directory on offer, and it leaves a whole one of the same or a later
\* sequence behind, unless the publisher dies on the way.
DirectoriesAreRestored ==
  \A o \in offers :
    \/ \E p \in Publishers : publisher[p].step = "removing" /\ publisher[p].digests = o.id
    \/ o.id \in torn
    \/ Whole(o.id) /\ generations[o.id].manifest >= o.sequence

\* What the worker loads is what the poll verified, although it reads every
\* file a second time ("Digest-verified object files in descriptor member
\* order, when consumed", src/runtime/generation_stream.hpp:29), and although
\* the directory may be replaced in between: only a mixed release betrays it.
LoadsAreVerified == \A load \in loads : load.id \in mixed \/ load.contents = load.id

\* poll() throws over nothing but a replaced directory.
ThrowsOnReplacement ==
  \A c \in Consumers : consumer[c].step = "fatal" => consumer[c].selected.id \in replaced

\* Nobody rejects an offer because it looked too early, nor because publishers
\* raced or died (docs/managed-reload-design.md:452-457,
\* src/runtime/publisher.cpp:118-121), but because its directory was replaced
\* or its release was mixed.
RejectionsHaveACause ==
  \A c \in Consumers : \A i \in DOMAIN settled[c] :
    settled[c][i].status = "rejected" =>
      \E o \in offers : o.sequence = settled[c][i].sequence /\ o.id \in replaced \cup mixed

\* The three together: what a worker takes up is loaded, and loaded as it was
\* published, unless a rewritten object or a replacement is to blame.
OffersAreConsumed == LoadsAreVerified /\ ThrowsOnReplacement /\ RejectionsHaveACause

\* Whatever publishers and builds do, every offer is settled by every consumer
\* that keeps polling, or a newer one is, unless poll() threw
\* (docs/managed-reload-design.md:513-517).
OffersAreSettled ==
  \A c \in Consumers, n \in Sequences1 :
    (\E o \in offers : o.sequence = n)
      ~> \/ consumer[c].step = "fatal"
         \/ \E i \in DOMAIN settled[c] : settled[c][i].sequence >= n
=============================================================================
