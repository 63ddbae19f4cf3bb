---------------------- MODULE PublicationStreamProofs ----------------------
(***************************************************************************)
(* Proofs about the publication stream, for any publishers, consumers,     *)
(* contents, number of members and bound on sequences.                     *)
(***************************************************************************)
EXTENDS PublicationStream, TLAPS

-----------------------------------------------------------------------------
(* Type correctness. *)

\* What a publisher has read and copied, member by member: a manifest is
\* complete before anything is copied, and every copy before the release.
Progress(p) ==
  LET w == publisher[p] IN
  /\ w.step # "idle" => w.sequence \in Sequences1
  /\ w.step = "reading" => \A m \in 1..(w.member - 1) : w.digests[m] # None
  /\ w.step \in {"staging", "removing", "offering"} => w.digests \in Ids
  /\ w.step = "staging" => \A m \in 1..(w.member - 1) : w.staged[m] # None
  /\ w.step \in {"removing", "offering"} => w.staged \in Ids

\* What a consumer has loaded of the offer it selected.
Consumed(c) ==
  LET w == consumer[c] IN
  /\ w.step # "idle" => w.selected \in Offers
  /\ w.step = "loading" => \A m \in 1..(w.member - 1) : w.loaded[m] # None

TypeInv ==
  /\ TypeOK
  /\ \A p \in Publishers : Progress(p)
  /\ \A c \in Consumers : Consumed(c)

\* What happened is about members and ids.
MarksOK == /\ rewritten \in SUBSET Members
           /\ mixed \in SUBSET Ids /\ replaced \in SUBSET Ids /\ torn \in SUBSET Ids

\* A tuple without a gap is the content of a whole generation.
LEMMA WholeIsId ==
  ASSUME NEW f \in [Members -> Contents \cup {None}], \A m \in Members : f[m] # None
  PROVE  f \in Ids
BY DEF Ids

\* The constants' consequences that every step needs.
LEMMA FirstMember == 1 \in Members /\ MemberCount \in Members
BY CountsArePositive DEF Members

\* A publisher or a consumer at rest has its type.
LEMMA RestType == IdlePublisher \in Publisher /\ IdleConsumer \in Consumer
BY FirstMember, CountsArePositive
   DEF IdlePublisher, IdleConsumer, PublisherAt, ConsumerAt, Publisher, Consumer,
        PublisherSteps, NoObjects

\* The initial values have their types.
LEMMA TypeInit == Init => TypeInv
<1> SUFFICES ASSUME Init PROVE TypeInv
  OBVIOUS
<1>1. TypeOK
  <2>1. publisher \in [Publishers -> Publisher] /\ consumer \in [Consumers -> Consumer]
    BY RestType DEF Init
  <2>2. source \in [Members -> Contents \cup {None}] /\ generations \in [Ids -> Directory \cup {None}]
    BY DEF Init, Ids
  <2>3. cursor \in [Consumers -> 0..MaxSequence]
    BY CountsArePositive DEF Init
  <2>4. settled \in [Consumers -> Seq([sequence : Sequences1, status : {"consumed", "rejected"}])]
    BY DEF Init
  <2> QED
    BY <2>1, <2>2, <2>3, <2>4 DEF Init, TypeOK
<1>2. \A p \in Publishers : Progress(p)
  BY DEF Init, Progress, IdlePublisher, PublisherAt
<1>3. \A c \in Consumers : Consumed(c)
  BY DEF Init, Consumed, IdleConsumer, ConsumerAt
<1> QED
  BY <1>1, <1>2, <1>3 DEF TypeInv

\* A publisher that changes alone leaves the others their progress.
LEMMA PublisherChanges ==
  ASSUME TypeInv, NEW p \in Publishers, NEW w \in Publisher,
         publisher' = [publisher EXCEPT ![p] = w],
         UNCHANGED <<consumer, cursor, settled, loads>>, MarksOK',
         source' = source, generations' \in [Ids -> Directory \cup {None}],
         offers' \in SUBSET Offers, lock' \in Publishers \cup {None},
         w.step # "idle" => w.sequence \in Sequences1,
         w.step = "reading" => \A m \in 1..(w.member - 1) : w.digests[m] # None,
         w.step \in {"staging", "removing", "offering"} => w.digests \in Ids,
         w.step = "staging" => \A m \in 1..(w.member - 1) : w.staged[m] # None,
         w.step \in {"removing", "offering"} => w.staged \in Ids
  PROVE  TypeInv'
<1>1. publisher' \in [Publishers -> Publisher]
  BY DEF TypeInv, TypeOK
<1>2. TypeOK'
  BY <1>1 DEF TypeInv, TypeOK, MarksOK
<1>3. ASSUME NEW q \in Publishers PROVE Progress(q)'
  <2>1. CASE q = p
    <3>1. publisher'[q] = w
      BY <2>1 DEF TypeInv, TypeOK
    <3> QED
      BY <3>1 DEF Progress
  <2>2. CASE q # p
    <3>1. publisher'[q] = publisher[q]
      BY <2>2 DEF TypeInv, TypeOK
    <3> QED
      BY <3>1 DEF Progress, TypeInv
  <2> QED
    BY <2>1, <2>2
<1>4. \A c \in Consumers : Consumed(c)'
  BY DEF TypeInv, Consumed
<1> QED
  BY <1>2, <1>3, <1>4 DEF TypeInv

\* A consumer that changes alone leaves the others what they consumed.
LEMMA ConsumerChanges ==
  ASSUME TypeInv, NEW c \in Consumers, NEW w \in Consumer,
         consumer' = [consumer EXCEPT ![c] = w],
         UNCHANGED <<source, files, lock, publisher, marks>>,
         cursor' \in [Consumers -> 0..MaxSequence],
         settled' \in [Consumers -> Seq([sequence : Sequences1, status : {"consumed", "rejected"}])],
         loads' \in SUBSET [id : Ids, contents : Ids],
         w.step # "idle" => w.selected \in Offers,
         w.step = "loading" => \A m \in 1..(w.member - 1) : w.loaded[m] # None
  PROVE  TypeInv'
<1>1. consumer' \in [Consumers -> Consumer]
  BY DEF TypeInv, TypeOK
<1>2. TypeOK'
  BY <1>1 DEF TypeInv, TypeOK, files, marks
<1>3. ASSUME NEW d \in Consumers PROVE Consumed(d)'
  <2>1. CASE d = c
    <3>1. consumer'[d] = w
      BY <2>1 DEF TypeInv, TypeOK
    <3> QED
      BY <3>1 DEF Consumed
  <2>2. CASE d # c
    <3>1. consumer'[d] = consumer[d]
      BY <2>2 DEF TypeInv, TypeOK
    <3> QED
      BY <3>1 DEF Consumed, TypeInv
  <2> QED
    BY <2>1, <2>2
<1>4. \A p \in Publishers : Progress(p)'
  BY DEF TypeInv, Progress
<1> QED
  BY <1>2, <1>3, <1>4 DEF TypeInv

\* The steps of a publisher keep the types.
LEMMA TypePublishes ==
  ASSUME TypeInv, NEW p \in Publishers, Publishes(p)
  PROVE  TypeInv'
<1> DEFINE w == publisher[p]
           m == publisher[p].member
<1>0. /\ w \in Publisher /\ Progress(p) /\ m \in Members
      /\ publisher' = [publisher EXCEPT ![p] = publisher'[p]]
      /\ m # MemberCount => m + 1 \in Members
      /\ MarksOK'
  <2>1. w \in Publisher /\ Progress(p)
    BY DEF TypeInv, TypeOK
  <2>2. m \in Members
    BY <2>1 DEF Publisher
  <2>3. publisher' = [publisher EXCEPT ![p] = publisher'[p]]
    BY DEF Publishes, TakeLock, ReadMember, StageMember, RemoveFile, ReleaseGeneration,
           ReleaseOffer, GivesUp, TypeInv, TypeOK
  <2>4. MarksOK'
    <3>1. MarksOK /\ (w.step = "removing" => w.digests \in Ids)
      BY <2>1 DEF MarksOK, TypeInv, TypeOK, Progress
    <3>2. CASE UNCHANGED marks
      BY <3>1, <3>2 DEF MarksOK, marks
    <3>3. CASE RemoveFile(p)
      BY <3>1, <3>3 DEF MarksOK, RemoveFile
    <3>4. CASE ReleaseGeneration(p)
      BY <3>1, <3>4 DEF MarksOK, ReleaseGeneration, MarkRelease
    <3>5. CASE GivesUp(p)
      BY <3>1, <3>5 DEF MarksOK, GivesUp
    <3> QED
      BY <3>2, <3>3, <3>4, <3>5 DEF Publishes, TakeLock, ReadMember, StageMember, ReleaseOffer, marks
  <2> QED
    BY <2>1, <2>2, <2>3, <2>4, CountsArePositive DEF Members
<1>1. CASE TakeLock(p)
  <2>1. PICK n \in NextSequence :
          publisher' = [publisher EXCEPT ![p] = PublisherAt("reading", n)]
    BY <1>1 DEF TakeLock
  <2> DEFINE v == PublisherAt("reading", n)
  <2>2. /\ v \in Publisher /\ v.step = "reading" /\ v.member = 1
        /\ v.sequence = n /\ n \in Sequences1
    BY FirstMember, CountsArePositive
       DEF PublisherAt, NextSequence, Publisher, PublisherSteps, Sequences1, NoObjects
  <2>3. generations' \in [Ids -> Directory \cup {None}] /\ offers' \in SUBSET Offers
    BY <1>1 DEF TakeLock, files, TypeInv, TypeOK
  <2>4. lock' \in Publishers \cup {None} /\ source' = source
        /\ UNCHANGED <<consumer, cursor, settled, loads>>
    BY <1>1 DEF TakeLock
  <2>5. \A k \in 1..(v.member - 1) : v.digests[k] # None
    BY <2>2
  <2>6. MarksOK'
    BY <1>0
  <2> QED
    BY <2>1, <2>2, <2>3, <2>4, <2>5, <2>6, PublisherChanges
<1>2. CASE ReadMember(p)
  <2> DEFINE v == [w EXCEPT !.digests = [@ EXCEPT ![m] = source[m]],
                            !.step = Advance(p, "staging").step,
                            !.member = Advance(p, "staging").member]
  <2>1. publisher' = [publisher EXCEPT ![p] = v]
    BY <1>2 DEF ReadMember
  <2>2. /\ v.step = IF m = MemberCount THEN "staging" ELSE "reading"
        /\ v.member = IF m = MemberCount THEN 1 ELSE m + 1
        /\ v.digests = [w.digests EXCEPT ![m] = source[m]]
        /\ v.sequence = w.sequence /\ v.staged = w.staged
    BY <1>0, <1>2 DEF ReadMember, Advance, Publisher
  <2>3. source[m] \in Contents \cup {None} /\ source[m] # None
    BY <1>0, <1>2 DEF ReadMember, TypeInv, TypeOK
  <2>4. v.digests \in [Members -> Contents \cup {None}] /\ v.member \in Members
    BY <1>0, <2>2, <2>3, FirstMember DEF Publisher
  <2>5. v \in Publisher
    BY <1>0, <2>2, <2>4 DEF Publisher, PublisherSteps
  <2>6. \A k \in 1..m : v.digests[k] # None
    <3> SUFFICES ASSUME NEW k \in 1..m PROVE v.digests[k] # None
      OBVIOUS
    <3>1. k \in Members /\ w.digests \in [Members -> Contents \cup {None}]
      BY <1>0, CountsArePositive DEF Members, Publisher
    <3>2. CASE k = m
      BY <2>2, <2>3, <3>1, <3>2
    <3>3. CASE k # m
      <4>1. k \in 1..(m - 1) /\ w.digests[k] # None
        BY <1>0, <1>2, <3>3 DEF ReadMember, Progress, Members
      <4> QED
        BY <2>2, <3>1, <3>3, <4>1
    <3> QED
      BY <3>2, <3>3
  <2>7. v.step = "reading" => \A k \in 1..(v.member - 1) : v.digests[k] # None
    BY <1>0, <2>2, <2>6 DEF Members
  <2>8. v.step = "staging" => v.digests \in Ids
    BY <2>2, <2>4, <2>6, WholeIsId DEF Members
  <2>9. v.step = "staging" => \A k \in 1..(v.member - 1) : v.staged[k] # None
    BY <2>2
  <2>10. v.sequence \in Sequences1
    BY <1>0, <1>2, <2>2 DEF ReadMember, Progress
  <2>11. generations' \in [Ids -> Directory \cup {None}] /\ offers' \in SUBSET Offers
         /\ lock' \in Publishers \cup {None} /\ source' = source
         /\ UNCHANGED <<consumer, cursor, settled, loads>>
    BY <1>2 DEF ReadMember, files, TypeInv, TypeOK
  <2>12. v.step \in {"reading", "staging"}
    BY <2>2
  <2> QED
    BY <2>1, <2>5, <2>7, <2>8, <2>9, <2>10, <2>11, <2>12, <1>0, PublisherChanges
<1>3. CASE StageMember(p)
  <2> DEFINE v == [w EXCEPT !.staged = [@ EXCEPT ![m] = source[m]],
                            !.step = Advance(p, "removing").step,
                            !.member = Advance(p, "removing").member]
  <2>1. publisher' = [publisher EXCEPT ![p] = v]
    BY <1>3 DEF StageMember
  <2>2. /\ v.step = IF m = MemberCount THEN "removing" ELSE "staging"
        /\ v.member = IF m = MemberCount THEN 1 ELSE m + 1
        /\ v.staged = [w.staged EXCEPT ![m] = source[m]]
        /\ v.sequence = w.sequence /\ v.digests = w.digests
    BY <1>0, <1>3 DEF StageMember, Advance, Publisher
  <2>3. source[m] \in Contents \cup {None} /\ source[m] # None
    BY <1>0, <1>3 DEF StageMember, TypeInv, TypeOK
  <2>4. v.staged \in [Members -> Contents \cup {None}] /\ v.member \in Members
    BY <1>0, <2>2, <2>3, FirstMember DEF Publisher
  <2>5. v \in Publisher
    BY <1>0, <2>2, <2>4 DEF Publisher, PublisherSteps
  <2>6. \A k \in 1..m : v.staged[k] # None
    <3> SUFFICES ASSUME NEW k \in 1..m PROVE v.staged[k] # None
      OBVIOUS
    <3>1. k \in Members /\ w.staged \in [Members -> Contents \cup {None}]
      BY <1>0, CountsArePositive DEF Members, Publisher
    <3>2. CASE k = m
      BY <2>2, <2>3, <3>1, <3>2
    <3>3. CASE k # m
      <4>1. k \in 1..(m - 1) /\ w.staged[k] # None
        BY <1>0, <1>3, <3>3 DEF StageMember, Progress, Members
      <4> QED
        BY <2>2, <3>1, <3>3, <4>1
    <3> QED
      BY <3>2, <3>3
  <2>7. v.step = "staging" => \A k \in 1..(v.member - 1) : v.staged[k] # None
    BY <1>0, <2>2, <2>6 DEF Members
  <2>8. v.step = "removing" => v.staged \in Ids
    BY <2>2, <2>4, <2>6, WholeIsId DEF Members
  <2>9. v.sequence \in Sequences1 /\ v.digests \in Ids
    BY <1>0, <1>3, <2>2 DEF StageMember, Progress
  <2>10. generations' \in [Ids -> Directory \cup {None}] /\ offers' \in SUBSET Offers
         /\ lock' \in Publishers \cup {None} /\ source' = source
         /\ UNCHANGED <<consumer, cursor, settled, loads>>
    BY <1>3 DEF StageMember, files, TypeInv, TypeOK
  <2>11. v.step \in {"staging", "removing"}
    BY <2>2
  <2> QED
    BY <2>1, <2>5, <2>7, <2>8, <2>9, <2>10, <2>11, <1>0, PublisherChanges
<1>4. CASE RemoveFile(p)
  <2> DEFINE id == w.digests
  <2>1. id \in Ids /\ generations[id] \in Directory
    BY <1>0, <1>4 DEF RemoveFile, Progress, TypeInv, TypeOK
  <2>2. generations' \in [Ids -> Directory \cup {None}]
    <3>1. CASE generations' = [generations EXCEPT ![id] = None]
      BY <2>1, <3>1 DEF TypeInv, TypeOK
    <3>2. CASE generations' = [generations EXCEPT ![id].manifest = 0]
      <4>1. [generations[id] EXCEPT !.manifest = 0] \in Directory
        BY <2>1, CountsArePositive DEF Directory
      <4> QED
        BY <2>1, <3>2, <4>1 DEF TypeInv, TypeOK
    <3>3. ASSUME NEW k \in Members, generations' = [generations EXCEPT ![id].objects[k] = None]
          PROVE  generations' \in [Ids -> Directory \cup {None}]
      <4>1. [generations[id] EXCEPT !.objects[k] = None] \in Directory
        BY <2>1, <3>3 DEF Directory
      <4> QED
        BY <2>1, <3>3, <4>1 DEF TypeInv, TypeOK
    <3> QED
      BY <1>4, <3>1, <3>2, <3>3 DEF RemoveFile
  <2>3. TypeOK'
    BY <1>0, <1>4, <2>2 DEF RemoveFile, TypeInv, TypeOK, MarksOK
  <2> QED
    BY <1>4, <2>3 DEF RemoveFile, TypeInv, Progress, Consumed
<1>5. CASE ReleaseGeneration(p)
  <2> DEFINE v == [w EXCEPT !.step = "offering"]
  <2>1. publisher' = [publisher EXCEPT ![p] = v]
    BY <1>5 DEF ReleaseGeneration
  <2>2. w.sequence \in Sequences1 /\ w.digests \in Ids /\ w.staged \in Ids
    BY <1>0, <1>5 DEF ReleaseGeneration, Progress
  <2>3. /\ v \in Publisher /\ v.step = "offering" /\ v.sequence \in Sequences1
        /\ v.digests \in Ids /\ v.staged \in Ids
    BY <1>0, <2>2 DEF Publisher, PublisherSteps
  <2>4. [manifest |-> w.sequence, objects |-> w.staged] \in Directory
    BY <2>2, CountsArePositive DEF Directory, Ids, Sequences1
  <2>5. generations' \in [Ids -> Directory \cup {None}]
    BY <1>5, <2>2, <2>4 DEF ReleaseGeneration, TypeInv, TypeOK
  <2>6. offers' \in SUBSET Offers /\ lock' \in Publishers \cup {None} /\ source' = source
        /\ UNCHANGED <<consumer, cursor, settled, loads>>
    BY <1>5 DEF ReleaseGeneration, TypeInv, TypeOK
  <2> QED
    BY <2>1, <2>3, <2>5, <2>6, <1>0, PublisherChanges
<1>6. CASE ReleaseOffer(p)
  <2>1. publisher' = [publisher EXCEPT ![p] = IdlePublisher] /\ IdlePublisher.step = "idle"
    BY <1>6 DEF ReleaseOffer, IdlePublisher, PublisherAt
  <2>2. [sequence |-> w.sequence, id |-> w.digests] \in Offers
    BY <1>0, <1>6 DEF ReleaseOffer, Progress, Offers
  <2>3. offers' \in SUBSET Offers /\ lock' \in Publishers \cup {None} /\ source' = source
        /\ generations' \in [Ids -> Directory \cup {None}]
        /\ UNCHANGED <<consumer, cursor, settled, loads>>
    BY <1>6, <2>2 DEF ReleaseOffer, Unlocked, TypeInv, TypeOK
  <2> QED
    BY <2>1, <2>3, RestType, <1>0, PublisherChanges
<1>7. CASE GivesUp(p)
  <2>1. publisher' = [publisher EXCEPT ![p] = IdlePublisher] /\ IdlePublisher.step = "idle"
    BY <1>7 DEF GivesUp, IdlePublisher, PublisherAt
  <2>2. offers' \in SUBSET Offers /\ lock' \in Publishers \cup {None} /\ source' = source
        /\ generations' \in [Ids -> Directory \cup {None}]
        /\ UNCHANGED <<consumer, cursor, settled, loads>>
    BY <1>7 DEF GivesUp, Unlocked, files, TypeInv, TypeOK
  <2> QED
    BY <2>1, <2>2, RestType, <1>0, PublisherChanges
<1> QED
  BY <1>1, <1>2, <1>3, <1>4, <1>5, <1>6, <1>7 DEF Publishes

\* Settling an offer appends to the consumer's history, and to no other.
LEMMA SettledType ==
  ASSUME TypeInv, NEW c \in Consumers, NEW status \in {"consumed", "rejected"},
         consumer[c].selected \in Offers, Settles(c, status)
  PROVE  settled' \in [Consumers -> Seq([sequence : Sequences1, status : {"consumed", "rejected"}])]
<1> DEFINE Entry == [sequence : Sequences1, status : {"consumed", "rejected"}]
           e == [sequence |-> consumer[c].selected.sequence, status |-> status]
<1>1. settled \in [Consumers -> Seq(Entry)]
  BY DEF TypeInv, TypeOK
<1>2. e \in Entry
  BY DEF Offers
<1>3. Append(settled[c], e) \in Seq(Entry)
  <2>1. settled[c] \in Seq(Entry)
    BY <1>1
  <2> HIDE DEF Entry, e
  <2> QED
    BY <1>2, <2>1
<1>4. settled' = [settled EXCEPT ![c] = Append(settled[c], e)]
  BY DEF Settles
<1> QED
  BY <1>1, <1>3, <1>4

\* An offer that a consumer rejects leaves everything typed.
LEMMA TypeRejects ==
  ASSUME TypeInv, NEW c \in Consumers, consumer[c].step # "idle", Rejects(c),
         UNCHANGED <<source, files, lock, publisher, loads, marks>>
  PROVE  TypeInv'
<1>1. consumer[c].selected \in Offers
  BY DEF TypeInv, Consumed
<1>2. cursor' \in [Consumers -> 0..MaxSequence]
  BY <1>1, CountsArePositive DEF Rejects, TypeInv, TypeOK, Offers, Sequences1
<1>3. settled' \in [Consumers -> Seq([sequence : Sequences1, status : {"consumed", "rejected"}])]
  BY <1>1, SettledType DEF Rejects
<1>4. IdleConsumer.step = "idle"
  BY DEF IdleConsumer, ConsumerAt
<1>5. loads' \in SUBSET [id : Ids, contents : Ids]
  BY DEF TypeInv, TypeOK
<1> QED
  BY <1>2, <1>3, <1>4, <1>5, RestType, ConsumerChanges DEF Rejects

\* What a consumer finds of an object is content, or nothing.
LEMMA OpenedType ==
  ASSUME TypeInv, NEW c \in Consumers, consumer[c].step # "idle"
  PROVE  OpenedObject(c) \in Contents \cup {None}
<1>1. consumer[c].selected.id \in Ids /\ consumer[c].member \in Members
  BY DEF TypeInv, TypeOK, Consumed, Consumer, Offers
<1>2. Opened(c) \in Directory \cup {None}
  BY <1>1 DEF Opened, TypeInv, TypeOK
<1>3. CASE Opened(c) = None
  BY <1>3 DEF OpenedObject
<1>4. CASE Opened(c) # None
  <2>1. Opened(c).objects[consumer[c].member] \in Contents \cup {None}
    BY <1>1, <1>2, <1>4 DEF Directory
  <2> QED
    BY <1>4, <2>1 DEF OpenedObject
<1> QED
  BY <1>3, <1>4

\* The steps of a consumer keep the types.
LEMMA TypeConsumes ==
  ASSUME TypeInv, NEW c \in Consumers, Consumes(c)
  PROVE  TypeInv'
<1> DEFINE w == consumer[c]
           m == consumer[c].member
<1>1. /\ w \in Consumer /\ Consumed(c) /\ m \in Members
      /\ m # MemberCount => m + 1 \in Members
  BY CountsArePositive DEF TypeInv, TypeOK, Consumer, Members
<1>2. /\ cursor \in [Consumers -> 0..MaxSequence]
      /\ settled \in [Consumers -> Seq([sequence : Sequences1, status : {"consumed", "rejected"}])]
      /\ loads \in SUBSET [id : Ids, contents : Ids]
  BY DEF TypeInv, TypeOK
<1>3. CASE Scan(c)
  <2>1. PICK o \in Newer(c) : consumer' = [consumer EXCEPT ![c] = ConsumerAt("manifest", o)]
    BY <1>3 DEF Scan
  <2>2. o \in Offers
    BY DEF Newer, TypeInv, TypeOK
  <2> DEFINE v == ConsumerAt("manifest", o)
  <2>3. v \in Consumer /\ v.step = "manifest" /\ v.selected \in Offers
    BY <2>2, FirstMember DEF ConsumerAt, Consumer, NoObjects
  <2> HIDE DEF v
  <2> QED
    BY <1>2, <1>3, <2>1, <2>3, ConsumerChanges DEF Scan, v
<1>4. CASE ReadManifest(c)
  <2>1. CASE Rejects(c)
    BY <1>4, <2>1, TypeRejects DEF ReadManifest
  <2>2. CASE ~Rejects(c)
    <3> DEFINE v == [w EXCEPT !.step = "directory"]
    <3>1. v \in Consumer /\ v.step = "directory" /\ v.selected \in Offers
      BY <1>1, <1>4 DEF ReadManifest, Consumer, Consumed
    <3>2. consumer' = [consumer EXCEPT ![c] = v] /\ UNCHANGED <<cursor, settled, loads>>
          /\ UNCHANGED <<source, files, lock, publisher, marks>>
      BY <1>4, <2>2 DEF ReadManifest
    <3> QED
      BY <1>2, <3>1, <3>2, ConsumerChanges
  <2> QED
    BY <2>1, <2>2
<1>5. CASE ResolveDirectory(c)
  <2> DEFINE v == [w EXCEPT !.step = IF Opened(c) = None THEN "fatal" ELSE "checking"]
  <2>1. v \in Consumer /\ v.step \in {"fatal", "checking"} /\ v.selected \in Offers
    BY <1>1, <1>5 DEF ResolveDirectory, Consumer, Consumed
  <2>2. consumer' = [consumer EXCEPT ![c] = v] /\ UNCHANGED <<cursor, settled, loads>>
        /\ UNCHANGED <<source, files, lock, publisher, marks>>
    BY <1>5 DEF ResolveDirectory
  <2> QED
    BY <1>2, <2>1, <2>2, ConsumerChanges
<1>6. CASE CheckObject(c)
  <2>1. CASE ~MatchesDigest(c)
    BY <1>6, <2>1, TypeRejects DEF CheckObject
  <2>2. CASE MatchesDigest(c) /\ LastMember(c)
    <3> DEFINE v == [w EXCEPT !.step = "loading", !.member = 1]
    <3>1. /\ v \in Consumer /\ v.step = "loading" /\ v.member = 1 /\ v.selected \in Offers
      BY <1>1, <1>6, FirstMember DEF CheckObject, Consumer, Consumed
    <3>2. consumer' = [consumer EXCEPT ![c] = v] /\ UNCHANGED <<settled, loads>>
          /\ UNCHANGED <<source, files, lock, publisher, marks>>
      BY <1>6, <2>2 DEF CheckObject
    <3>3. cursor' \in [Consumers -> 0..MaxSequence]
      <4>1. cursor' = [cursor EXCEPT ![c] = w.selected.sequence]
        BY <1>6, <2>2 DEF CheckObject
      <4>2. w.selected.sequence \in 0..MaxSequence
        BY <1>1, <1>6, CountsArePositive DEF CheckObject, Consumed, Offers, Sequences1
      <4> QED
        BY <1>2, <4>1, <4>2
    <3>4. \A k \in 1..(v.member - 1) : v.loaded[k] # None
      BY <3>1
    <3> QED
      BY <1>2, <3>1, <3>2, <3>3, <3>4, ConsumerChanges
  <2>3. CASE MatchesDigest(c) /\ ~LastMember(c)
    <3> DEFINE v == [w EXCEPT !.member = @ + 1]
    <3>1. v \in Consumer /\ v.step = "checking" /\ v.selected \in Offers
      BY <1>1, <1>6, <2>3 DEF CheckObject, LastMember, Consumer, Consumed
    <3>2. consumer' = [consumer EXCEPT ![c] = v] /\ UNCHANGED <<cursor, settled, loads>>
          /\ UNCHANGED <<source, files, lock, publisher, marks>>
      BY <1>6, <2>3 DEF CheckObject
    <3> QED
      BY <1>2, <3>1, <3>2, ConsumerChanges
  <2> QED
    BY <2>1, <2>2, <2>3
<1>7. CASE LoadObject(c)
  <2> DEFINE loaded == [w.loaded EXCEPT ![m] = OpenedObject(c)]
  <2>1. OpenedObject(c) \in Contents /\ w.selected \in Offers
    BY <1>1, <1>7, OpenedType DEF LoadObject, Consumed
  <2>2. loaded \in [Members -> Contents \cup {None}]
    BY <1>1, <2>1 DEF Consumer
  <2>3. \A k \in 1..m : loaded[k] # None
    <3> SUFFICES ASSUME NEW k \in 1..m PROVE loaded[k] # None
      OBVIOUS
    <3>1. k \in Members /\ w.loaded \in [Members -> Contents \cup {None}]
      BY <1>1, CountsArePositive DEF Members, Consumer
    <3>2. CASE k = m
      BY <1>7, <3>1, <3>2 DEF LoadObject
    <3>3. CASE k # m
      <4>1. k \in 1..(m - 1)
        BY <1>1, <3>3 DEF Members
      <4> QED
        BY <1>1, <1>7, <3>1, <3>3, <4>1 DEF LoadObject, Consumed
    <3> QED
      BY <3>2, <3>3
  <2> HIDE DEF loaded
  <2>4. CASE LastMember(c)
    <3>1. loaded \in Ids
      BY <2>2, <2>3, <2>4, WholeIsId DEF LastMember, Members
    <3>2. loads' = loads \cup {[id |-> w.selected.id, contents |-> loaded]}
      BY <1>7, <2>4 DEF LoadObject, loaded
    <3>3. loads' \in SUBSET [id : Ids, contents : Ids]
      BY <1>2, <2>1, <3>1, <3>2 DEF Offers
    <3>4. settled' \in [Consumers -> Seq([sequence : Sequences1, status : {"consumed", "rejected"}])]
      BY <1>7, <2>1, <2>4, SettledType DEF LoadObject
    <3>5. consumer' = [consumer EXCEPT ![c] = IdleConsumer] /\ cursor' = cursor
          /\ UNCHANGED <<source, files, lock, publisher, marks>> /\ IdleConsumer.step = "idle"
      BY <1>7, <2>4 DEF LoadObject, IdleConsumer, ConsumerAt
    <3> QED
      BY <1>2, <3>3, <3>4, <3>5, RestType, ConsumerChanges
  <2>5. CASE ~LastMember(c)
    <3> DEFINE v == [w EXCEPT !.loaded = loaded, !.member = @ + 1]
    <3>1. v \in Consumer /\ v.step = "loading" /\ v.selected \in Offers
          /\ v.member = m + 1 /\ v.loaded = loaded
      BY <1>1, <1>7, <2>1, <2>2, <2>5 DEF LoadObject, LastMember, Consumer
    <3>2. consumer' = [consumer EXCEPT ![c] = v] /\ UNCHANGED <<cursor, settled, loads>>
          /\ UNCHANGED <<source, files, lock, publisher, marks>>
      BY <1>7, <2>5 DEF LoadObject, loaded
    <3>3. \A k \in 1..(v.member - 1) : v.loaded[k] # None
      BY <1>1, <2>3, <3>1 DEF Members
    <3> HIDE DEF v
    <3> QED
      BY <1>2, <3>1, <3>2, <3>3, ConsumerChanges
  <2> QED
    BY <2>4, <2>5
<1>8. CASE LoadFails(c)
  BY <1>8, TypeRejects DEF LoadFails
<1> QED
  BY <1>3, <1>4, <1>5, <1>6, <1>7, <1>8 DEF Consumes

\* Every step keeps the types.
LEMMA TypeStep == TypeInv /\ [Next]_vars => TypeInv'
<1> SUFFICES ASSUME TypeInv, [Next]_vars PROVE TypeInv'
  OBVIOUS
<1>1. ASSUME NEW m \in Members, NEW content \in Contents \cup {None}, Rebuild(m, content)
      PROVE  TypeInv'
  <2>1. TypeOK'
    BY <1>1 DEF Rebuild, HashedOnly, files, TypeInv, TypeOK
  <2> QED
    BY <1>1, <2>1 DEF Rebuild, TypeInv, Progress, Consumed
<1>2. CASE UNCHANGED vars
  BY <1>2 DEF vars, files, marks, TypeInv, TypeOK, Progress, Consumed
<1> QED
  BY <1>1, <1>2, TypePublishes, TypeConsumes DEF Next

\* The types of the variables, in every behaviour.
THEOREM TypeCorrect == Spec => []TypeInv
BY TypeInit, TypeStep, PTL DEF Spec

-----------------------------------------------------------------------------
(* Sequences.  A publisher takes its sequence long before it uses it: the  *)
(* sequence stays past all offers because whoever is at work holds the     *)
(* lock, so that nobody else releases an offer meanwhile.                  *)

Busy(p) == publisher[p].step # "idle"

LockIsHeld == \A p \in Publishers : Busy(p) => lock = p

SequenceIsFresh ==
  \A p \in Publishers : Busy(p) => \A o \in offers : o.sequence < publisher[p].sequence

StreamInv == TypeInv /\ LockIsHeld /\ SequenceIsFresh

\* Nobody is at work on a stream that has just been created.
LEMMA StreamInit == Init => StreamInv
BY TypeInit DEF Init, StreamInv, LockIsHeld, SequenceIsFresh, Busy, IdlePublisher, PublisherAt

\* Every step keeps the lock with whoever is at work, and its sequence fresh.
LEMMA StreamStep == StreamInv /\ [Next]_vars => StreamInv'
<1> SUFFICES ASSUME StreamInv, [Next]_vars PROVE StreamInv'
  OBVIOUS
<1>1. TypeInv'
  BY TypeStep DEF StreamInv
<1>2. ASSUME UNCHANGED <<offers, lock, publisher>> PROVE StreamInv'
  BY <1>1, <1>2 DEF StreamInv, LockIsHeld, SequenceIsFresh, Busy
<1>3. ASSUME NEW p \in Publishers, Publishes(p) PROVE StreamInv'
  <2>1. /\ publisher \in [Publishers -> Publisher]
        /\ \A q \in Publishers \ {p} : publisher'[q] = publisher[q]
    BY <1>3 DEF Publishes, TakeLock, ReadMember, StageMember, RemoveFile, ReleaseGeneration,
                ReleaseOffer, GivesUp, StreamInv, TypeInv, TypeOK
  <2>2. CASE TakeLock(p)
    <3>1. PICK n \in NextSequence :
            publisher' = [publisher EXCEPT ![p] = PublisherAt("reading", n)]
      BY <2>2 DEF TakeLock
    <3>2. publisher'[p].sequence = n /\ \A o \in offers : o.sequence < n
      BY <2>1, <3>1 DEF PublisherAt, NextSequence
    <3>3. \A q \in Publishers \ {p} : ~Busy(q)
      BY <2>2, NoneIsNoContent DEF TakeLock, StreamInv, LockIsHeld
    <3>4. lock' = p /\ offers' = offers
      BY <2>2 DEF TakeLock, files
    <3> QED
      BY <1>1, <2>1, <3>2, <3>3, <3>4 DEF StreamInv, LockIsHeld, SequenceIsFresh, Busy
  <2>3. CASE ReadMember(p) \/ StageMember(p) \/ RemoveFile(p) \/ ReleaseGeneration(p)
    <3>1. Busy(p) /\ publisher'[p].sequence = publisher[p].sequence
          /\ offers' = offers /\ lock' = lock
      BY <2>1, <2>3 DEF Busy, ReadMember, StageMember, RemoveFile, ReleaseGeneration, files, Publisher
    <3> QED
      BY <1>1, <2>1, <3>1 DEF StreamInv, LockIsHeld, SequenceIsFresh, Busy
  <2>4. CASE ReleaseOffer(p) \/ GivesUp(p)
    <3>1. Busy(p) /\ lock = p /\ publisher'[p] = IdlePublisher
      BY <2>1, <2>4 DEF Busy, ReleaseOffer, GivesUp, StreamInv, LockIsHeld
    <3>2. \A q \in Publishers : ~Busy(q)'
      BY <2>1, <3>1 DEF Busy, IdlePublisher, PublisherAt, StreamInv, LockIsHeld
    <3> QED
      BY <1>1, <3>2 DEF StreamInv, LockIsHeld, SequenceIsFresh
  <2> QED
    BY <1>3, <2>2, <2>3, <2>4 DEF Publishes
<1>4. ASSUME NEW c \in Consumers, Consumes(c) PROVE UNCHANGED <<offers, lock, publisher>>
  BY <1>4 DEF Consumes, Scan, ReadManifest, ResolveDirectory, CheckObject, LoadObject,
              LoadFails, files
<1>5. ASSUME NEW m \in Members, NEW content \in Contents \cup {None}, Rebuild(m, content)
      PROVE  UNCHANGED <<offers, lock, publisher>>
  BY <1>5 DEF Rebuild, files
<1> QED
  BY <1>2, <1>3, <1>4, <1>5 DEF Next, vars, files

\* Racing publishers and dead ones never hand out a sequence twice, or out of
\* order: publisher.cpp takes the sequence and renames the marker under one lock.
THEOREM SequencesIncreaseAlways == Spec => SequencesIncrease
<1>1. StreamInv /\ [Next]_vars => [\A o \in offers' \ offers : \A q \in offers : q.sequence < o.sequence]_vars
  <2> SUFFICES ASSUME StreamInv, Next,
                      NEW o \in offers' \ offers, NEW q \in offers
               PROVE  q.sequence < o.sequence
    OBVIOUS
  <2>1. PICK p \in Publishers : ReleaseOffer(p)
    BY DEF Next, Publishes, Consumes, Rebuild, TakeLock, ReadMember, StageMember, RemoveFile,
           ReleaseGeneration, GivesUp, Scan, ReadManifest, ResolveDirectory, CheckObject,
           LoadObject, LoadFails, files
  <2>2. o.sequence = publisher[p].sequence /\ Busy(p)
    BY <2>1 DEF ReleaseOffer, Busy
  <2> QED
    BY <2>2 DEF StreamInv, SequenceIsFresh
<1> QED
  BY <1>1, StreamInit, StreamStep, PTL DEF Spec, SequencesIncrease

-----------------------------------------------------------------------------
(* Consumption.  The cursor bounds what was settled; while an offer is      *)
(* being looked at, everything settled is older than that offer.            *)

Past(c) ==
  \A i \in DOMAIN settled[c] :
    /\ settled[c][i].sequence <= cursor[c]
    /\ consumer[c].step # "idle" => settled[c][i].sequence < consumer[c].selected.sequence

SelectedIsNew(c) ==
  /\ consumer[c].step \in {"manifest", "directory", "checking"} =>
       consumer[c].selected.sequence > cursor[c]
  /\ consumer[c].step = "loading" => consumer[c].selected.sequence = cursor[c]

Increasing(c) ==
  \A i, j \in DOMAIN settled[c] :
    i < j => settled[c][i].sequence < settled[c][j].sequence

ConsumptionInv ==
  /\ TypeInv
  /\ \A c \in Consumers : Past(c) /\ SelectedIsNew(c) /\ Increasing(c)

\* Every entry of a history has a sequence.
LEMMA SettledSequence ==
  ASSUME TypeInv, NEW c \in Consumers, NEW i \in DOMAIN settled[c]
  PROVE  settled[c][i].sequence \in Nat /\ cursor[c] \in Nat
<1> DEFINE Entry == [sequence : Sequences1, status : {"consumed", "rejected"}]
<1>1. settled[c] \in Seq(Entry) /\ cursor[c] \in 0..MaxSequence
  BY DEF TypeInv, TypeOK
<1>2. settled[c][i] \in Entry
  <2> HIDE DEF Entry
  <2> QED
    BY <1>1
<1> QED
  BY <1>1, <1>2, CountsArePositive DEF Sequences1

\* A consumer that has observed nothing is at the beginning.
LEMMA ConsumptionInit == Init => ConsumptionInv
BY TypeInit
   DEF Init, ConsumptionInv, Past, SelectedIsNew, Increasing, IdleConsumer, ConsumerAt

\* What is settled next comes after everything that was settled.
LEMMA SettlesLater ==
  ASSUME ConsumptionInv, NEW c \in Consumers, NEW status \in {"consumed", "rejected"},
         consumer[c].step # "idle", Settles(c, status),
         cursor' \in [Consumers -> 0..MaxSequence],
         consumer[c].selected.sequence <= cursor'[c], cursor[c] <= cursor'[c],
         consumer'[c].step = "idle"
  PROVE  Past(c)' /\ SelectedIsNew(c)' /\ Increasing(c)'
<1> DEFINE Entry == [sequence : Sequences1, status : {"consumed", "rejected"}]
           e == [sequence |-> consumer[c].selected.sequence, status |-> status]
           n == Len(settled[c])
<1>1. settled[c] \in Seq(Entry) /\ settled \in [Consumers -> Seq(Entry)]
      /\ cursor[c] \in Nat /\ cursor'[c] \in Nat
  <2>1. cursor[c] \in 0..MaxSequence /\ cursor'[c] \in 0..MaxSequence
    BY DEF ConsumptionInv, TypeInv, TypeOK
  <2>2. settled \in [Consumers -> Seq(Entry)]
    BY DEF ConsumptionInv, TypeInv, TypeOK
  <2> HIDE DEF Entry
  <2> QED
    BY <2>1, <2>2, CountsArePositive
<1>2. e \in Entry /\ e.sequence = consumer[c].selected.sequence /\ e.sequence \in Nat
  BY CountsArePositive DEF ConsumptionInv, TypeInv, Consumed, Offers, Sequences1
<1>3. settled'[c] = Append(settled[c], e)
  BY <1>1 DEF Settles
<1> HIDE DEF e, Entry
<1>4. \A i \in 1..n : settled[c][i].sequence < e.sequence /\ settled[c][i].sequence <= cursor[c]
                      /\ settled[c][i].sequence \in Nat
  <2> SUFFICES ASSUME NEW i \in 1..n
               PROVE  settled[c][i].sequence < e.sequence /\ settled[c][i].sequence <= cursor[c]
                      /\ settled[c][i].sequence \in Nat
    OBVIOUS
  <2>1. i \in DOMAIN settled[c]
    BY <1>1
  <2> QED
    BY <1>2, <2>1, SettledSequence DEF ConsumptionInv, Past
<1>5. /\ DOMAIN settled'[c] = 1..(n + 1) /\ n \in Nat
      /\ \A i \in 1..n : settled'[c][i] = settled[c][i]
      /\ settled'[c][n + 1] = e
  BY <1>1, <1>2, <1>3
<1>6. Past(c)'
  BY <1>1, <1>2, <1>4, <1>5 DEF Past
<1>7. SelectedIsNew(c)'
  BY DEF SelectedIsNew
<1>8. Increasing(c)'
  <2> SUFFICES ASSUME NEW i \in 1..(n + 1), NEW j \in 1..(n + 1), i < j
               PROVE  settled'[c][i].sequence < settled'[c][j].sequence
    BY <1>5 DEF Increasing
  <2>1. CASE j = n + 1
    BY <1>2, <1>4, <1>5, <2>1
  <2>2. CASE j # n + 1
    <3>1. i \in 1..n /\ j \in 1..n /\ i \in DOMAIN settled[c] /\ j \in DOMAIN settled[c]
      BY <1>1, <1>5, <2>2
    <3> QED
      BY <1>5, <3>1 DEF ConsumptionInv, Increasing
  <2> QED
    BY <2>1, <2>2
<1> QED
  BY <1>6, <1>7, <1>8

\* Every step keeps the order of what is settled.
LEMMA ConsumptionStep == ConsumptionInv /\ [Next]_vars => ConsumptionInv'
<1> SUFFICES ASSUME ConsumptionInv, [Next]_vars PROVE ConsumptionInv'
  OBVIOUS
<1>1. TypeInv'
  BY TypeStep DEF ConsumptionInv
<1>2. ASSUME UNCHANGED <<consumer, cursor, settled>> PROVE ConsumptionInv'
  BY <1>1, <1>2 DEF ConsumptionInv, Past, SelectedIsNew, Increasing
<1>3. ASSUME NEW c \in Consumers, Consumes(c) PROVE ConsumptionInv'
  <2> DEFINE Kept(d) == Past(d)' /\ SelectedIsNew(d)' /\ Increasing(d)'
  <2>1. /\ consumer \in [Consumers -> Consumer] /\ cursor \in [Consumers -> 0..MaxSequence]
        /\ settled \in [Consumers -> Seq([sequence : Sequences1, status : {"consumed", "rejected"}])]
        /\ Past(c) /\ SelectedIsNew(c) /\ Increasing(c) /\ Consumed(c)
    BY DEF ConsumptionInv, TypeInv, TypeOK
  <2>2. \A d \in Consumers \ {c} : /\ consumer'[d] = consumer[d]
                                   /\ cursor'[d] = cursor[d] /\ settled'[d] = settled[d]
    BY <1>3, <2>1 DEF Consumes, Scan, ReadManifest, ResolveDirectory, CheckObject,
         LoadObject, LoadFails, Rejects, Settles
  <2>3. \A d \in Consumers \ {c} : Kept(d)
    BY <2>2 DEF ConsumptionInv, Past, SelectedIsNew, Increasing
  <2>4. Kept(c)
    <3>4. CASE Rejects(c) /\ consumer[c].step # "idle"
      <4>1. cursor'[c] = consumer[c].selected.sequence /\ consumer'[c].step = "idle"
        BY <2>1, <3>4 DEF Rejects, IdleConsumer, ConsumerAt
      <4>2. \/ cursor[c] <= cursor'[c] /\ consumer[c].selected.sequence <= cursor'[c]
            \/ consumer[c].step = "fatal"
        BY <2>1, <3>4, <4>1 DEF SelectedIsNew, Consumer, Consumed, Offers, Sequences1
      <4>3. consumer[c].step # "fatal"
        BY <1>3, <3>4, <4>1, <2>1 DEF Consumes, Scan, ReadManifest, ResolveDirectory, CheckObject,
             LoadObject, LoadFails
      <4>4. cursor' \in [Consumers -> 0..MaxSequence]
        BY <1>1 DEF TypeInv, TypeOK
      <4> QED
        BY <3>4, <4>1, <4>2, <4>3, <4>4, SettlesLater DEF Rejects
    <3>5. CASE Scan(c)
      <4>1. PICK o \in Newer(c) : consumer' = [consumer EXCEPT ![c] = ConsumerAt("manifest", o)]
        BY <3>5 DEF Scan
      <4>2. consumer'[c].step = "manifest" /\ consumer'[c].selected = o
            /\ o.sequence > cursor[c] /\ o.sequence \in Nat
        BY <2>1, <4>1 DEF ConsumerAt, Newer, ConsumptionInv, TypeInv, TypeOK, Offers, Sequences1
      <4>3. cursor' = cursor /\ settled' = settled
        BY <3>5 DEF Scan
      <4>4. Past(c)'
        <5> SUFFICES ASSUME NEW i \in DOMAIN settled[c]
                     PROVE  settled[c][i].sequence <= cursor[c] /\ settled[c][i].sequence < o.sequence
          BY <4>2, <4>3 DEF Past
        <5>1. settled[c][i].sequence <= cursor[c] /\ settled[c][i].sequence \in Nat /\ cursor[c] \in Nat
          BY <2>1, SettledSequence DEF Past, ConsumptionInv
        <5> QED
          BY <4>2, <5>1
      <4> QED
        BY <2>1, <4>2, <4>3, <4>4 DEF SelectedIsNew, Increasing
    <3>6. CASE ReadManifest(c) /\ ~Rejects(c)
      BY <2>1, <3>6 DEF ReadManifest, Past, SelectedIsNew, Increasing, Consumer
    <3>7. CASE ResolveDirectory(c)
      BY <2>1, <3>7 DEF ResolveDirectory, Past, SelectedIsNew, Increasing, Consumer
    <3>8. CASE CheckObject(c) /\ ~Rejects(c)
      <4>1. CASE LastMember(c)
        <5>1. /\ cursor'[c] = consumer[c].selected.sequence /\ settled' = settled
              /\ consumer'[c].step = "loading" /\ consumer'[c].selected = consumer[c].selected
          BY <2>1, <3>8, <4>1 DEF CheckObject, Consumer
        <5>2. consumer[c].selected.sequence > cursor[c] /\ consumer[c].selected.sequence \in Nat
          BY <2>1, <3>8 DEF CheckObject, SelectedIsNew, Consumed, Offers, Sequences1
        <5>3. Past(c)'
          <6> SUFFICES ASSUME NEW i \in DOMAIN settled[c]
                       PROVE  settled[c][i].sequence < consumer[c].selected.sequence
                              /\ settled[c][i].sequence <= consumer[c].selected.sequence
            BY <5>1 DEF Past
          <6>1. settled[c][i].sequence <= cursor[c] /\ settled[c][i].sequence \in Nat
                /\ cursor[c] \in Nat
            BY <2>1, SettledSequence DEF Past, ConsumptionInv
          <6> QED
            BY <5>2, <6>1
        <5> QED
          BY <2>1, <5>1, <5>3 DEF SelectedIsNew, Increasing
      <4>2. CASE ~LastMember(c)
        BY <2>1, <3>8, <4>2 DEF CheckObject, Past, SelectedIsNew, Increasing, Consumer
      <4> QED
        BY <4>1, <4>2
    <3>9. CASE LoadObject(c)
      <4>1. CASE LastMember(c)
        <5>1. Settles(c, "consumed") /\ cursor' = cursor /\ consumer'[c].step = "idle"
              /\ consumer[c].step = "loading"
          BY <2>1, <3>9, <4>1 DEF LoadObject, IdleConsumer, ConsumerAt
        <5>2. consumer[c].selected.sequence <= cursor'[c] /\ cursor[c] <= cursor'[c]
          BY <2>1, <5>1 DEF SelectedIsNew
        <5> QED
          BY <2>1, <5>1, <5>2, SettlesLater
      <4>2. CASE ~LastMember(c)
        BY <2>1, <3>9, <4>2 DEF LoadObject, Past, SelectedIsNew, Increasing, Consumer
      <4> QED
        BY <4>1, <4>2
    <3> QED
      BY <1>3, <3>4, <3>5, <3>6, <3>7, <3>8, <3>9
         DEF Consumes, ReadManifest, CheckObject, LoadFails
  <2> QED
    BY <1>1, <2>3, <2>4 DEF ConsumptionInv
<1>4. ASSUME NEW p \in Publishers, Publishes(p) PROVE UNCHANGED <<consumer, cursor, settled>>
  BY <1>4 DEF Publishes, TakeLock, ReadMember, StageMember, RemoveFile, ReleaseGeneration,
              ReleaseOffer, GivesUp
<1>5. ASSUME NEW m \in Members, NEW content \in Contents \cup {None}, Rebuild(m, content)
      PROVE  UNCHANGED <<consumer, cursor, settled>>
  BY <1>5 DEF Rebuild
<1> QED
  BY <1>2, <1>3, <1>4, <1>5 DEF Next, vars

\* A consumer settles every offer at most once, in sequence order, and passes
\* it for good: poll() moves the cursor whatever it finds.
THEOREM SettledOnceAlways == Spec => []SettledOnce
<1>1. ConsumptionInv => SettledOnce
  BY DEF ConsumptionInv, Increasing, SettledOnce
<1> QED
  BY <1>1, ConsumptionInit, ConsumptionStep, PTL DEF Spec


-----------------------------------------------------------------------------
(* Contents.  What a publisher copies is what it hashed, member by member,  *)
(* unless the build rewrote the member in between; a directory on offer is  *)
(* therefore what its id says, and changes only under a publisher that is   *)
(* replacing it, which holds the lock and has a later sequence.             *)

\* The members that are copied, and those that are not yet.
CopiesMatch(p) ==
  LET w == publisher[p] IN
  /\ w.step = "reading" => w.staged = NoObjects
  /\ w.step = "staging" => \A m \in w.member..MemberCount : w.staged[m] = None
  /\ w.step \in {"reading", "staging", "removing"} =>
       \A m \in Members \ rewritten :
         /\ w.staged[m] = None => w.digests[m] \in {None, source[m]}
         /\ w.staged[m] # None => w.staged[m] = w.digests[m]

\* What has been released is there until its marker follows.
Released(p) ==
  publisher[p].step = "offering" =>
    /\ Whole(publisher[p].digests)
    /\ generations[publisher[p].digests].manifest = publisher[p].sequence

Replacing(id) ==
  \E p \in Publishers : publisher[p].step = "removing" /\ publisher[p].digests = id

HasCause(n) == \E o \in offers : o.sequence = n /\ o.id \in replaced \cup mixed

ConsumesOffer(c) ==
  LET w == consumer[c] IN
  /\ w.step # "idle" =>
       /\ w.selected \in offers
       /\ w.selected.id \in mixed \/ \A m \in Members : w.loaded[m] \in {None, w.selected.id[m]}
  /\ w.step = "fatal" => w.selected.id \in replaced
  /\ \A i \in DOMAIN settled[c] :
       settled[c][i].status = "rejected" => HasCause(settled[c][i].sequence)

ContentInv ==
  /\ StreamInv
  /\ \A p \in Publishers : CopiesMatch(p) /\ Released(p)
  /\ OffersLeadHome
  /\ DirectoriesMatchDigests
  /\ DirectoriesAreRestored
  /\ \A c \in Consumers : ConsumesOffer(c)
  /\ LoadsAreVerified

\* An empty stream is sound.
LEMMA ContentInit == Init => ContentInv
BY StreamInit
   DEF Init, ContentInv, CopiesMatch, Released, OffersLeadHome, DirectoriesMatchDigests,
       DirectoriesAreRestored, ConsumesOffer, LoadsAreVerified, IdlePublisher, PublisherAt,
       IdleConsumer, ConsumerAt

\* What a publication without a rewritten object copied is what it hashed.
LEMMA CopiedIsHashed ==
  ASSUME ContentInv, NEW p \in Publishers, publisher[p].step = "removing", rewritten = {}
  PROVE  publisher[p].staged = publisher[p].digests
<1>1. publisher[p].staged \in Ids /\ publisher[p].digests \in Ids
  BY DEF ContentInv, StreamInv, TypeInv, Progress
<1>2. \A m \in Members : publisher[p].staged[m] = publisher[p].digests[m]
  BY <1>1, NoneIsNoContent DEF ContentInv, CopiesMatch, Ids
<1> QED
  BY <1>1, <1>2 DEF Ids

\* A directory with all of its objects is a directory.
LEMMA ReleasedIsWhole ==
  ASSUME NEW n \in Sequences1, NEW copied \in Ids
  PROVE  LET d == [manifest |-> n, objects |-> copied] IN
         /\ d # None /\ d.manifest = n /\ d.manifest # 0 /\ d.objects = copied
         /\ \A m \in Members : d.objects[m] # None
<1>1. [manifest |-> n, objects |-> copied] \in Directory
  BY CountsArePositive DEF Directory, Ids, Sequences1
<1> QED
  BY <1>1, NoneIsNoDirectory, NoneIsNoContent DEF Ids, Sequences1

\* While an offer that nobody replaced is looked at, all of it is there; what
\* is there of an offer that is not mixed matches.
LEMMA OpenedIsOffered ==
  ASSUME ContentInv, NEW c \in Consumers, consumer[c].step # "idle"
  PROVE  LET o == consumer[c].selected IN
         /\ o \in offers /\ o \in Offers /\ consumer[c].member \in Members
         /\ o.id \in replaced \/ (/\ Opened(c) # None /\ Opened(c).manifest = o.sequence
                                  /\ OpenedObject(c) # None)
         /\ o.id \in mixed \/ OpenedObject(c) \in {None, o.id[consumer[c].member]}
         /\ o.id \in replaced \cup mixed \/ MatchesDigest(c)
<1> DEFINE o == consumer[c].selected
           m == consumer[c].member
<1>1. o \in offers /\ o \in Offers /\ m \in Members /\ o.id \in Ids
  BY DEF ContentInv, ConsumesOffer, StreamInv, TypeInv, TypeOK, Consumed, Consumer, Offers
<1>2. o.id \in replaced \/ (Whole(o.id) /\ generations[o.id].manifest = o.sequence)
  BY <1>1 DEF ContentInv, OffersLeadHome
<1>3. o.id \in replaced \/ (/\ Opened(c) # None /\ Opened(c).manifest = o.sequence
                            /\ OpenedObject(c) # None)
  BY <1>1, <1>2 DEF Whole, Opened, OpenedObject
<1>4. o.id \in mixed \/ OpenedObject(c) \in {None, o.id[m]}
  BY <1>1 DEF ContentInv, DirectoriesMatchDigests, Opened, OpenedObject
<1> QED
  BY <1>1, <1>3, <1>4 DEF MatchesDigest

\* The facts about a consumer outlive what a publisher does.
LEMMA ConsumerKept ==
  ASSUME NEW c \in Consumers, ConsumesOffer(c), consumer'[c] = consumer[c], settled'[c] = settled[c],
         offers \subseteq offers', mixed \subseteq mixed', replaced \subseteq replaced'
  PROVE  ConsumesOffer(c)'
BY DEF ConsumesOffer, HasCause

\* The steps of a publisher, one conjunct that it can disturb at a time.
LEMMA ContentPublishes ==
  ASSUME ContentInv, StreamInv', NEW p \in Publishers, Publishes(p)
  PROVE  ContentInv'
<1> DEFINE w == publisher[p]
           id == publisher[p].digests
<1>1. /\ publisher \in [Publishers -> Publisher] /\ generations \in [Ids -> Directory \cup {None}]
      /\ offers \in SUBSET Offers /\ Progress(p) /\ CopiesMatch(p) /\ Released(p)
      /\ w \in Publisher /\ source' = source /\ UNCHANGED <<consumer, settled, loads>>
  BY DEF ContentInv, StreamInv, TypeInv, TypeOK, Publishes, TakeLock, ReadMember, StageMember,
         RemoveFile, ReleaseGeneration, ReleaseOffer, GivesUp
<1>2. \A q \in Publishers \ {p} : publisher'[q] = publisher[q]
  BY <1>1 DEF Publishes, TakeLock, ReadMember, StageMember, RemoveFile, ReleaseGeneration,
              ReleaseOffer, GivesUp
<1>3. \A q \in Publishers \ {p} : publisher[q].step = "idle"
  <2>1. CASE TakeLock(p)
    BY <2>1, NoneIsNoContent DEF TakeLock, ContentInv, StreamInv, LockIsHeld, Busy
  <2>2. CASE ~TakeLock(p)
    BY <2>2 DEF Publishes, ReadMember, StageMember, RemoveFile, ReleaseGeneration, ReleaseOffer,
                GivesUp, ContentInv, StreamInv, LockIsHeld, Busy
  <2> QED
    BY <2>1, <2>2
<1>4. \A q \in Publishers \ {p} : CopiesMatch(q)' /\ Released(q)'
  BY <1>2, <1>3 DEF CopiesMatch, Released
<1>5. /\ offers \subseteq offers' /\ mixed \subseteq mixed' /\ replaced \subseteq replaced'
  BY DEF Publishes, TakeLock, ReadMember, StageMember, RemoveFile, ReleaseGeneration, ReleaseOffer,
         GivesUp, MarkRelease, files, marks
<1>6. (\A c \in Consumers : ConsumesOffer(c)') /\ LoadsAreVerified'
  BY <1>1, <1>5, ConsumerKept DEF ContentInv, LoadsAreVerified
<1>7. ASSUME UNCHANGED <<generations, offers, mixed, replaced>>,
             w.step # "removing" \/ id \in torn', torn \subseteq torn',
             CopiesMatch(p)', Released(p)'
      PROVE  ContentInv'
  <2>1. OffersLeadHome' /\ DirectoriesMatchDigests'
    BY <1>7 DEF ContentInv, OffersLeadHome, DirectoriesMatchDigests, Whole
  <2>2. DirectoriesAreRestored'
    <3> SUFFICES ASSUME NEW o \in offers
                 PROVE  \/ Replacing(o.id)' \/ o.id \in torn'
                        \/ Whole(o.id)' /\ generations'[o.id].manifest >= o.sequence
      BY <1>7 DEF DirectoriesAreRestored, Replacing
    <3>1. Replacing(o.id) => id = o.id /\ w.step = "removing"
      BY <1>3 DEF Replacing
    <3> QED
      BY <1>7, <3>1 DEF ContentInv, DirectoriesAreRestored, Replacing, Whole
  <2> QED
    BY <1>4, <1>6, <1>7, <2>1, <2>2 DEF ContentInv
<1>8. CASE TakeLock(p)
  <2>1. PICK n \in NextSequence :
          publisher' = [publisher EXCEPT ![p] = PublisherAt("reading", n)]
    BY <1>8 DEF TakeLock
  <2>2. /\ publisher'[p].digests = NoObjects /\ publisher'[p].staged = NoObjects
        /\ publisher'[p].step = "reading"
    BY <1>1, <2>1 DEF PublisherAt
  <2>3. CopiesMatch(p)' /\ Released(p)'
    BY <2>2 DEF CopiesMatch, Released, NoObjects
  <2> QED
    BY <1>7, <1>8, <2>3 DEF TakeLock, files, marks
<1>9. CASE ReadMember(p)
  <2>1. /\ publisher'[p].digests = [id EXCEPT ![w.member] = source[w.member]]
        /\ publisher'[p].staged = NoObjects
        /\ publisher'[p].step \in {"reading", "staging"}
    BY <1>1, <1>9 DEF ReadMember, Advance, Publisher, CopiesMatch
  <2>2. id \in [Members -> Contents \cup {None}] /\ w.member \in Members
    BY <1>1 DEF Publisher
  <2>3. publisher'[p].step = "staging" => publisher'[p].member = 1
    BY <1>1, <1>9 DEF ReadMember, Advance, Publisher
  <2>4. \A m \in Members \ rewritten : publisher'[p].digests[m] \in {None, source[m]}
    BY <1>1, <1>9, <2>1, <2>2 DEF ReadMember, CopiesMatch, NoObjects
  <2>5. rewritten' = rewritten /\ \A m \in Members : NoObjects[m] = None
    BY <1>9 DEF ReadMember, marks, NoObjects
  <2>6. publisher'[p].step = "staging" =>
          \A m \in publisher'[p].member..MemberCount : publisher'[p].staged[m] = None
    BY <2>1, <2>3, <2>5 DEF Members
  <2>7. CopiesMatch(p)' /\ Released(p)'
    BY <1>1, <2>1, <2>4, <2>5, <2>6 DEF CopiesMatch, Released
  <2> QED
    BY <1>7, <1>9, <2>7 DEF ReadMember, files, marks
<1>10. CASE StageMember(p)
  <2>1. /\ publisher'[p].staged = [w.staged EXCEPT ![w.member] = source[w.member]]
        /\ publisher'[p].digests = id
        /\ publisher'[p].step = IF w.member = MemberCount THEN "removing" ELSE "staging"
        /\ publisher'[p].member = IF w.member = MemberCount THEN 1 ELSE w.member + 1
    BY <1>1, <1>10 DEF StageMember, Advance, Publisher
  <2>2. /\ w.staged \in [Members -> Contents \cup {None}] /\ w.member \in Members /\ id \in Ids
        /\ w.staged[w.member] = None /\ source[w.member] # None
        /\ \A m \in (w.member + 1)..MemberCount : w.staged[m] = None /\ m \in Members /\ m # w.member
    BY <1>1, <1>10, CountsArePositive DEF StageMember, Publisher, Progress, CopiesMatch, Members
  <2>3. \A m \in Members : id[m] # None
    BY <2>2, NoneIsNoContent DEF Ids
  <2>4. ASSUME NEW m \in Members \ rewritten
        PROVE  /\ publisher'[p].staged[m] = None => id[m] \in {None, source[m]}
               /\ publisher'[p].staged[m] # None => publisher'[p].staged[m] = id[m]
    BY <1>1, <1>10, <2>1, <2>2, <2>3 DEF StageMember, CopiesMatch
  <2>5. publisher'[p].step = "staging" =>
          \A m \in publisher'[p].member..MemberCount : publisher'[p].staged[m] = None
    BY <2>1, <2>2
  <2>6. rewritten' = rewritten
    BY <1>10 DEF StageMember, marks
  <2>7. CopiesMatch(p)' /\ Released(p)'
    BY <1>1, <2>1, <2>4, <2>5, <2>6 DEF CopiesMatch, Released
  <2> QED
    BY <1>7, <1>10, <2>7 DEF StageMember, files, marks
<1>11. CASE RemoveFile(p)
  <2>1. /\ id \in Ids /\ w.step = "removing" /\ generations[id] \in Directory
        /\ publisher' = publisher /\ offers' = offers
        /\ rewritten' = rewritten /\ mixed' = mixed /\ torn' = torn
        /\ Offered(id) => id \in replaced'
    BY <1>1, <1>11 DEF RemoveFile, Progress
  <2>2. \A other \in Ids \ {id} : generations'[other] = generations[other]
    BY <1>1, <1>11, <2>1 DEF RemoveFile
  <2>3. OffersLeadHome'
    BY <1>1, <1>5, <2>1, <2>2 DEF ContentInv, OffersLeadHome, Whole, Offered, Offers
  <2>4. generations'[id] = None \/
          \A m \in Members : generations'[id].objects[m] \in {generations[id].objects[m], None}
    <3>1. CASE generations' = [generations EXCEPT ![id] = None]
      BY <1>1, <2>1, <3>1
    <3>2. CASE generations' = [generations EXCEPT ![id].manifest = 0]
      <4>1. generations'[id].objects = generations[id].objects
        BY <1>1, <2>1, <3>2 DEF Directory
      <4> QED
        BY <4>1
    <3>3. ASSUME NEW k \in Members, generations' = [generations EXCEPT ![id].objects[k] = None]
          PROVE  \A m \in Members : generations'[id].objects[m] \in {generations[id].objects[m], None}
      <4>1. generations'[id].objects = [generations[id].objects EXCEPT ![k] = None]
            /\ generations[id].objects \in [Members -> Contents \cup {None}]
        BY <1>1, <2>1, <3>3 DEF Directory
      <4> QED
        BY <4>1
    <3> QED
      BY <1>11, <3>1, <3>2, <3>3 DEF RemoveFile
  <2>5. DirectoriesMatchDigests'
    <3> SUFFICES ASSUME NEW i \in Ids, i \notin mixed, generations'[i] # None, NEW m \in Members
                 PROVE  generations'[i].objects[m] \in {i[m], None}
      BY <2>1 DEF DirectoriesMatchDigests
    <3>1. generations[i] # None /\ generations[i].objects[m] \in {i[m], None}
      BY <1>11, <2>1, <2>2 DEF RemoveFile, ContentInv, DirectoriesMatchDigests
    <3> QED
      BY <2>2, <2>4, <3>1
  <2>6. DirectoriesAreRestored'
    <3> SUFFICES ASSUME NEW o \in offers
                 PROVE  \/ Replacing(o.id) \/ o.id \in torn
                        \/ Whole(o.id)' /\ generations'[o.id].manifest >= o.sequence
      BY <2>1 DEF DirectoriesAreRestored, Replacing
    <3>1. CASE o.id = id
      BY <2>1, <3>1 DEF Replacing
    <3>2. CASE o.id # id
      BY <1>1, <2>2, <3>2 DEF ContentInv, DirectoriesAreRestored, Replacing, Whole, Offers
    <3> QED
      BY <3>1, <3>2
  <2>7. CopiesMatch(p)' /\ Released(p)'
    BY <1>1, <2>1 DEF CopiesMatch, Released
  <2> QED
    BY <1>4, <1>6, <2>3, <2>5, <2>6, <2>7 DEF ContentInv
<1>12. CASE ReleaseGeneration(p)
  <2> DEFINE d == [manifest |-> w.sequence, objects |-> w.staged]
  <2>1. /\ id \in Ids /\ w.staged \in Ids /\ w.sequence \in Sequences1 /\ w.step = "removing"
        /\ offers' = offers /\ replaced' = replaced /\ torn' = torn \ {id}
        /\ mixed' = mixed \cup (IF rewritten = {} THEN {} ELSE {id})
        /\ generations[id] = None
    BY <1>1, <1>12 DEF ReleaseGeneration, MarkRelease, Progress
  <2>2. /\ \A other \in Ids \ {id} : generations'[other] = generations[other]
        /\ generations'[id] = d
    BY <1>1, <1>12, <2>1 DEF ReleaseGeneration
  <2>3. /\ d # None /\ d.manifest = w.sequence /\ d.manifest # 0 /\ d.objects = w.staged
        /\ \A m \in Members : d.objects[m] # None
    BY <2>1, ReleasedIsWhole
  <2> HIDE DEF d
  <2>4. /\ generations'[id] # None /\ generations'[id].manifest = w.sequence
        /\ generations'[id].manifest # 0 /\ \A m \in Members : generations'[id].objects[m] # None
    BY <2>2, <2>3
  <2>5. OffersLeadHome'
    BY <1>1, <2>1, <2>2 DEF ContentInv, OffersLeadHome, Whole, Offers
  <2>6. DirectoriesMatchDigests'
    <3> SUFFICES ASSUME NEW i \in Ids, i \notin mixed', generations'[i] # None
                 PROVE  \A m \in Members : generations'[i].objects[m] \in {i[m], None}
      BY DEF DirectoriesMatchDigests
    <3>1. CASE i # id
      BY <2>1, <2>2, <3>1 DEF ContentInv, DirectoriesMatchDigests
    <3>2. CASE i = id
      BY <2>1, <2>2, <2>3, <3>2, CopiedIsHashed
    <3> QED
      BY <3>1, <3>2
  <2>7. DirectoriesAreRestored'
    <3> SUFFICES ASSUME NEW o \in offers
                 PROVE  \/ o.id \in torn'
                        \/ Whole(o.id)' /\ generations'[o.id].manifest >= o.sequence
      BY <2>1 DEF DirectoriesAreRestored
    <3>1. CASE o.id = id
      <4>1. o.sequence < w.sequence /\ o.sequence \in Nat /\ w.sequence \in Nat
        BY <1>1, <2>1 DEF ContentInv, StreamInv, SequenceIsFresh, Busy, Offers, Sequences1
      <4> QED
        BY <2>4, <3>1, <4>1 DEF Whole
    <3>2. CASE o.id # id
      <4>1. ~Replacing(o.id)
        BY <1>3, <3>2 DEF Replacing
      <4> QED
        BY <1>1, <2>1, <2>2, <3>2, <4>1
           DEF ContentInv, DirectoriesAreRestored, Replacing, Whole, Offers
    <3> QED
      BY <3>1, <3>2
  <2>8. /\ publisher'[p].step = "offering" /\ publisher'[p].digests = id
        /\ publisher'[p].sequence = w.sequence
    BY <1>1, <1>12 DEF ReleaseGeneration, Publisher
  <2>9. CopiesMatch(p)' /\ Released(p)'
    BY <2>4, <2>8 DEF CopiesMatch, Released, Whole
  <2> QED
    BY <1>4, <1>6, <2>5, <2>6, <2>7, <2>9 DEF ContentInv
<1>13. CASE ReleaseOffer(p)
  <2> DEFINE new == [sequence |-> w.sequence, id |-> id]
  <2>1. /\ offers' = offers \cup {new} /\ generations' = generations /\ UNCHANGED marks
        /\ Whole(new.id) /\ generations[new.id].manifest = new.sequence /\ new.sequence \in Nat
        /\ w.step = "offering" /\ publisher'[p].step = "idle"
    BY <1>1, <1>13
       DEF ReleaseOffer, Released, Progress, Sequences1, IdlePublisher, PublisherAt
  <2> HIDE DEF new
  <2>2. OffersLeadHome' /\ DirectoriesMatchDigests'
    BY <2>1 DEF ContentInv, OffersLeadHome, DirectoriesMatchDigests, Whole, marks
  <2>3. DirectoriesAreRestored'
    <3> SUFFICES ASSUME NEW o \in offers'
                 PROVE  o.id \in torn \/ (Whole(o.id) /\ generations[o.id].manifest >= o.sequence)
      BY <2>1 DEF DirectoriesAreRestored, marks, Whole
    <3>1. \A q \in Publishers : publisher[q].step # "removing"
      BY <1>3, <2>1
    <3> QED
      BY <2>1, <3>1 DEF ContentInv, DirectoriesAreRestored
  <2>4. CopiesMatch(p)' /\ Released(p)'
    BY <2>1 DEF CopiesMatch, Released
  <2> QED
    BY <1>4, <1>6, <2>2, <2>3, <2>4 DEF ContentInv
<1>14. CASE GivesUp(p)
  <2>1. publisher'[p].step = "idle"
    BY <1>1, <1>14 DEF GivesUp, IdlePublisher, PublisherAt
  <2>2. CopiesMatch(p)' /\ Released(p)'
    BY <2>1 DEF CopiesMatch, Released
  <2> QED
    BY <1>7, <1>14, <2>2 DEF GivesUp, files
<1> QED
  BY <1>8, <1>9, <1>10, <1>11, <1>12, <1>13, <1>14 DEF Publishes


\* A settled history gains one entry.
LEMMA SettlesWithCause ==
  ASSUME ContentInv, NEW c \in Consumers, NEW status \in {"consumed", "rejected"},
         consumer[c].step # "idle", Settles(c, status), consumer'[c].step = "idle",
         status = "rejected" => consumer[c].selected.id \in replaced \cup mixed,
         UNCHANGED <<offers, marks>>
  PROVE  ConsumesOffer(c)'
<1> DEFINE Entry == [sequence : Sequences1, status : {"consumed", "rejected"}]
           e == [sequence |-> consumer[c].selected.sequence, status |-> status]
<1>1. consumer[c].selected \in offers /\ consumer[c].selected \in Offers
  BY DEF ContentInv, ConsumesOffer, StreamInv, TypeInv, Consumed
<1>2. settled \in [Consumers -> Seq(Entry)]
  BY DEF ContentInv, StreamInv, TypeInv, TypeOK
<1>3. settled[c] \in Seq(Entry) /\ settled'[c] = Append(settled[c], e) /\ e \in Entry
  BY <1>1, <1>2 DEF Settles, Offers
<1>4. e.status = "rejected" => HasCause(e.sequence)
  BY <1>1 DEF HasCause
<1>5. \A i \in DOMAIN settled[c] :
        settled[c][i].status = "rejected" => HasCause(settled[c][i].sequence)
  BY DEF ContentInv, ConsumesOffer
<1> HIDE DEF e, Entry
<1>6. \A i \in DOMAIN settled'[c] :
        settled'[c][i].status = "rejected" => HasCause(settled'[c][i].sequence)
  BY <1>3, <1>4, <1>5
<1>7. \A n : HasCause(n) => HasCause(n)'
  BY DEF HasCause, marks
<1> QED
  BY <1>6, <1>7 DEF ConsumesOffer

\* The steps of a consumer.
LEMMA ContentConsumes ==
  ASSUME ContentInv, StreamInv', NEW c \in Consumers, Consumes(c)
  PROVE  ContentInv'
<1> DEFINE w == consumer[c]
           o == consumer[c].selected
<1>1. /\ consumer \in [Consumers -> Consumer] /\ ConsumesOffer(c) /\ w \in Consumer
      /\ settled \in [Consumers -> Seq([sequence : Sequences1, status : {"consumed", "rejected"}])]
      /\ Consumed(c) /\ UNCHANGED <<source, files, lock, publisher, marks>>
  BY DEF ContentInv, StreamInv, TypeInv, TypeOK, Consumes, Scan, ReadManifest, ResolveDirectory,
         CheckObject, LoadObject, LoadFails
<1>2. /\ \A p \in Publishers : CopiesMatch(p)' /\ Released(p)'
      /\ OffersLeadHome' /\ DirectoriesMatchDigests' /\ DirectoriesAreRestored'
  BY <1>1 DEF ContentInv, CopiesMatch, Released, OffersLeadHome, DirectoriesMatchDigests,
              DirectoriesAreRestored, Whole, files, marks
<1>3. \A d \in Consumers \ {c} : consumer'[d] = consumer[d] /\ settled'[d] = settled[d]
  BY <1>1 DEF Consumes, Scan, ReadManifest, ResolveDirectory, CheckObject, LoadObject,
              LoadFails, Rejects, Settles
<1>4. \A d \in Consumers \ {c} : ConsumesOffer(d)'
  BY <1>1, <1>3, ConsumerKept DEF ContentInv, files, marks
<1>5. ASSUME Rejects(c), w.step # "idle", o.id \in replaced \cup mixed
      PROVE  ConsumesOffer(c)'
  <2>1. consumer'[c].step = "idle"
    BY <1>1, <1>5 DEF Rejects, IdleConsumer, ConsumerAt
  <2>2. UNCHANGED <<offers, marks>>
    BY <1>1 DEF files
  <2> QED
    BY <1>5, <2>1, <2>2, SettlesWithCause DEF Rejects
<1>6. ASSUME settled' = settled, consumer'[c].selected = o, consumer'[c].loaded = w.loaded,
             w.step # "idle", consumer'[c].step = "fatal" => o.id \in replaced
      PROVE  ConsumesOffer(c)'
  BY <1>1, <1>6 DEF ConsumesOffer, HasCause, files, marks
<1>7. loads' = loads => LoadsAreVerified'
  BY <1>1 DEF ContentInv, LoadsAreVerified, marks
<1>8. ConsumesOffer(c)' /\ LoadsAreVerified'
  <2>1. CASE Scan(c)
    <3>1. PICK q \in Newer(c) : consumer' = [consumer EXCEPT ![c] = ConsumerAt("manifest", q)]
      BY <2>1 DEF Scan
    <3>2. /\ consumer'[c].step = "manifest" /\ consumer'[c].selected \in offers
          /\ consumer'[c].loaded = NoObjects
      BY <1>1, <3>1 DEF ConsumerAt, Newer
    <3>3. settled' = settled /\ UNCHANGED <<offers, marks>> /\ loads' = loads
      BY <1>1, <2>1 DEF Scan, files
    <3> QED
      BY <1>1, <1>7, <3>2, <3>3 DEF ConsumesOffer, HasCause, NoObjects, marks
  <2>2. CASE ReadManifest(c)
    <3>1. CASE Rejects(c) /\ ~(Opened(c) # None /\ Opened(c).manifest = o.sequence)
      BY <1>5, <1>7, <2>2, <3>1, OpenedIsOffered DEF ReadManifest
    <3>2. CASE consumer' = [consumer EXCEPT ![c].step = "directory"] /\ settled' = settled
      BY <1>1, <1>6, <1>7, <2>2, <3>2 DEF ReadManifest, Consumer
    <3> QED
      BY <2>2, <3>1, <3>2 DEF ReadManifest
  <2>3. CASE ResolveDirectory(c)
    <3>1. /\ settled' = settled /\ loads' = loads /\ w.step # "idle"
          /\ consumer'[c].selected = o /\ consumer'[c].loaded = w.loaded
          /\ consumer'[c].step = IF Opened(c) = None THEN "fatal" ELSE "checking"
      BY <1>1, <2>3 DEF ResolveDirectory, Consumer
    <3>2. consumer'[c].step = "fatal" => o.id \in replaced
      BY <3>1, OpenedIsOffered
    <3> QED
      BY <1>6, <1>7, <3>1, <3>2
  <2>4. CASE CheckObject(c)
    <3>1. CASE ~MatchesDigest(c)
      BY <1>5, <1>7, <2>4, <3>1, OpenedIsOffered DEF CheckObject
    <3>2. CASE MatchesDigest(c)
      <4>1. /\ settled' = settled /\ loads' = loads /\ w.step # "idle"
            /\ consumer'[c].selected = o /\ consumer'[c].loaded = w.loaded
            /\ consumer'[c].step \in {"checking", "loading"}
        BY <1>1, <2>4, <3>2 DEF CheckObject, Consumer
      <4> QED
        BY <1>6, <1>7, <4>1
    <3> QED
      BY <3>1, <3>2
  <2>5. CASE LoadObject(c)
    <3> DEFINE m == consumer[c].member
               id == consumer[c].selected.id
               loaded == [consumer[c].loaded EXCEPT ![m] = OpenedObject(c)]
    <3>1. /\ w.loaded \in [Members -> Contents \cup {None}] /\ m \in Members
          /\ w.step = "loading" /\ id \in Ids /\ o \in offers
          /\ id \in mixed \/ OpenedObject(c) = id[m]
      BY <1>1, <2>5, OpenedIsOffered DEF LoadObject, Consumer, Consumed, Offers
    <3>2. id \in mixed \/ \A k \in Members : loaded[k] \in {None, id[k]}
      BY <1>1, <3>1 DEF ConsumesOffer
    <3>3. CASE LastMember(c)
      <4>1. loads' = loads \cup {[id |-> id, contents |-> loaded]}
        BY <2>5, <3>3 DEF LoadObject
      <4>2. \A k \in Members : loaded[k] # None
        <5> SUFFICES ASSUME NEW k \in Members PROVE loaded[k] # None
          OBVIOUS
        <5>1. CASE k = m
          BY <3>1, <5>1, <2>5 DEF LoadObject
        <5>2. CASE k # m
          <6>1. k \in 1..(m - 1)
            BY <3>3, <5>2, CountsArePositive DEF LastMember, Members
          <6> QED
            BY <1>1, <3>1, <5>2, <6>1 DEF Consumed
        <5> QED
          BY <5>1, <5>2
      <4>3. id \in mixed \/ loaded = id
        <5>1. DOMAIN loaded = Members /\ loaded = [k \in Members |-> loaded[k]]
          BY <3>1
        <5> HIDE DEF loaded
        <5>2. id \in mixed \/ \A k \in Members : loaded[k] = id[k]
          BY <3>2, <4>2
        <5>3. id = [k \in Members |-> id[k]]
          BY <3>1 DEF Ids
        <5> QED
          BY <5>1, <5>2, <5>3
      <4>4. LoadsAreVerified'
        <5> HIDE DEF loaded
        <5>1. mixed' = mixed /\ LoadsAreVerified
          BY <1>1 DEF ContentInv, marks
        <5> QED
          BY <4>1, <4>3, <5>1 DEF LoadsAreVerified
      <4>5. consumer'[c].step = "idle" /\ Settles(c, "consumed") /\ UNCHANGED <<offers, marks>>
        BY <1>1, <2>5, <3>3 DEF LoadObject, IdleConsumer, ConsumerAt, files
      <4> QED
        BY <3>1, <4>4, <4>5, SettlesWithCause
    <3>4. CASE ~LastMember(c)
      <4>1. /\ consumer'[c].loaded = loaded /\ consumer'[c].selected = o
            /\ consumer'[c].step = "loading" /\ settled' = settled /\ loads' = loads
            /\ UNCHANGED <<offers, marks>>
        BY <1>1, <2>5, <3>1, <3>4 DEF LoadObject, Consumer, files
      <4> HIDE DEF loaded
      <4> QED
        <5>1. \A n : HasCause(n) => HasCause(n)'
          BY <4>1 DEF HasCause, marks
        <5>2. id \in mixed' \/ \A k \in Members : consumer'[c].loaded[k] \in {None, id[k]}
          BY <3>2, <4>1 DEF marks
        <5> QED
          BY <1>1, <1>7, <3>1, <4>1, <5>1, <5>2 DEF ConsumesOffer
    <3> QED
      BY <3>3, <3>4
  <2>6. CASE LoadFails(c)
    BY <1>5, <1>7, <2>6, OpenedIsOffered DEF LoadFails
  <2> QED
    BY <2>1, <2>2, <2>3, <2>4, <2>5, <2>6 DEF Consumes
<1> QED
  BY <1>2, <1>4, <1>8 DEF ContentInv

\* A rewritten object is one whose copy no longer has to match.
LEMMA ContentRebuild ==
  ASSUME ContentInv, StreamInv', NEW m \in Members, NEW content \in Contents \cup {None},
         Rebuild(m, content)
  PROVE  ContentInv'
<1>1. /\ source' = [source EXCEPT ![m] = content] /\ source \in [Members -> Contents \cup {None}]
      /\ rewritten' = rewritten \cup ({m} \cap HashedOnly)
      /\ UNCHANGED <<files, lock, publisher, consumer, cursor, settled, loads, mixed, replaced, torn>>
  BY DEF Rebuild, ContentInv, StreamInv, TypeInv, TypeOK
<1>2. ASSUME NEW p \in Publishers PROVE CopiesMatch(p)'
  <2> DEFINE w == publisher[p]
  <2>1. CopiesMatch(p) /\ Progress(p)
    BY DEF ContentInv, StreamInv, TypeInv
  <2>2. ASSUME w.step \in {"reading", "staging", "removing"}, NEW k \in Members \ rewritten'
        PROVE  /\ w.staged[k] = None => w.digests[k] \in {None, source'[k]}
               /\ w.staged[k] # None => w.staged[k] = w.digests[k]
    <3>1. /\ w.staged[k] = None => w.digests[k] \in {None, source[k]}
          /\ w.staged[k] # None => w.staged[k] = w.digests[k]
      BY <1>1, <2>1, <2>2 DEF CopiesMatch
    <3>2. CASE k # m
      BY <1>1, <3>1, <3>2
    <3>3. CASE k = m
      <4>1. m \notin HashedOnly
        BY <1>1, <2>2, <3>3
      <4>2. w.step = "removing" => w.staged[m] # None
        BY <2>1, NoneIsNoContent DEF Progress, Ids
      <4> QED
        BY <2>2, <3>1, <3>3, <4>1, <4>2 DEF HashedOnly
    <3> QED
      BY <3>2, <3>3
  <2> QED
    BY <1>1, <2>1, <2>2 DEF CopiesMatch
<1>3. \A p \in Publishers : Released(p)'
  BY <1>1 DEF ContentInv, Released, Whole, files
<1>4. OffersLeadHome' /\ DirectoriesMatchDigests' /\ DirectoriesAreRestored'
  BY <1>1 DEF ContentInv, OffersLeadHome, DirectoriesMatchDigests, DirectoriesAreRestored, Whole, files
<1>5. (\A c \in Consumers : ConsumesOffer(c)') /\ LoadsAreVerified'
  BY <1>1 DEF ContentInv, ConsumesOffer, HasCause, LoadsAreVerified, files
<1> QED
  BY <1>2, <1>3, <1>4, <1>5 DEF ContentInv

\* Every step keeps what directories hold and who may change it.
LEMMA ContentStep == ContentInv /\ [Next]_vars => ContentInv'
<1> SUFFICES ASSUME ContentInv, [Next]_vars PROVE ContentInv'
  OBVIOUS
<1>1. StreamInv'
  BY StreamStep DEF ContentInv
<1>2. CASE UNCHANGED vars
  BY <1>1, <1>2 DEF vars, files, marks, ContentInv, CopiesMatch, Released, OffersLeadHome,
       DirectoriesMatchDigests, DirectoriesAreRestored, Whole, ConsumesOffer, HasCause,
       LoadsAreVerified
<1> QED
  BY <1>1, <1>2, ContentPublishes, ContentConsumes, ContentRebuild DEF Next

\* Whatever the build, dying publishers and republications do, an offer leads
\* home until its directory is replaced, and no directory holds anything but
\* what its id hashes unless an object was rewritten under the publication
\* that wrote it (publisher.cpp:96-147).
THEOREM OffersAreSoundAlways == Spec => []OffersAreSound
<1>1. ContentInv => OffersAreSound
  BY DEF ContentInv, OffersAreSound
<1> QED
  BY <1>1, ContentInit, ContentStep, PTL DEF Spec

\* A publication that replaces a directory on offer leaves a whole one of the
\* same or a later sequence, unless it dies on the way (publisher.cpp:142-147).
THEOREM DirectoriesAreRestoredAlways == Spec => []DirectoriesAreRestored
<1>1. ContentInv => DirectoriesAreRestored
  BY DEF ContentInv
<1> QED
  BY <1>1, ContentInit, ContentStep, PTL DEF Spec

\* What a worker takes up is loaded, and loaded as it was published, even while
\* its directory is being replaced: a rewritten object is the only way to load
\* anything else, and one of the two the only reason to reject or to throw.
THEOREM OffersAreConsumedAlways == Spec => []OffersAreConsumed
<1>1. ContentInv => OffersAreConsumed
  BY DEF ContentInv, ConsumesOffer, HasCause, OffersAreConsumed, ThrowsOnReplacement,
         RejectionsHaveACause
<1> QED
  BY <1>1, ContentInit, ContentStep, PTL DEF Spec
=============================================================================
