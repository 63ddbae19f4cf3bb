------------------------- MODULE WasmSessionProofs -------------------------
(***************************************************************************)
(* Proofs about WasmSession, for any groups, publishers, contents and      *)
(* bounds: what the publishers promise the pages, what a session promises  *)
(* its host about the order of events, and what it promises running code   *)
(* about the modules it was activated from.                                *)
(***************************************************************************)
EXTENDS WasmSession, TLAPS

-----------------------------------------------------------------------------
(* The inductive invariants. *)

\* A publisher at work holds the lock of its stream: of what it found there it
\* is the only one to change anything.
LockIsHeld ==
  \A p \in Publishers : publisher[p].step # "idle" => lock[publisher[p].group] = p

\* The sequence it allocated stays past every artifact until it has added its
\* own, and past the present manifest until it has replaced it.
FreshFor(p) ==
  /\ publisher[p].step = "locked" =>
       \A a \in artifacts[publisher[p].group] : a.sequence < publisher[p].sequence
  /\ publisher[p].step = "staged" =>
       /\ Offered(p) \in artifacts[publisher[p].group]
       /\ latest[publisher[p].group] # None =>
            latest[publisher[p].group].sequence < publisher[p].sequence

AllocationIsFresh == \A p \in Publishers : FreshFor(p)

\* The manifest names a module that was released.
LatestIsReleased ==
  \A g \in Groups : latest[g] # None => latest[g] \in artifacts[g]

PublicationInv == LockIsHeld /\ AllocationIsFresh /\ LatestIsReleased

\* Events are of sessions up to this one; those of this one are of offers up to
\* the accepted one, which is reported if one of them is of it.
EventsArePast ==
  \A g \in Groups : \A i \in 1..Len(told[g]) :
    /\ told[g][i].image.group = g
    /\ told[g][i].image.session <= session
    /\ told[g][i].image.session = session =>
         /\ last[g] # None
         /\ told[g][i].image.offer.sequence <= last[g].sequence
         /\ told[g][i].image.offer.sequence = last[g].sequence => reported[g] = last[g].id

\* What is still loading or ready has not been activated before.
PendingIsFresh ==
  \A g \in Groups :
    pending[g] # None /\ pending[g].status \in {"loading", "ready"}
      => pending[g].image \notin Applied(g)

\* The PLT leads to a module that was activated.
PltIsApplied ==
  \A g \in Groups : plt[g] # None => plt[g] \in Applied(g)

SessionInv ==
  /\ PendingIsItsOwn
  /\ EventsArePast
  /\ PendingIsFresh
  /\ PltIsApplied
  /\ EventsFollowTheStream
  /\ CodeStaysMapped

-----------------------------------------------------------------------------
(* Type correctness. *)

\* The initial values have their types.
LEMMA TypeInit == Init => TypeOK
<1> SUFFICES ASSUME Init PROVE TypeOK
  OBVIOUS
<1>1. publisher \in [Publishers -> PublisherState]
  BY BoundsAreNatural DEF Init, PublisherState, Idle
<1>2. told \in [Groups -> Seq([image : Images, status : {"applied", "rejected"}])]
  BY DEF Init
<1>3. enabled \in [Groups -> BOOLEAN] /\ fetching \in [Groups -> BOOLEAN] /\ open \in BOOLEAN
  BY DEF Init
<1>4. session \in 0..MaxSessions
  BY BoundsAreNatural DEF Init
<1>5. /\ tick \in [Groups -> {"none", "live", "stale"}]
      /\ fetches = {} /\ loads = {} /\ mapped = {}
  BY DEF Init
<1>6. /\ artifacts \in [Groups -> SUBSET Offers] /\ served \in [Groups -> SUBSET Offers]
      /\ latest \in [Groups -> Offers \cup {None}] /\ last \in [Groups -> Offers \cup {None}]
      /\ lock \in [Groups -> Publishers \cup {None}]
      /\ pending \in [Groups -> Candidate \cup {None}]
      /\ reported \in [Groups -> Contents \cup {None}]
      /\ plt \in [Groups -> Images \cup {None}]
  BY DEF Init
<1> QED
  BY <1>1, <1>2, <1>3, <1>4, <1>5, <1>6 DEF TypeOK

\* A publisher at work is going to offer something.
LEMMA OfferedType ==
  ASSUME TypeOK, NEW p \in Publishers, publisher[p].step # "idle"
  PROVE  publisher[p].group \in Groups /\ Offered(p) \in Offers
BY DEF TypeOK, PublisherState, Offered, Offers

\* Publishers keep the types.
LEMMA TypePublishes ==
  ASSUME TypeOK, NEW p \in Publishers, Publishes(p)
  PROVE  TypeOK'
<1> USE DEF observer, poller, active
<1>1. Unlocked(p) \in [Groups -> Publishers \cup {None}]
  BY DEF TypeOK, Unlocked
<1>2. publisher[p].group \in Groups
  BY DEF TypeOK, PublisherState
<1>3. Idle(publisher[p].group) \in PublisherState
  BY <1>2 DEF Idle, PublisherState
<1>4. ASSUME NEW g \in Groups, NEW content \in Contents, TakeLock(p, g, content)
      PROVE  TypeOK'
  <2>1. PICK n \in NextSequence(g) : publisher' = [publisher EXCEPT ![p] =
          [step |-> "locked", group |-> g, sequence |-> n, id |-> content]]
    BY <1>4 DEF TakeLock
  <2>2. [step |-> "locked", group |-> g, sequence |-> n, id |-> content] \in PublisherState
    BY DEF NextSequence, PublisherState
  <2>3. publisher' \in [Publishers -> PublisherState]
    BY <2>1, <2>2 DEF TypeOK
  <2>4. lock' \in [Groups -> Publishers \cup {None}]
    BY <1>4 DEF TakeLock, TypeOK
  <2> QED
    BY <1>4, <2>3, <2>4 DEF TakeLock, TypeOK
<1>5. CASE ReleaseArtifact(p)
  <2>1. publisher' \in [Publishers -> PublisherState]
    <3> DEFINE Busy == [step : {"locked", "staged"}, group : Groups,
                        sequence : 1..MaxSequence, id : Contents]
    <3>1. publisher[p] \in Busy
      BY <1>5 DEF ReleaseArtifact, TypeOK, PublisherState
    <3>2. [publisher[p] EXCEPT !.step = "staged"] \in Busy
      BY <3>1
    <3> QED
      BY <1>5, <3>2 DEF ReleaseArtifact, TypeOK, PublisherState
  <2>2. artifacts' \in [Groups -> SUBSET Offers]
    BY <1>2, <1>5, OfferedType DEF ReleaseArtifact, TypeOK
  <2> QED
    BY <1>5, <2>1, <2>2 DEF ReleaseArtifact, TypeOK
<1>6. CASE ReplaceManifest(p)
  <2>1. Offered(p) \in Offers
    BY <1>6, OfferedType DEF ReplaceManifest
  <2>2. latest' \in [Groups -> Offers \cup {None}] /\ served' \in [Groups -> SUBSET Offers]
    BY <1>6, <2>1 DEF ReplaceManifest, TypeOK
  <2>3. publisher' \in [Publishers -> PublisherState]
    BY <1>3, <1>6 DEF ReplaceManifest, TypeOK
  <2> QED
    BY <1>1, <1>6, <2>2, <2>3 DEF ReplaceManifest, TypeOK
<1>7. CASE GivesUp(p)
  <2>1. publisher' \in [Publishers -> PublisherState]
    BY <1>3, <1>7 DEF GivesUp, TypeOK
  <2> QED
    BY <1>1, <1>7, <2>1 DEF GivesUp, TypeOK
<1> QED
  BY <1>4, <1>5, <1>6, <1>7 DEF Publishes

\* Timer callbacks and the fetches they start have their types.
LEMMA TypeTimer ==
  ASSUME TypeOK, NEW g \in Groups, TimerFires(g) \/ Tick(g)
  PROVE  TypeOK'
<1> USE DEF server, poller, active
<1>1. CASE TimerFires(g)
  BY <1>1 DEF TimerFires, TypeOK
<1>2. CASE Tick(g)
  <2>1. fetching' \in [Groups -> BOOLEAN]
    BY <1>2 DEF Tick, Polls, TypeOK
  <2>2. fetches' \subseteq [group : Groups, session : 0..MaxSessions, text : Offers \cup {None}]
    BY <1>2 DEF Tick, Polls, TypeOK
  <2>3. tick' \in [Groups -> {"none", "live", "stale"}]
    BY <1>2 DEF Tick, TypeOK
  <2> QED
    BY <1>2, <2>1, <2>2, <2>3 DEF Tick, TypeOK
<1> QED
  BY <1>1, <1>2

\* Completions of fetches keep the types.
LEMMA TypeFetch ==
  ASSUME TypeOK, NEW f \in fetches,
         FetchFails(f) \/ ManifestArrives(f) \/ \E o \in Offers : FetchReads(f, o)
  PROVE  TypeOK'
<1> USE DEF server, observer, active
<1>1. f \in [group : Groups, session : 0..MaxSessions, text : Offers \cup {None}]
  BY DEF TypeOK
<1>2. CASE FetchFails(f)
  <2>1. fetching' \in [Groups -> BOOLEAN]
    BY <1>2 DEF FetchFails, TypeOK
  <2> QED
    BY <1>2, <2>1 DEF FetchFails, TypeOK
<1>3. ASSUME NEW o \in Offers, FetchReads(f, o) PROVE TypeOK'
  <2>1. [f EXCEPT !.text = o] \in [group : Groups, session : 0..MaxSessions, text : Offers \cup {None}]
    BY <1>1
  <2> QED
    BY <1>3, <2>1 DEF FetchReads, TypeOK
<1>4. CASE ManifestArrives(f)
  <2> DEFINE image == [group |-> f.group, session |-> session, offer |-> f.text]
  <2>1. f.text \in Offers /\ image \in Images
    BY <1>1, <1>4 DEF ManifestArrives, Images, TypeOK
  <2>2. [image |-> image, status |-> "loading"] \in Candidate
        /\ [image |-> image, status |-> "rejected"] \in Candidate
    BY <2>1 DEF Candidate
  <2>3. fetching' \in [Groups -> BOOLEAN]
    BY <1>4 DEF ManifestArrives, TypeOK
  <2>4. last' \in [Groups -> Offers \cup {None}]
    BY <1>4, <2>1 DEF ManifestArrives, TypeOK
  <2>5. pending' \in [Groups -> Candidate \cup {None}]
    <3> DEFINE candidate == [image |-> image,
                 status |-> IF f.text.id \notin Incompatible THEN "loading" ELSE "rejected"]
    <3>1. pending' \in {pending, [pending EXCEPT ![f.group] = candidate]}
      BY <1>4 DEF ManifestArrives
    <3>2. candidate \in Candidate
      BY <2>2
    <3> HIDE DEF candidate
    <3> QED
      BY <3>1, <3>2 DEF TypeOK
  <2>6. loads' \subseteq Images /\ mapped' \subseteq Images
    BY <1>4, <2>1 DEF ManifestArrives, TypeOK
  <2> QED
    BY <1>4, <2>3, <2>4, <2>5, <2>6 DEF ManifestArrives, TypeOK
<1> QED
  BY <1>2, <1>3, <1>4

\* Completions of module loads keep the types.
LEMMA TypeLoad ==
  ASSUME TypeOK, NEW l \in loads, LoadSucceeds(l) \/ LoadFails(l)
  PROVE  TypeOK'
<1> USE DEF server, observer, active
<1>1. l \in Images
  BY DEF TypeOK
<1>2. [image |-> l, status |-> "ready"] \in Candidate
  BY <1>1 DEF Candidate
<1>3. Awaited(l) => [pending[l.group] EXCEPT !.status = "rejected"] \in Candidate
  <2> SUFFICES ASSUME Awaited(l) PROVE [pending[l.group] EXCEPT !.status = "rejected"] \in Candidate
    OBVIOUS
  <2>1. pending[l.group] \in Candidate
    BY <1>1 DEF Awaited, TypeOK, Images
  <2> QED
    BY <2>1 DEF Candidate
<1>4. CASE LoadSucceeds(l)
  <2>1. pending' \in [Groups -> Candidate \cup {None}]
    BY <1>2, <1>4 DEF LoadSucceeds, TypeOK
  <2> QED
    BY <1>1, <1>4, <2>1 DEF LoadSucceeds, TypeOK
<1>5. CASE LoadFails(l)
  <2> DEFINE rejected == [pending[l.group] EXCEPT !.status = "rejected"]
  <2>1. pending' \in [Groups -> Candidate \cup {None}]
    <3>1. CASE Awaited(l)
      <4>1. pending' = [pending EXCEPT ![l.group] = rejected]
        BY <1>5, <3>1 DEF LoadFails
      <4>2. rejected \in Candidate
        BY <1>3, <3>1
      <4> HIDE DEF rejected
      <4> QED
        BY <4>1, <4>2 DEF TypeOK
    <3>2. CASE ~Awaited(l)
      BY <1>5, <3>2 DEF LoadFails, TypeOK
    <3> QED
      BY <3>1, <3>2
  <2> QED
    BY <1>5, <2>1 DEF LoadFails, TypeOK
<1> QED
  BY <1>4, <1>5

\* What update() consumes is a candidate of an accepted offer.
LEMMA ConsumableType ==
  ASSUME TypeOK, NEW g \in Groups, Consumable(g)
  PROVE  pending[g] \in Candidate
BY DEF Consumable, TypeOK

\* The calls of the application keep the types.
LEMMA TypeCalls == ASSUME TypeOK, Calls PROVE TypeOK'
<1> USE DEF server, observer, poller, active
<1>1. ASSUME NEW g \in Groups, Watch(g) \/ Unwatch(g) PROVE TypeOK'
  <2>1. enabled' \in [Groups -> BOOLEAN]
    BY <1>1 DEF Watch, Unwatch, TypeOK
  <2>2. tick' \in [Groups -> {"none", "live", "stale"}]
    BY <1>1 DEF Watch, Unwatch, Staled, TypeOK
  <2> QED
    BY <1>1, <2>1, <2>2 DEF Watch, Unwatch, TypeOK
<1>2. CASE Update
  <2>1. pending' \in [Groups -> Candidate \cup {None}]
    <3>1. \A g \in Groups : Activates(g) => [pending[g] EXCEPT !.status = "activated"] \in Candidate
      BY ConsumableType DEF Activates, Candidate
    <3> QED
      BY <1>2, <3>1 DEF Update, TypeOK
  <2>2. plt' \in [Groups -> Images \cup {None}]
    BY <1>2, ConsumableType DEF Update, Activates, Candidate, TypeOK
  <2>3. told' \in [Groups -> Seq([image : Images, status : {"applied", "rejected"}])]
    <3> DEFINE Event == [image : Images, status : {"applied", "rejected"}]
               event(g) == [image |-> pending[g].image,
                            status |-> IF Activates(g) THEN "applied" ELSE "rejected"]
    <3>1. \A g \in Groups : Consumable(g) => event(g) \in Event
      BY ConsumableType DEF Candidate
    <3>2. told' = [g \in Groups |-> IF Consumable(g) THEN Append(told[g], event(g)) ELSE told[g]]
      BY <1>2 DEF Update
    <3>3. told \in [Groups -> Seq(Event)]
      BY DEF TypeOK
    <3> HIDE DEF Event, event
    <3>4. \A g \in Groups : Consumable(g) => Append(told[g], event(g)) \in Seq(Event)
      BY <3>1, <3>3
    <3>5. told' \in [Groups -> Seq(Event)]
      BY <3>2, <3>3, <3>4
    <3> QED
      BY <3>5 DEF Event
  <2>4. reported' \in [Groups -> Contents \cup {None}]
    <3>1. \A g \in Groups : Consumable(g) => last[g].id \in Contents \cup {None}
      BY DEF Consumable, TypeOK, Offers
    <3> QED
      BY <1>2, <3>1 DEF Update, TypeOK
  <2> QED
    BY <1>2, <2>1, <2>2, <2>3, <2>4 DEF Update, TypeOK
<1>3. CASE Destroy
  <2>1. enabled' \in [Groups -> BOOLEAN] /\ open' \in BOOLEAN
    BY <1>3 DEF Destroy
  <2>2. tick' \in [Groups -> {"none", "live", "stale"}]
    BY <1>3 DEF Destroy, Staled, TypeOK
  <2> QED
    BY <1>3, <2>1, <2>2 DEF Destroy, TypeOK
<1>4. CASE Create
  <2>1. fetching' \in [Groups -> BOOLEAN] /\ open' \in BOOLEAN
    BY <1>4 DEF Create
  <2>2. session' \in 0..MaxSessions
    BY <1>4, BoundsAreNatural DEF Create, TypeOK
  <2> QED
    BY <1>4, <2>1, <2>2 DEF Create, TypeOK
<1> QED
  BY <1>1, <1>2, <1>3, <1>4 DEF Calls

\* Every step keeps the types.
LEMMA TypeStep == ASSUME TypeOK, [Next]_vars PROVE TypeOK'
<1>1. CASE UNCHANGED vars
  BY <1>1 DEF vars, server, observer, poller, active, TypeOK
<1>2. CASE Completes
  BY <1>2, TypeFetch, TypeLoad DEF Completes
<1> QED
  BY <1>1, <1>2, TypePublishes, TypeTimer, TypeCalls DEF Next

\* Every variable keeps its type, whatever completes when.
THEOREM TypeCorrect == Spec => []TypeOK
<1>1. TypeOK /\ [Next]_vars => TypeOK'
  BY TypeStep
<1> QED
  BY TypeInit, <1>1, PTL DEF Spec

-----------------------------------------------------------------------------
(* Publications increase. *)

\* Two publishers at work are in different streams.
LEMMA Exclusive ==
  ASSUME LockIsHeld, NEW p \in Publishers, NEW q \in Publishers, p # q,
         publisher[p].step # "idle", publisher[q].step # "idle"
  PROVE  publisher[p].group # publisher[q].group
BY DEF LockIsHeld

\* Unlocking takes nobody else's lock away.
LEMMA UnlockKeeps ==
  ASSUME TypeOK, LockIsHeld, NEW p \in Publishers,
         lock' = Unlocked(p), publisher' = [publisher EXCEPT ![p] = Idle(publisher[p].group)]
  PROVE  LockIsHeld'
<1> SUFFICES ASSUME NEW q \in Publishers, publisher'[q].step # "idle"
             PROVE  lock'[publisher'[q].group] = q
  BY DEF LockIsHeld
<1>1. q # p /\ publisher'[q] = publisher[q]
  BY DEF Idle, TypeOK
<1>2. lock[publisher[q].group] = q /\ publisher[q].group \in Groups
  BY <1>1 DEF LockIsHeld, TypeOK, PublisherState
<1> QED
  BY <1>1, <1>2 DEF Unlocked

\* A publisher's steps keep the invariant of publication.
LEMMA PublicationSteps ==
  ASSUME TypeOK, PublicationInv, NEW p \in Publishers, Publishes(p)
  PROVE  PublicationInv'
<1> USE DEF PublicationInv, FreshFor
<1>1. ASSUME NEW g \in Groups, NEW content \in Contents, TakeLock(p, g, content)
      PROVE  PublicationInv'
  <2>1. PICK n \in NextSequence(g) : publisher' = [publisher EXCEPT ![p] =
          [step |-> "locked", group |-> g, sequence |-> n, id |-> content]]
    BY <1>1 DEF TakeLock
  <2>2. \A a \in artifacts[g] : a.sequence < n
    BY DEF NextSequence
  <2>3. /\ publisher'[p] = [step |-> "locked", group |-> g, sequence |-> n, id |-> content]
        /\ \A q \in Publishers \ {p} : publisher'[q] = publisher[q]
    BY <2>1 DEF TypeOK
  <2>4. artifacts' = artifacts /\ latest' = latest
    BY <1>1 DEF TakeLock
  <2>5. LockIsHeld'
    <3> SUFFICES ASSUME NEW q \in Publishers, publisher'[q].step # "idle"
                 PROVE  lock'[publisher'[q].group] = q
      BY DEF LockIsHeld
    <3>1. CASE q = p
      BY <1>1, <2>3, <3>1 DEF TakeLock, TypeOK
    <3>2. CASE q # p
      <4>1. lock[publisher[q].group] = q /\ publisher[q].group \in Groups
        BY <2>3, <3>2 DEF LockIsHeld, TypeOK, PublisherState
      <4>2. publisher[q].group # g
        BY <1>1, <4>1, NoneIsNothing DEF TakeLock
      <4> QED
        BY <1>1, <2>3, <3>2, <4>1, <4>2 DEF TakeLock, TypeOK
    <3> QED
      BY <3>1, <3>2
  <2>6. AllocationIsFresh'
    <3> SUFFICES ASSUME NEW q \in Publishers PROVE FreshFor(q)'
      BY DEF AllocationIsFresh
    <3>1. CASE q = p
      BY <2>2, <2>3, <2>4, <3>1
    <3>2. CASE q # p
      BY <2>3, <2>4, <3>2 DEF AllocationIsFresh, Offered
    <3> QED
      BY <3>1, <3>2
  <2>7. LatestIsReleased'
    BY <2>4 DEF LatestIsReleased
  <2> QED
    BY <2>5, <2>6, <2>7
<1>2. CASE ReleaseArtifact(p)
  <2> DEFINE g == publisher[p].group
  <2>1. /\ publisher'[p] = [publisher[p] EXCEPT !.step = "staged"]
        /\ \A q \in Publishers \ {p} : publisher'[q] = publisher[q]
    BY <1>2 DEF ReleaseArtifact, TypeOK
  <2>2. g \in Groups /\ Offered(p) \in Offers
    BY <1>2, OfferedType DEF ReleaseArtifact
  <2>3. /\ artifacts'[g] = artifacts[g] \cup {Offered(p)}
        /\ \A h \in Groups \ {g} : artifacts'[h] = artifacts[h]
        /\ latest' = latest /\ lock' = lock
    BY <1>2, <2>2 DEF ReleaseArtifact, TypeOK
  <2>4. Offered(p)' = Offered(p) /\ publisher'[p].group = g /\ publisher'[p].step = "staged"
        /\ publisher'[p].sequence = publisher[p].sequence
    BY <2>1 DEF Offered, TypeOK, PublisherState
  <2>5. LockIsHeld'
    <3> SUFFICES ASSUME NEW q \in Publishers, publisher'[q].step # "idle"
                 PROVE  lock'[publisher'[q].group] = q
      BY DEF LockIsHeld
    <3> QED
      BY <1>2, <2>1, <2>3, <2>4 DEF LockIsHeld, ReleaseArtifact
  <2>6. AllocationIsFresh'
    <3> SUFFICES ASSUME NEW q \in Publishers PROVE FreshFor(q)'
      BY DEF AllocationIsFresh
    <3>1. CASE q = p
      <4>1. latest[g] # None => latest[g].sequence < publisher[p].sequence
        BY <1>2, <2>2 DEF LatestIsReleased, AllocationIsFresh, ReleaseArtifact
      <4> QED
        BY <2>3, <2>4, <3>1, <4>1
    <3>2. CASE q # p
      <4>1. CASE publisher[q].step # "idle"
        <5>1. publisher[q].group # g /\ publisher[q].group \in Groups
          BY <1>2, <3>2, <4>1, Exclusive DEF ReleaseArtifact, TypeOK, PublisherState
        <5> QED
          BY <2>1, <2>3, <3>2, <5>1 DEF AllocationIsFresh, Offered
      <4> QED
        BY <2>1, <3>2, <4>1
    <3> QED
      BY <3>1, <3>2
  <2>7. LatestIsReleased'
    BY <2>2, <2>3 DEF LatestIsReleased
  <2> QED
    BY <2>5, <2>6, <2>7
<1>3. CASE ReplaceManifest(p)
  <2> DEFINE g == publisher[p].group
  <2>1. LockIsHeld'
    BY <1>3, UnlockKeeps DEF ReplaceManifest
  <2>2. /\ publisher'[p].step = "idle"
        /\ \A q \in Publishers \ {p} : publisher'[q] = publisher[q]
    BY <1>3 DEF ReplaceManifest, TypeOK, Idle
  <2>3. /\ g \in Groups /\ latest'[g] = Offered(p) /\ artifacts' = artifacts
        /\ \A h \in Groups \ {g} : latest'[h] = latest[h]
    BY <1>3 DEF ReplaceManifest, TypeOK, PublisherState
  <2>4. AllocationIsFresh'
    <3> SUFFICES ASSUME NEW q \in Publishers \ {p}, publisher[q].step # "idle"
                 PROVE FreshFor(q)'
      BY <2>2 DEF AllocationIsFresh
    <3>1. publisher[q].group # g /\ publisher[q].group \in Groups
      BY <1>3, Exclusive DEF ReplaceManifest, TypeOK, PublisherState
    <3> QED
      BY <2>2, <2>3, <3>1 DEF AllocationIsFresh, Offered
  <2>5. LatestIsReleased'
    BY <1>3, <2>3 DEF LatestIsReleased, AllocationIsFresh, ReplaceManifest
  <2> QED
    BY <2>1, <2>4, <2>5
<1>4. CASE GivesUp(p)
  <2>1. LockIsHeld'
    BY <1>4, UnlockKeeps DEF GivesUp
  <2>2. /\ publisher'[p].step = "idle"
        /\ \A q \in Publishers \ {p} : publisher'[q] = publisher[q]
        /\ artifacts' = artifacts /\ latest' = latest
    BY <1>4 DEF GivesUp, TypeOK, Idle
  <2> QED
    BY <2>1, <2>2 DEF AllocationIsFresh, LatestIsReleased, Offered
<1> QED
  BY <1>1, <1>2, <1>3, <1>4 DEF Publishes

\* The page has no part in publication.
LEMMA PublicationKept ==
  ASSUME PublicationInv, UNCHANGED server
  PROVE  PublicationInv'
BY DEF server, PublicationInv, LockIsHeld, AllocationIsFresh, FreshFor, LatestIsReleased, Offered

\* Every step is one of a publisher or leaves the server alone.
LEMMA ServerSteps ==
  ASSUME [Next]_vars
  PROVE  UNCHANGED server \/ \E p \in Publishers : Publishes(p)
<1>1. CASE UNCHANGED vars
  BY <1>1 DEF vars
<1>2. CASE Completes
  BY <1>2 DEF Completes, FetchFails, ManifestArrives, FetchReads, LoadSucceeds, LoadFails
<1>3. CASE Calls
  BY <1>3 DEF Calls, Watch, Unwatch, Update, Destroy, Create
<1>4. CASE \E g \in Groups : TimerFires(g) \/ Tick(g)
  BY <1>4 DEF TimerFires, Tick
<1> QED
  BY <1>1, <1>2, <1>3, <1>4 DEF Next

\* The invariant of publication holds initially.
LEMMA PublicationInit == ASSUME Init PROVE PublicationInv
BY DEF Init, PublicationInv, LockIsHeld, AllocationIsFresh, FreshFor, LatestIsReleased, Idle

\* A new manifest is the one step of a publication that increases.
LEMMA PublicationIncreases ==
  ASSUME TypeOK, PublicationInv, NEW p \in Publishers, Publishes(p),
         NEW g \in Groups, latest'[g] # latest[g]
  PROVE  /\ latest'[g] \in artifacts[g]
         /\ latest[g] # None => latest[g].sequence < latest'[g].sequence
<1>1. CASE ReplaceManifest(p)
  <2>1. g = publisher[p].group /\ latest'[g] = Offered(p)
    BY <1>1 DEF ReplaceManifest, TypeOK
  <2> QED
    BY <1>1, <2>1 DEF ReplaceManifest, PublicationInv, AllocationIsFresh, FreshFor, Offered
<1> QED
  BY <1>1 DEF Publishes, TakeLock, ReleaseArtifact, GivesUp

\* However publishers of one offer race, fail and die: the manifest goes
\* forward only and names a released module.
THEOREM PublicationsIncreaseAlways == Spec => PublicationsIncrease
<1>1. Init => TypeOK /\ PublicationInv
  BY TypeInit, PublicationInit
<1>2. TypeOK /\ PublicationInv /\ [Next]_vars => TypeOK' /\ PublicationInv'
  BY TypeStep, ServerSteps, PublicationSteps, PublicationKept
<1>3. TypeOK /\ PublicationInv /\ [Next]_vars =>
        [\A g \in Groups : latest'[g] # latest[g] =>
           /\ latest'[g] \in artifacts[g]
           /\ latest[g] # None => latest[g].sequence < latest'[g].sequence]_vars
  BY ServerSteps, PublicationIncreases DEF server
<1> QED
  BY <1>1, <1>2, <1>3, PTL DEF Spec, PublicationsIncrease

-----------------------------------------------------------------------------
(* Events and modules of the sessions. *)

USE DEF SessionInv

\* What the invariant of the sessions speaks of.
page == <<session, open, last, pending, reported, mapped, plt, told>>

\* Publishers, timers and fetches that bring nothing new leave it alone.
LEMMA SessionKept == ASSUME SessionInv, UNCHANGED page PROVE SessionInv'
BY DEF page, PendingIsItsOwn, EventsArePast, PendingIsFresh, PltIsApplied,
       EventsFollowTheStream, CodeStaysMapped, Applied

\* The invariant holds before there is a session.
LEMMA SessionInit == ASSUME Init PROVE SessionInv
BY DEF Init, PendingIsItsOwn, EventsArePast, PendingIsFresh, PltIsApplied,
       EventsFollowTheStream, CodeStaysMapped, Applied

\* Every event has the type of an event.
LEMMA EventType ==
  ASSUME TypeOK, NEW g \in Groups, NEW n \in 1..Len(told[g])
  PROVE  /\ told[g][n].image \in Images
         /\ told[g][n].status \in {"applied", "rejected"}
<1> DEFINE Event == [image : Images, status : {"applied", "rejected"}]
<1>1. told[g] \in Seq(Event)
  BY DEF TypeOK
<1>2. told[g][n] \in Event
  <2> HIDE DEF Event
  <2> QED
    BY <1>1
<1> QED
  BY <1>2

\* A candidate carries the names of its group and session.
LEMMA PendingImage ==
  ASSUME PendingIsItsOwn, NEW g \in Groups, pending[g] # None
  PROVE  /\ pending[g].image.group = g
         /\ pending[g].image.session = session
         /\ pending[g].image.offer = last[g]
<1>1. pending[g].image = [group |-> g, session |-> session, offer |-> last[g]]
  BY DEF PendingIsItsOwn
<1> QED
  BY <1>1

\* What was activated was told as an event of its group.
LEMMA AppliedIsPast ==
  ASSUME TypeOK, EventsArePast, NEW g \in Groups, NEW i \in Applied(g)
  PROVE  /\ i \in Images /\ i.group = g
         /\ i.session = session => last[g] # None /\ i.offer.sequence <= last[g].sequence
<1>1. PICK n \in 1..Len(told[g]) : i = told[g][n].image
  BY DEF Applied
<1> QED
  BY <1>1, EventType DEF EventsArePast

\* Dropping a candidate closes no module that was activated.
LEMMA DiscardedIsNotApplied ==
  ASSUME TypeOK, PendingIsItsOwn, EventsArePast, PendingIsFresh,
         NEW g \in Groups, NEW h \in Groups, NEW i \in Applied(h)
  PROVE  i \notin Discarded(g)
<1> SUFFICES ASSUME i \in Discarded(g) PROVE FALSE
  OBVIOUS
<1>1. pending[g] # None /\ pending[g].status = "ready" /\ i = pending[g].image
  BY DEF Discarded
<1>2. i.group = g /\ i.group = h
  BY <1>1, AppliedIsPast, PendingImage
<1> QED
  BY <1>1, <1>2 DEF PendingIsFresh

\* An accepted offer is of a greater sequence than all this session has told.
LEMMA SessionAccepts ==
  ASSUME TypeOK, SessionInv, NEW f \in fetches, ManifestArrives(f)
  PROVE  SessionInv'
<1> DEFINE g == f.group
           image == [group |-> g, session |-> session, offer |-> f.text]
           status == IF f.text.id \notin Incompatible THEN "loading" ELSE "rejected"
<1>1. g \in Groups /\ f.text \in Offers /\ f.text # None
  BY NoneIsNothing DEF ManifestArrives, TypeOK
<1>2. CASE UNCHANGED <<last, pending, mapped>>
  BY <1>2, SessionKept DEF ManifestArrives, page, active
<1>3. CASE ~UNCHANGED <<last, pending, mapped>>
  <2>1. /\ open /\ Supersedes(g, f.text)
        /\ last' = [last EXCEPT ![g] = f.text]
        /\ pending' = [pending EXCEPT ![g] = [image |-> image, status |-> status]]
        /\ mapped' = mapped \ Discarded(g)
        /\ UNCHANGED <<session, open, reported, plt, told>>
    BY <1>3 DEF ManifestArrives, Observed, active
  <2>2. /\ last'[g] = f.text /\ \A h \in Groups \ {g} : last'[h] = last[h]
        /\ pending'[g] = [image |-> image, status |-> status]
        /\ \A h \in Groups \ {g} : pending'[h] = pending[h]
    BY <1>1, <2>1 DEF TypeOK
  <2>3. \A h \in Groups : Applied(h)' = Applied(h)
    BY <2>1 DEF Applied
  <2>4. PendingIsItsOwn'
    <3> SUFFICES ASSUME NEW h \in Groups, pending'[h] # None
                 PROVE  /\ open'
                        /\ pending'[h].image = [group |-> h, session |-> session', offer |-> last'[h]]
                        /\ pending'[h].status = "ready" => pending'[h].image \in mapped'
      BY DEF PendingIsItsOwn
    <3>1. CASE h = g
      BY <2>1, <2>2, <3>1
    <3>2. CASE h # g
      <4>1. /\ pending'[h] = pending[h] /\ last'[h] = last[h]
            /\ pending[h].image.group = h /\ pending[h] # None
        BY <2>2, <3>2, PendingImage
      <4>2. pending[h].image \notin Discarded(g)
        BY <1>1, <3>2, <4>1, PendingImage DEF Discarded
      <4> QED
        BY <2>1, <4>1, <4>2 DEF PendingIsItsOwn
    <3> QED
      BY <3>1, <3>2
  <2>5. \A n \in 1..Len(told[g]) : told[g][n].image.session = session =>
           told[g][n].image.offer.sequence < f.text.sequence
    <3> SUFFICES ASSUME NEW n \in 1..Len(told[g]), told[g][n].image.session = session
                 PROVE  told[g][n].image.offer.sequence < f.text.sequence
      OBVIOUS
    <3>1. told[g][n].image \in Images
      BY <1>1, EventType
    <3>2. last[g] # None /\ told[g][n].image.offer.sequence <= last[g].sequence
      BY <1>1 DEF EventsArePast
    <3>3. last[g] \in Offers /\ last[g].sequence < f.text.sequence
      BY <1>1, <2>1, <3>2 DEF Supersedes, TypeOK
    <3> QED
      BY <1>1, <3>1, <3>2, <3>3, BoundsAreNatural DEF Images, Offers
  <2>6. EventsArePast'
    <3> SUFFICES ASSUME NEW h \in Groups, NEW n \in 1..Len(told[h])
                 PROVE  /\ told[h][n].image.group = h
                        /\ told[h][n].image.session <= session
                        /\ told[h][n].image.session = session =>
                             /\ last'[h] # None
                             /\ told[h][n].image.offer.sequence <= last'[h].sequence
                             /\ told[h][n].image.offer.sequence = last'[h].sequence =>
                                  reported[h] = last'[h].id
      BY <2>1 DEF EventsArePast
    <3>1. CASE h # g
      BY <2>2, <3>1 DEF EventsArePast
    <3>2. CASE h = g
      <4>1. told[g][n].image \in Images
        BY <1>1, <3>2, EventType
      <4> QED
        BY <1>1, <2>2, <2>5, <3>2, <4>1, BoundsAreNatural DEF EventsArePast, Images, Offers
    <3> QED
      BY <3>1, <3>2
  <2>7. PendingIsFresh'
    <3> SUFFICES ASSUME NEW h \in Groups, pending'[h] # None,
                        pending'[h].status \in {"loading", "ready"}
                 PROVE  pending'[h].image \notin Applied(h)
      BY <2>3 DEF PendingIsFresh
    <3>1. CASE h # g
      BY <2>2, <3>1 DEF PendingIsFresh
    <3>2. CASE h = g
      BY <1>1, <2>2, <2>5, <3>2 DEF Applied, Offers
    <3> QED
      BY <3>1, <3>2
  <2>8. CodeStaysMapped'
    <3>1. \A h \in Groups : Applied(h) \subseteq mapped'
      BY <1>1, <2>1, DiscardedIsNotApplied DEF CodeStaysMapped
    <3> QED
      BY <2>1, <2>3, <3>1 DEF CodeStaysMapped, PltIsApplied
  <2> QED
    BY <2>1, <2>3, <2>4, <2>6, <2>7, <2>8 DEF PltIsApplied, EventsFollowTheStream
<1> QED
  BY <1>2, <1>3

\* A completed load changes its own candidate only.
LEMMA SessionLoads ==
  ASSUME TypeOK, SessionInv, NEW l \in loads, LoadSucceeds(l) \/ LoadFails(l)
  PROVE  SessionInv'
<1> DEFINE g == l.group
<1>1. g \in Groups
  BY DEF TypeOK, Images
<1>2. CASE UNCHANGED <<pending, mapped>>
  BY <1>2, SessionKept DEF LoadSucceeds, LoadFails, page, active
<1>3. CASE ~UNCHANGED <<pending, mapped>>
  <2>1. /\ pending[g] # None /\ pending[g].image = l /\ pending[g].status = "loading"
        /\ UNCHANGED <<session, open, last, reported, plt, told>>
    BY <1>3 DEF LoadSucceeds, LoadFails, Awaited, active
  <2>2. pending[g] \in Candidate
    BY <1>1, <2>1 DEF TypeOK
  <2>3. /\ \A h \in Groups \ {g} : pending'[h] = pending[h]
        /\ pending'[g] # None => pending'[g].image = l
        /\ pending'[g].status = "ready" => l \in mapped'
        /\ mapped \subseteq mapped'
    <3>1. CASE LoadSucceeds(l)
      BY <1>1, <1>3, <3>1 DEF LoadSucceeds, TypeOK
    <3>2. CASE LoadFails(l)
      <4>1. pending' = [pending EXCEPT ![g] = [pending[g] EXCEPT !.status = "rejected"]]
            /\ mapped' = mapped
        BY <1>3, <3>2 DEF LoadFails
      <4>2. pending'[g] = [pending[g] EXCEPT !.status = "rejected"]
        BY <1>1, <4>1 DEF TypeOK
      <4>3. pending'[g].image = l /\ pending'[g].status = "rejected"
        BY <2>1, <2>2, <4>2 DEF Candidate
      <4> QED
        BY <1>1, <4>1, <4>3 DEF TypeOK
    <3> QED
      BY <3>1, <3>2
  <2>4. \A h \in Groups : Applied(h)' = Applied(h)
    BY <2>1 DEF Applied
  <2>5. PendingIsItsOwn'
    <3> SUFFICES ASSUME NEW h \in Groups, pending'[h] # None
                 PROVE  /\ open
                        /\ pending'[h].image = [group |-> h, session |-> session, offer |-> last[h]]
                        /\ pending'[h].status = "ready" => pending'[h].image \in mapped'
      BY <2>1 DEF PendingIsItsOwn
    <3> QED
      BY <1>1, <2>1, <2>3 DEF PendingIsItsOwn
  <2>6. PendingIsFresh'
    <3>1. l \notin Applied(g)
      BY <1>1, <2>1 DEF PendingIsFresh
    <3> QED
      BY <2>3, <2>4, <3>1 DEF PendingIsFresh
  <2> QED
    BY <2>1, <2>3, <2>4, <2>5, <2>6
       DEF EventsArePast, PltIsApplied, EventsFollowTheStream, CodeStaysMapped
<1> QED
  BY <1>2, <1>3

\* The candidates go with the session; what was activated stays.
LEMMA SessionEnds == ASSUME TypeOK, SessionInv, Destroy PROVE SessionInv'
<1>1. /\ \A h \in Groups : pending'[h] = None
      /\ mapped' = mapped \ UNION {Discarded(g) : g \in Groups}
      /\ UNCHANGED <<session, last, reported, plt, told>>
  BY DEF Destroy, active
<1>2. \A h \in Groups : Applied(h)' = Applied(h)
  BY <1>1 DEF Applied
<1>3. \A h \in Groups : Applied(h) \subseteq mapped'
  BY <1>1, DiscardedIsNotApplied DEF CodeStaysMapped
<1> QED
  BY <1>1, <1>2, <1>3 DEF PendingIsItsOwn, EventsArePast, PendingIsFresh, PltIsApplied,
     EventsFollowTheStream, CodeStaysMapped

\* A new session has told nothing yet.
LEMMA SessionBegins == ASSUME TypeOK, SessionInv, Create PROVE SessionInv'
<1>1. /\ \A h \in Groups : pending[h] = None
      /\ ~open /\ session' = session + 1
      /\ UNCHANGED <<pending, mapped, plt, told>>
  BY DEF Create, PendingIsItsOwn
<1>2. \A h \in Groups : Applied(h)' = Applied(h)
  BY <1>1 DEF Applied
<1>3. EventsArePast'
  <2> SUFFICES ASSUME NEW h \in Groups, NEW n \in 1..Len(told[h])
               PROVE  /\ told[h][n].image.group = h
                      /\ told[h][n].image.session <= session'
                      /\ told[h][n].image.session # session'
    BY <1>1 DEF EventsArePast
  <2>1. told[h][n].image \in Images
    BY EventType
  <2> QED
    BY <1>1, <2>1, BoundsAreNatural DEF EventsArePast, TypeOK, Images
<1> QED
  BY <1>1, <1>2, <1>3 DEF PendingIsItsOwn, PendingIsFresh, PltIsApplied,
     EventsFollowTheStream, CodeStaysMapped

\* update() tells of the accepted offer, once, and activates what is ready.
LEMMA SessionUpdates == ASSUME TypeOK, SessionInv, Update PROVE SessionInv'
<1> DEFINE event(g) == [image |-> pending[g].image,
                        status |-> IF Activates(g) THEN "applied" ELSE "rejected"]
<1>1. /\ open /\ UNCHANGED <<session, open, last, mapped>>
      /\ \A g \in Groups : Consumable(g) =>
           /\ told'[g] = Append(told[g], event(g))
           /\ reported'[g] = last[g].id
      /\ \A g \in Groups : ~Consumable(g) => told'[g] = told[g] /\ reported'[g] = reported[g]
      /\ \A g \in Groups : Activates(g) =>
           /\ plt'[g] = pending[g].image
           /\ pending'[g] = [pending[g] EXCEPT !.status = "activated"]
      /\ \A g \in Groups : ~Activates(g) => plt'[g] = plt[g] /\ pending'[g] = pending[g]
  BY DEF Update
<1>2. \A g \in Groups : Consumable(g) => pending[g] # None /\ last[g] # None /\ last[g].id # reported[g]
  BY DEF Consumable
<1>3. ASSUME NEW g \in Groups
      PROVE  /\ ~Consumable(g) => told'[g] = told[g]
             /\ Consumable(g) =>
                  /\ Len(told'[g]) = Len(told[g]) + 1
                  /\ told'[g][Len(told'[g])] = event(g)
             /\ \A n \in 1..Len(told[g]) : told'[g][n] = told[g][n]
  <2> DEFINE Event == [image : Images, status : {"applied", "rejected"}]
  <2>1. told[g] \in Seq(Event)
    BY DEF TypeOK
  <2> HIDE DEF Event, event
  <2> QED
    BY <1>1, <2>1
<1>4. ASSUME NEW g \in Groups, NEW n \in 1..Len(told'[g]), n \notin 1..Len(told[g])
      PROVE  Consumable(g) /\ n = Len(told'[g]) /\ told'[g][n] = event(g)
  <2>1. Len(told[g]) \in Nat
    BY DEF TypeOK
  <2> HIDE DEF event
  <2> QED
    BY <1>3, <1>4, <2>1
<1>5. ASSUME NEW g \in Groups, NEW i \in Applied(g)'
      PROVE  i \in Applied(g) \/ (Activates(g) /\ i = pending[g].image)
  <2>1. PICK n \in 1..Len(told'[g]) : told'[g][n].status = "applied" /\ i = told'[g][n].image
    BY DEF Applied
  <2>2. CASE n \in 1..Len(told[g])
    BY <1>3, <2>1, <2>2 DEF Applied
  <2>3. CASE n \notin 1..Len(told[g])
    <3>1. told'[g][n] = event(g)
      BY <1>4, <2>3
    <3>2. event(g).image = pending[g].image /\ (event(g).status = "applied" => Activates(g))
      OBVIOUS
    <3> QED
      BY <2>1, <3>1, <3>2
  <2> QED
    BY <2>2, <2>3
<1>6. ASSUME NEW g \in Groups
      PROVE  /\ Applied(g) \subseteq Applied(g)'
             /\ Activates(g) => pending[g].image \in Applied(g)'
  <2>1. Len(told[g]) \in Nat /\ (Activates(g) => Consumable(g))
    BY DEF TypeOK, Activates
  <2>2. 1..Len(told[g]) \subseteq 1..Len(told'[g])
    <3>1. Len(told'[g]) = Len(told[g]) \/ Len(told'[g]) = Len(told[g]) + 1
      BY <1>3
    <3> QED
      BY <2>1, <3>1
  <2>3. Applied(g) \subseteq Applied(g)'
    <3> SUFFICES ASSUME NEW i \in Applied(g) PROVE i \in Applied(g)'
      OBVIOUS
    <3>1. PICK n \in 1..Len(told[g]) : told[g][n].status = "applied" /\ i = told[g][n].image
      BY DEF Applied
    <3> QED
      BY <1>3, <2>2, <3>1 DEF Applied
  <2>4. ASSUME Activates(g) PROVE pending[g].image \in Applied(g)'
    <3>1. Len(told'[g]) \in 1..Len(told'[g]) /\ told'[g][Len(told'[g])] = event(g)
      BY <1>3, <2>1, <2>4
    <3>2. event(g).status = "applied" /\ event(g).image = pending[g].image
      BY <2>4
    <3> QED
      BY <3>1, <3>2 DEF Applied
  <2> QED
    BY <2>3, <2>4
<1>7. PendingIsItsOwn'
  <2> SUFFICES ASSUME NEW g \in Groups, pending'[g] # None
               PROVE  /\ pending'[g].image = [group |-> g, session |-> session, offer |-> last[g]]
                      /\ pending'[g].status = "ready" => pending'[g].image \in mapped
    BY <1>1 DEF PendingIsItsOwn
  <2>1. CASE Activates(g)
    <3>1. pending[g] \in Candidate /\ pending[g] # None
      BY <2>1, ConsumableType DEF Activates, Consumable
    <3>2. pending'[g].image = pending[g].image /\ pending'[g].status = "activated"
      BY <1>1, <2>1, <3>1 DEF Candidate
    <3> QED
      BY <3>1, <3>2 DEF PendingIsItsOwn
  <2>2. CASE ~Activates(g)
    BY <1>1, <2>2 DEF PendingIsItsOwn
  <2> QED
    BY <2>1, <2>2
<1>8. ASSUME NEW g \in Groups, Consumable(g)
      PROVE  /\ event(g).image.group = g /\ event(g).image.session = session
             /\ event(g).image.offer = last[g]
  BY <1>2, <1>8, PendingImage
<1>9. EventsArePast'
  <2> SUFFICES ASSUME NEW g \in Groups, NEW n \in 1..Len(told'[g])
               PROVE  /\ told'[g][n].image.group = g
                      /\ told'[g][n].image.session <= session
                      /\ told'[g][n].image.session = session =>
                           /\ last[g] # None
                           /\ told'[g][n].image.offer.sequence <= last[g].sequence
                           /\ told'[g][n].image.offer.sequence = last[g].sequence =>
                                reported'[g] = last[g].id
    BY <1>1 DEF EventsArePast
  <2>1. CASE n \in 1..Len(told[g])
    <3>1. told'[g][n] = told[g][n]
      BY <1>3, <2>1
    <3>2. reported'[g] = last[g].id \/ reported'[g] = reported[g]
      BY <1>1
    <3> HIDE DEF event
    <3> QED
      BY <2>1, <3>1, <3>2 DEF EventsArePast
  <2>2. CASE n \notin 1..Len(told[g])
    <3>1. Consumable(g) /\ told'[g][n] = event(g)
      BY <1>4, <2>2
    <3>2. last[g] # None /\ last[g] \in Offers
      BY <1>2, <3>1 DEF TypeOK
    <3> HIDE DEF event
    <3> QED
      BY <1>1, <1>8, <3>1, <3>2, BoundsAreNatural DEF TypeOK, Offers
  <2> QED
    BY <2>1, <2>2
<1>10. PendingIsFresh'
  <2> SUFFICES ASSUME NEW g \in Groups, pending'[g] # None,
                      pending'[g].status \in {"loading", "ready"}, ~Activates(g)
               PROVE  pending'[g].image \notin Applied(g)'
    BY <1>1, ConsumableType DEF PendingIsFresh, Activates, Candidate
  <2> QED
    BY <1>1, <1>5 DEF PendingIsFresh
<1>11. PltIsApplied'
  BY <1>1, <1>6 DEF PltIsApplied
<1>12. CodeStaysMapped'
  <2>1. \A g \in Groups : Activates(g) => pending[g].image \in mapped
    BY DEF PendingIsItsOwn, Activates, Consumable
  <2>2. \A g \in Groups : Applied(g)' \subseteq mapped
    BY <1>5, <2>1 DEF CodeStaysMapped
  <2> QED
    BY <1>1, <1>11, <2>2 DEF CodeStaysMapped, PltIsApplied
<1>13. EventsFollowTheStream'
  <2> SUFFICES ASSUME NEW g \in Groups, NEW i \in 1..Len(told'[g]), NEW j \in 1..Len(told'[g]),
                      i < j, told'[g][i].image.session = told'[g][j].image.session
               PROVE  told'[g][i].image.offer.sequence < told'[g][j].image.offer.sequence
    BY DEF EventsFollowTheStream
  <2>1. CASE j \in 1..Len(told[g])
    <3>1. i \in 1..Len(told[g])
      BY <2>1 DEF TypeOK
    <3> QED
      BY <1>3, <2>1, <3>1 DEF EventsFollowTheStream
  <2>2. CASE j \notin 1..Len(told[g])
    <3>1. Consumable(g) /\ told'[g][j] = event(g) /\ j = Len(told'[g])
      BY <1>4, <2>2
    <3>2. i \in 1..Len(told[g])
      <4>1. Len(told[g]) \in Nat /\ Len(told'[g]) = Len(told[g]) + 1
        BY <1>3, <3>1 DEF TypeOK
      <4> QED
        BY <3>1, <4>1
    <3>3. told'[g][i] = told[g][i] /\ told[g][i].image \in Images
      BY <1>3, <3>2, EventType
    <3>4. told[g][i].image.session = session
      BY <1>8, <3>1, <3>3
    <3>5. /\ told[g][i].image.offer.sequence <= last[g].sequence
          /\ told[g][i].image.offer.sequence # last[g].sequence
      BY <1>2, <3>1, <3>2, <3>4 DEF EventsArePast
    <3>6. last[g] \in Offers
      BY <1>2, <3>1 DEF TypeOK
    <3> HIDE DEF event
    <3> QED
      BY <1>8, <3>1, <3>3, <3>5, <3>6, BoundsAreNatural DEF Images, Offers
  <2> QED
    BY <2>1, <2>2
<1> QED
  BY <1>7, <1>9, <1>10, <1>11, <1>12, <1>13

\* Every step keeps the invariant of the sessions.
LEMMA SessionStep == ASSUME TypeOK, SessionInv, [Next]_vars PROVE SessionInv'
<1>1. CASE UNCHANGED vars
  BY <1>1, SessionKept DEF vars, page, poller, active
<1>2. ASSUME NEW p \in Publishers, Publishes(p) PROVE SessionInv'
  BY <1>2, SessionKept DEF Publishes, TakeLock, ReleaseArtifact, ReplaceManifest, GivesUp,
     page, poller, active
<1>3. ASSUME NEW g \in Groups, TimerFires(g) \/ Tick(g) PROVE SessionInv'
  BY <1>3, SessionKept DEF TimerFires, Tick, page, poller, active
<1>4. CASE Completes
  <2>1. ASSUME NEW f \in fetches, FetchFails(f) PROVE SessionInv'
    BY <2>1, SessionKept DEF FetchFails, page, active
  <2>2. ASSUME NEW f \in fetches, NEW o \in Offers, FetchReads(f, o) PROVE SessionInv'
    BY <2>2, SessionKept DEF FetchReads, page, active
  <2> QED
    BY <1>4, <2>1, <2>2, SessionAccepts, SessionLoads DEF Completes
<1>5. CASE Calls
  <2>1. ASSUME NEW g \in Groups, Watch(g) \/ Unwatch(g) PROVE SessionInv'
    BY <2>1, SessionKept DEF Watch, Unwatch, page, poller, active
  <2> QED
    BY <1>5, <2>1, SessionUpdates, SessionEnds, SessionBegins DEF Calls
<1> QED
  BY <1>1, <1>2, <1>3, <1>4, <1>5 DEF Next

\* The three promises about events and modules, together.
LEMMA SessionCorrect == Spec => []SessionInv
<1>1. Init => TypeOK /\ SessionInv
  BY TypeInit, SessionInit
<1>2. TypeOK /\ SessionInv /\ [Next]_vars => TypeOK' /\ SessionInv'
  BY TypeStep, SessionStep
<1> HIDE DEF SessionInv
<1> QED
  BY <1>1, <1>2, PTL DEF Spec

\* A late completion never becomes the candidate of another offer or session.
THEOREM PendingIsItsOwnAlways == Spec => []PendingIsItsOwn
BY SessionCorrect, PTL

\* A session never reports or activates an older publication after a newer one.
THEOREM EventsFollowTheStreamAlways == Spec => []EventsFollowTheStream
BY SessionCorrect, PTL

\* No module that was activated is ever closed, by this session or a later one.
LEMMA CodeStaysMappedAlways == Spec => []CodeStaysMapped
BY SessionCorrect, PTL

-----------------------------------------------------------------------------
(* No module is left behind. *)

\* An image that was told as applied stays told.
LEMMA AppliedStays ==
  ASSUME TypeOK, NEW g \in Groups, told'[g] = told[g]
  PROVE  Applied(g)' = Applied(g)
BY DEF Applied

\* update() activates exactly what stops being ready.
LEMMA UpdateApplies ==
  ASSUME TypeOK, Update, NEW g \in Groups
  PROVE  /\ Applied(g) \subseteq Applied(g)'
         /\ Activates(g) => pending[g].image \in Applied(g)'
         /\ ~Activates(g) => pending'[g] = pending[g]
<1> DEFINE event == [image |-> pending[g].image,
                     status |-> IF Activates(g) THEN "applied" ELSE "rejected"]
           Event == [image : Images, status : {"applied", "rejected"}]
<1>1. told'[g] = IF Consumable(g) THEN Append(told[g], event) ELSE told[g]
  BY DEF Update
<1>2. told[g] \in Seq(Event) /\ Len(told[g]) \in Nat
  <2>1. told[g] \in Seq(Event)
    BY DEF TypeOK
  <2> HIDE DEF Event
  <2> QED
    BY <2>1
<1>3. /\ Len(told[g]) <= Len(told'[g])
      /\ \A n \in 1..Len(told[g]) : told'[g][n] = told[g][n]
      /\ Consumable(g) => Len(told'[g]) = Len(told[g]) + 1 /\ told'[g][Len(told'[g])] = event
  <2> HIDE DEF event, Event
  <2> QED
    BY <1>1, <1>2
<1>4. Applied(g) \subseteq Applied(g)'
  <2> SUFFICES ASSUME NEW i \in Applied(g) PROVE i \in Applied(g)'
    OBVIOUS
  <2>1. PICK n \in 1..Len(told[g]) : told[g][n].status = "applied" /\ i = told[g][n].image
    BY DEF Applied
  <2>2. Len(told'[g]) \in Nat
    BY <1>2, <1>3, <1>1
  <2>3. n \in 1..Len(told'[g])
    BY <1>2, <1>3, <2>2
  <2> QED
    BY <1>3, <2>1, <2>3 DEF Applied
<1>5. ASSUME Activates(g) PROVE pending[g].image \in Applied(g)'
  <2>1. Len(told'[g]) \in 1..Len(told'[g]) /\ told'[g][Len(told'[g])] = event
    BY <1>2, <1>3, <1>5 DEF Activates
  <2>2. event.status = "applied" /\ event.image = pending[g].image
    BY <1>5
  <2> QED
    BY <2>1, <2>2 DEF Applied
<1> QED
  BY <1>4, <1>5 DEF Update

\* Every step keeps it: what stops being a ready candidate is closed or applied.
LEMMA DroppedStep ==
  ASSUME TypeOK, SessionInv, DroppedImagesAreClosed, [Next]_vars
  PROVE  DroppedImagesAreClosed'
<1> DEFINE Holds(i) == /\ pending[i.group] # None
                       /\ pending[i.group].status = "ready" /\ pending[i.group].image = i
<1>0. \A i \in mapped : i.group \in Groups
  BY DEF TypeOK, Images
<1>1. CASE UNCHANGED <<mapped, pending, told>>
  BY <1>1 DEF DroppedImagesAreClosed, Applied
<1>2. ASSUME NEW f \in fetches, ManifestArrives(f) PROVE DroppedImagesAreClosed'
  <2>1. CASE UNCHANGED <<pending, mapped>>
    BY <1>1, <1>2, <2>1 DEF ManifestArrives, active
  <2>2. CASE ~UNCHANGED <<pending, mapped>>
    <3>1. /\ mapped' = mapped \ Discarded(f.group) /\ told' = told
          /\ \A h \in Groups \ {f.group} : pending'[h] = pending[h]
      BY <1>2, <2>2 DEF ManifestArrives, active, TypeOK
    <3> SUFFICES ASSUME NEW i \in mapped \ Discarded(f.group), i \notin Applied(i.group)
                 PROVE  Holds(i)'
      BY <3>1 DEF DroppedImagesAreClosed, Applied
    <3>2. Holds(i)
      BY DEF DroppedImagesAreClosed
    <3>4. i.group # f.group
      BY <3>2 DEF Discarded
    <3> QED
      BY <1>0, <3>1, <3>2, <3>4
  <2> QED
    BY <2>1, <2>2
<1>3. ASSUME NEW l \in loads, LoadSucceeds(l) \/ LoadFails(l) PROVE DroppedImagesAreClosed'
  <2>1. CASE UNCHANGED <<pending, mapped>>
    BY <1>1, <1>3, <2>1 DEF LoadSucceeds, LoadFails, active
  <2>2. CASE ~UNCHANGED <<pending, mapped>>
    <3>1. /\ pending[l.group].status = "loading" /\ told' = told /\ l.group \in Groups
          /\ \A h \in Groups \ {l.group} : pending'[h] = pending[h]
      BY <1>3, <2>2 DEF LoadSucceeds, LoadFails, Awaited, active, TypeOK, Images
    <3>2. \A i \in mapped : i \in Applied(i.group) \/ i.group # l.group
      BY <3>1 DEF DroppedImagesAreClosed
    <3>3. LoadFails(l) => mapped' = mapped
      BY DEF LoadFails
    <3>4. LoadSucceeds(l) =>
            /\ mapped' = mapped \cup {l}
            /\ Holds(l)'
      <4>1. [image |-> l, status |-> "ready"] \in Candidate
        BY <1>3 DEF TypeOK, Candidate
      <4> QED
        BY <2>2, <3>1, <4>1, NoneIsNothing DEF LoadSucceeds, TypeOK
    <3> QED
      BY <1>0, <1>3, <3>1, <3>2, <3>3, <3>4 DEF DroppedImagesAreClosed, Applied
  <2> QED
    BY <2>1, <2>2
<1>4. CASE Update
  <2>1. mapped' = mapped
    BY <1>4 DEF Update
  <2> SUFFICES ASSUME NEW i \in mapped
               PROVE  i \in Applied(i.group)' \/ Holds(i)'
    BY <2>1 DEF DroppedImagesAreClosed
  <2> QED
    BY <1>0, <1>4, UpdateApplies DEF DroppedImagesAreClosed
<1>5. CASE Destroy
  <2>1. mapped' = mapped \ UNION {Discarded(g) : g \in Groups} /\ told' = told
    BY <1>5 DEF Destroy, active
  <2> SUFFICES ASSUME NEW i \in mapped', i \notin Applied(i.group)
               PROVE  FALSE
    BY <2>1 DEF DroppedImagesAreClosed, Applied
  <2>2. i.group \in Groups /\ i \in mapped /\ i \notin Discarded(i.group)
    BY <1>0, <2>1
  <2>3. Holds(i)
    BY <2>2 DEF DroppedImagesAreClosed
  <2> QED
    BY <2>2, <2>3 DEF Discarded
<1>6. CASE UNCHANGED vars
  BY <1>1, <1>6 DEF vars, poller, active
<1>7. ASSUME NEW p \in Publishers, Publishes(p) PROVE DroppedImagesAreClosed'
  BY <1>1, <1>7 DEF Publishes, TakeLock, ReleaseArtifact, ReplaceManifest, GivesUp, poller, active
<1>8. ASSUME NEW g \in Groups, TimerFires(g) \/ Tick(g) \/ Watch(g) \/ Unwatch(g)
      PROVE  DroppedImagesAreClosed'
  BY <1>1, <1>8 DEF TimerFires, Tick, Watch, Unwatch, poller, active
<1>9. ASSUME NEW f \in fetches, FetchFails(f) \/ (\E o \in Offers : FetchReads(f, o))
      PROVE  DroppedImagesAreClosed'
  BY <1>1, <1>9 DEF FetchFails, FetchReads, active
<1>10. CASE Create
  BY <1>1, <1>10 DEF Create
<1> QED
  BY <1>2, <1>3, <1>4, <1>5, <1>6, <1>7, <1>8, <1>9, <1>10 DEF Next, Completes, Calls

\* An image that is open was activated or still can be.
LEMMA DroppedImagesAreClosedAlways == Spec => []DroppedImagesAreClosed
<1>1. Init => DroppedImagesAreClosed
  BY DEF Init, DroppedImagesAreClosed
<1> QED
  BY <1>1, DroppedStep, TypeCorrect, SessionCorrect, PTL DEF Spec

\* Images are neither lost nor closed under running code.
THEOREM ImagesAreAccountedForAlways == Spec => []ImagesAreAccountedFor
BY CodeStaysMappedAlways, DroppedImagesAreClosedAlways, PTL DEF ImagesAreAccountedFor

-----------------------------------------------------------------------------
(* Pauses. *)

\* A callback that is still valid is one of an enabled group.
TickIsObserved == \A g \in Groups : tick[g] = "live" => enabled[g]

\* disable() invalidates what is queued, so resuming does not revive it.
LEMMA TickStep == ASSUME TypeOK, TickIsObserved, [Next]_vars PROVE TickIsObserved'
<1>1. CASE UNCHANGED observer
  BY <1>1 DEF observer, TickIsObserved
<1>2. ASSUME NEW g \in Groups, TimerFires(g) \/ Tick(g) \/ Watch(g) \/ Unwatch(g)
      PROVE  TickIsObserved'
  BY <1>2 DEF TimerFires, Tick, Watch, Unwatch, Staled, TickIsObserved, TypeOK
<1>3. CASE Destroy
  BY <1>3 DEF Destroy, Staled, TickIsObserved, TypeOK
<1>4. CASE UNCHANGED vars
  BY <1>1, <1>4 DEF vars
<1>5. CASE \E p \in Publishers : Publishes(p)
  BY <1>1, <1>5 DEF Publishes, TakeLock, ReleaseArtifact, ReplaceManifest, GivesUp
<1>6. CASE Completes
  BY <1>1, <1>6 DEF Completes, FetchFails, ManifestArrives, FetchReads, LoadSucceeds, LoadFails
<1>7. CASE Update \/ Create
  BY <1>1, <1>7 DEF Update, Create
<1> QED
  BY <1>2, <1>3, <1>4, <1>5, <1>6, <1>7 DEF Next, Calls

\* What a pause forbids of one step.
Quiet(g) ==
  /\ \A f \in fetches' : f.group = g /\ f.text = None => f \in fetches
  /\ plt'[g] = plt[g] /\ told'[g] = told[g]

\* No step does it for a group that is not enabled.
LEMMA QuietStep ==
  ASSUME TypeOK, TickIsObserved, [Next]_vars, NEW g \in Groups, ~enabled[g]
  PROVE  Quiet(g)
<1>1. CASE UNCHANGED <<fetches, plt, told>>
  BY <1>1 DEF Quiet
<1>2. ASSUME NEW h \in Groups, Tick(h) PROVE Quiet(g)
  <2>1. fetches' \subseteq fetches \cup {[group |-> h, session |-> session, text |-> None]}
        /\ UNCHANGED <<plt, told>>
    BY <1>2 DEF Tick, Polls, active
  <2>2. h = g => fetches' = fetches
    BY <1>2 DEF Tick, TickIsObserved
  <2> QED
    BY <2>1, <2>2 DEF Quiet
<1>3. ASSUME NEW f \in fetches, FetchFails(f) \/ ManifestArrives(f) \/ \E o \in Offers : FetchReads(f, o)
      PROVE  Quiet(g)
  <2>1. CASE FetchFails(f) \/ ManifestArrives(f)
    BY <2>1 DEF FetchFails, ManifestArrives, Quiet, active
  <2>2. ASSUME NEW o \in Offers, FetchReads(f, o) PROVE Quiet(g)
    <3>1. [f EXCEPT !.text = o].text # None
      BY NoneIsNothing DEF TypeOK
    <3> QED
      BY <2>2, <3>1 DEF FetchReads, Quiet, active
  <2> QED
    BY <1>3, <2>1, <2>2
<1>4. CASE Update
  BY <1>4 DEF Update, Activates, Consumable, Quiet
<1>5. CASE UNCHANGED vars
  BY <1>1, <1>5 DEF vars, poller, active
<1>6. CASE \E p \in Publishers : Publishes(p)
  BY <1>1, <1>6 DEF Publishes, TakeLock, ReleaseArtifact, ReplaceManifest, GivesUp, poller, active
<1>7. ASSUME NEW h \in Groups, TimerFires(h) \/ Watch(h) \/ Unwatch(h) PROVE Quiet(g)
  BY <1>1, <1>7 DEF TimerFires, Watch, Unwatch, poller, active
<1>8. ASSUME NEW l \in loads, LoadSucceeds(l) \/ LoadFails(l) PROVE Quiet(g)
  BY <1>1, <1>8 DEF LoadSucceeds, LoadFails, active
<1>9. CASE Destroy \/ Create
  BY <1>1, <1>9 DEF Destroy, Create, active
<1> QED
  BY <1>2, <1>3, <1>4, <1>5, <1>6, <1>7, <1>8, <1>9 DEF Next, Completes, Calls

\* A paused group observes, activates and reports nothing, whatever callback
\* or completion is still under way.
THEOREM PauseHoldsAlways == Spec => PauseHolds
<1>1. Init => TypeOK /\ TickIsObserved
  BY TypeInit DEF Init, TickIsObserved
<1>2. TypeOK /\ TickIsObserved /\ [Next]_vars => TypeOK' /\ TickIsObserved'
  BY TypeStep, TickStep
<1>3. TypeOK /\ TickIsObserved /\ [Next]_vars =>
        [\A g \in Groups : ~enabled[g] =>
           /\ \A f \in fetches' : f.group = g /\ f.text = None => f \in fetches
           /\ plt'[g] = plt[g] /\ told'[g] = told[g]]_vars
  BY QuietStep DEF Quiet
<1> QED
  BY <1>1, <1>2, <1>3, PTL DEF Spec, PauseHolds
=============================================================================
