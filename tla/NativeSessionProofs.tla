------------------------ MODULE NativeSessionProofs ------------------------
(***************************************************************************)
(* Proofs about the native session, for any number of groups, sequences,   *)
(* generations, ill-named markers and files: what a snapshot shows, in     *)
(* which order outcomes reach the host, and what a pause leaves alone.     *)
(***************************************************************************)
EXTENDS NativeSession, TLAPS

-----------------------------------------------------------------------------
(* Data. *)

\* The one offer without a place in the stream sorts below all others.
LEMMA OfferType ==
  /\ \A o \in Offers : o.sequence \in Nat /\ o.sequence > 0
  /\ MarkerRejection \notin Offers /\ MarkerRejection.sequence = 0
BY BaselineIsASequence DEF Offers, MarkerRejection

\* Without the event about the object watches a result is a part of itself.
LEMMA ManagedType ==
  ASSUME NEW es \in Seq(Event)
  PROVE  /\ Managed(es) \in Seq(Event)
         /\ Len(Managed(es)) <= Len(es)
         /\ \A i \in DOMAIN Managed(es) : i \in DOMAIN es /\ Managed(es)[i] = es[i]
         /\ \A i \in DOMAIN es : es[i].group # ObjectWatch => i \in DOMAIN Managed(es)
<1>1. CASE es # <<>> /\ es[Len(es)].group = ObjectWatch
  <2>1. Managed(es) = SubSeq(es, 1, Len(es) - 1)
    BY <1>1 DEF Managed
  <2>2. Len(es) \in Nat /\ Len(es) > 0
    BY <1>1
  <2>3. /\ SubSeq(es, 1, Len(es) - 1) \in Seq(Event)
        /\ Len(SubSeq(es, 1, Len(es) - 1)) = Len(es) - 1
        /\ \A i \in 1..(Len(es) - 1) : SubSeq(es, 1, Len(es) - 1)[i] = es[i]
    <3>1. Len(es) - 1 \in Nat /\ Len(es) - 1 <= Len(es)
      BY <2>2
    <3>2. \A i \in 1..(Len(es) - 1) : i \in 1..Len(es) /\ es[i] \in Event
      BY <2>2
    <3> DEFINE n == Len(es) - 1
    <3>3. SubSeq(es, 1, n) = [i \in 1..n |-> es[1 + i - 1]]
      BY <3>1 DEF SubSeq
    <3>4. \A i \in 1..n : es[1 + i - 1] = es[i]
      BY <3>1
    <3>5. SubSeq(es, 1, n) = [i \in 1..n |-> es[i]]
      BY <3>3, <3>4
    <3> HIDE DEF n
    <3>6. [i \in 1..n |-> es[i]] \in Seq(Event) /\ Len([i \in 1..n |-> es[i]]) = n
      BY <3>1, <3>2 DEF n
    <3> QED
      BY <3>5, <3>6 DEF n
  <2>4. DOMAIN es = 1..Len(es) /\ DOMAIN Managed(es) = 1..(Len(es) - 1)
    BY <2>1, <2>2, <2>3
  <2> QED
    BY <1>1, <2>1, <2>2, <2>3, <2>4
<1>2. CASE ~(es # <<>> /\ es[Len(es)].group = ObjectWatch)
  BY <1>2 DEF Managed
<1> QED
  BY <1>1, <1>2

-----------------------------------------------------------------------------
(* Type correctness. *)

\* A build that publishes, or drops a marker, keeps the types.
LEMMA TypeEnvironment == ASSUME TypeOK, Environment PROVE TypeOK'
<1> USE DEF host, worker, consumer, outcome, errors, history
<1>1. ASSUME NEW g \in Groups, NEW o \in Offers, Publish(g, o) PROVE TypeOK'
  BY <1>1 DEF Publish, TypeOK
<1>2. ASSUME NEW g \in Groups, NEW n \in Markers, DropMarker(g, n) PROVE TypeOK'
  BY <1>2 DEF DropMarker, TypeOK
<1>3. CASE BuildObject
  BY <1>3 DEF BuildObject, TypeOK
<1> QED
  BY <1>1, <1>2, <1>3 DEF Environment

\* Every step of the worker keeps the types.
LEMMA TypeWorker == ASSUME TypeOK, Worker PROVE TypeOK'
<1> USE DEF host, consumer, outcome, errors, history, stream
<1>1. CASE WorkerWakes \/ WorkerStops \/ WorkerRaises
  BY <1>1 DEF WorkerWakes, WorkerStops, WorkerRaises, TypeOK
<1>2. CASE WorkerVisits \/ WorkerRests
  BY <1>2 DEF WorkerVisits, WorkerRests, Lowest, TypeOK
<1>3. CASE PreparationSucceeds \/ PreparationFails
  <2>1. loading \in Offers
    BY <1>3 DEF PreparationSucceeds, PreparationFails, TypeOK
  <2>2. /\ prepared' \in [Groups -> Offers \cup {None}]
        /\ pending' \in [Groups -> Offers \cup {MarkerRejection, None}]
        /\ failed' \in [Groups -> BOOLEAN]
    BY <1>3, <2>1 DEF PreparationSucceeds, PreparationFails, RecordPrepared, RecordRejection,
       TypeOK
  <2> QED
    BY <1>3, <2>2 DEF PreparationSucceeds, PreparationFails, TypeOK
<1>4. ASSUME NEW g \in Groups, PollIdle(g) \/ PollThrows(g) PROVE TypeOK'
  BY <1>4 DEF PollIdle, PollThrows, TypeOK
<1>5. ASSUME NEW g \in Groups, PollObserves(g) PROVE TypeOK'
  <2>1. PICK o \in Newest(g) : cursor' = [cursor EXCEPT ![g] = o.sequence] /\ loading' = o
    BY <1>5 DEF PollObserves
  <2>2. o \in Offers /\ o.sequence > cursor[g]
    BY <2>1 DEF Newest, Newer, TypeOK
  <2>3. o.sequence \in BaselineSequence..MaxSequence
    BY <2>2, BaselineIsASequence DEF Offers, TypeOK
  <2> QED
    BY <1>5, <2>1, <2>2, <2>3 DEF PollObserves, TypeOK
<1>6. ASSUME NEW g \in Groups, NEW n \in Markers, PollRejectsMarker(g, n) PROVE TypeOK'
  BY <1>6 DEF PollRejectsMarker, RecordRejection, TypeOK
<1> QED
  BY <1>1, <1>2, <1>3, <1>4, <1>5, <1>6 DEF Worker, WorkerPasses

\* Every call of the host, and every step inside one, keeps the types.
LEMMA TypeHost == ASSUME TypeOK, HostCalls \/ HostProceeds \/ HostWaits PROVE TypeOK'
<1> USE DEF worker, consumer, outcome, errors, history, stream
<1>1. ASSUME NEW G \in {Groups} \cup {{g} : g \in Groups}, WatchBegins(G) \/ UnwatchBegins(G)
      PROVE TypeOK'
  BY <1>1 DEF WatchBegins, UnwatchBegins, Begins, TypeOK
<1>2. CASE UpdateBegins \/ Destroy \/ StartWorker \/ Joined
  BY <1>2 DEF UpdateBegins, Destroy, Begins, StartWorker, Joined, TypeOK
<1>3. CASE UpdateLocks \/ BatchPoisons
  <2> DEFINE S == Seq(Event)
  <2>4. <<>> \in S
    OBVIOUS
  <2>5. events' = <<>>
    BY <1>3 DEF UpdateLocks, BatchPoisons
  <2>1. events' \in S
    BY <2>4, <2>5
  <2>2. CASE UpdateLocks
    BY <2>1, <2>2 DEF UpdateLocks, TypeOK
  <2>3. CASE BatchPoisons
    BY <2>1, <2>3 DEF BatchPoisons, TypeOK
  <2> QED
    BY <1>3, <2>2, <2>3
<1>4. CASE ManagedDone \/ ClaimObjects \/ NoObjects \/ SelectionReturns
  BY <1>4 DEF ManagedDone, ClaimObjects, NoObjects, SelectionReturns, TypeOK
<1>5. CASE EnableGroup \/ DisableGroup
  <2>1. enabled' \in [Groups -> BOOLEAN] /\ cursor' = cursor
    BY <1>5 DEF EnableGroup, OpenStream, DisableGroup, TypeOK
  <2>2. visiting' \in SUBSET Groups /\ call' \in {call, "starting"}
    BY <1>5 DEF EnableGroup, DisableGroup, TypeOK
  <2> QED
    BY <1>5, <2>1, <2>2 DEF EnableGroup, DisableGroup, TypeOK
<1>9. ASSUME NEW g \in Groups, UpdateSkips(g) PROVE TypeOK'
  BY <1>9 DEF UpdateSkips, TypeOK
<1>10. ASSUME NEW g \in Groups, CommitPoisons(g) PROVE TypeOK'
  BY <1>10 DEF CommitPoisons, TypeOK
<1>6. ASSUME NEW g \in Groups, CommitApplies(g) \/ CommitRejects(g) \/ ReportsPending(g)
      PROVE TypeOK'
  <2>1. PICK e \in Event : events' = Append(events, e)
    BY <1>6 DEF CommitApplies, CommitRejects, ReportsPending, Reports, MayCommit, Event, TypeOK
  <2>2. events' \in Seq(Event)
    BY <2>1 DEF TypeOK
  <2>3. committed' \in [Groups -> Seq(Offers)]
    <3>1. CASE CommitApplies(g)
      <4>1. prepared[g] \in Offers /\ committed[g] \in Seq(Offers)
        BY <3>1 DEF CommitApplies, MayCommit, TypeOK
      <4>2. Append(committed[g], prepared[g]) \in Seq(Offers)
        BY <4>1
      <4> QED
        BY <3>1, <4>2 DEF CommitApplies, TypeOK
    <3> QED
      BY <1>6, <3>1 DEF CommitRejects, ReportsPending, TypeOK
  <2>4. /\ prepared' \in [Groups -> Offers \cup {None}]
        /\ pending' \in [Groups -> Offers \cup {MarkerRejection, None}]
        /\ failed' \in [Groups -> BOOLEAN]
        /\ visiting' \in SUBSET Groups
    BY <1>6 DEF CommitApplies, CommitRejects, ReportsPending, TypeOK
  <2> QED
    BY <1>6, <2>2, <2>3, <2>4 DEF CommitApplies, CommitRejects, ReportsPending, TypeOK
<1>7. ASSUME NEW status \in {"applied", "rejected"}, BatchEnds(status) PROVE TypeOK'
  BY <1>7 DEF BatchEnds, Reports, Event, TypeOK
<1>8. CASE UpdateReturns
  <2>1. told' \in Seq(Event)
    BY <1>8, ManagedType DEF UpdateReturns, TypeOK
  <2> QED
    BY <1>8, <2>1 DEF UpdateReturns, TypeOK
<1> QED
  BY <1>1, <1>2, <1>3, <1>4, <1>5, <1>6, <1>7, <1>8, <1>9, <1>10
     DEF HostCalls, HostProceeds, HostWaits

\* Every variable of the session keeps its type.
THEOREM TypeCorrect == Spec => []TypeOK
<1>1. Init => TypeOK
  <2> SUFFICES ASSUME Init PROVE TypeOK
    OBVIOUS
  <2>1. cursor \in [Groups -> BaselineSequence..MaxSequence]
    BY BaselineIsASequence DEF Init
  <2>2. events \in Seq(Event) /\ told \in Seq(Event) /\ committed \in [Groups -> Seq(Offers)]
    BY DEF Init
  <2> QED
    BY <2>1, <2>2 DEF Init, TypeOK
<1>2. TypeOK /\ [Next]_vars => TypeOK'
  <2>1. CASE UNCHANGED vars
    BY <2>1 DEF vars, stream, consumer, outcome, worker, host, history, errors, TypeOK
  <2> QED
    BY <2>1, TypeEnvironment, TypeWorker, TypeHost DEF Next, Destroyed
<1> QED
  BY <1>1, <1>2, PTL DEF Spec

-----------------------------------------------------------------------------
(* Control.  The mutex separates a worker pass from the managed part of    *)
(* update(); only inside a pass is there a group the worker is at, and     *)
(* only at a group is there an offer it prepares.                          *)

ControlInv ==
  /\ thread = "pass" <=> lock = "worker"
  /\ call = "managed" <=> lock = "update"
  /\ visited # None => thread = "pass"
  /\ loading # None => visited # None

\* Who does not take or free the mutex leaves the pass alone.
LEMMA ControlStep == TypeOK /\ ControlInv /\ [Next]_vars => ControlInv'
<1> SUFFICES ASSUME TypeOK, ControlInv, [Next]_vars PROVE ControlInv'
  OBVIOUS
<1> USE DEF ControlInv
<1>1. CASE UNCHANGED <<lock, worker, call>>
  BY <1>1 DEF worker
<1>2. CASE Environment
  BY <1>1, <1>2 DEF Environment, Publish, DropMarker, BuildObject, host
<1>3. CASE WorkerWakes \/ WorkerStops \/ WorkerRaises \/ WorkerRests
  BY <1>3 DEF WorkerWakes, WorkerStops, WorkerRaises, WorkerRests, host
<1>4. CASE WorkerVisits
  BY <1>4 DEF WorkerVisits, host
<1>5. CASE PreparationSucceeds \/ PreparationFails
  BY <1>5 DEF PreparationSucceeds, PreparationFails, host
<1>6. ASSUME NEW g \in Groups,
             PollIdle(g) \/ PollThrows(g) \/ \E n \in Markers : PollRejectsMarker(g, n)
      PROVE ControlInv'
  BY <1>6 DEF PollIdle, PollThrows, PollRejectsMarker, Polling, host
<1>7. ASSUME NEW g \in Groups, PollObserves(g) PROVE ControlInv'
  BY <1>7, NoneIsNothing DEF PollObserves, Polling, host
<1>8. CASE HostCalls
  BY <1>8 DEF HostCalls, WatchBegins, UnwatchBegins, UpdateBegins, Destroy, Begins, worker
<1>9. CASE EnableGroup \/ DisableGroup \/ SelectionReturns \/ ManagedDone \/ ClaimObjects
           \/ NoObjects \/ BatchPoisons \/ UpdateReturns
  BY <1>9 DEF EnableGroup, DisableGroup, SelectionReturns, ManagedDone, ClaimObjects,
     NoObjects, BatchPoisons, UpdateReturns, worker
<1>10. ASSUME NEW g \in Groups,
              UpdateSkips(g) \/ CommitApplies(g) \/ CommitRejects(g) \/ ReportsPending(g)
       PROVE ControlInv'
  BY <1>1, <1>10 DEF UpdateSkips, CommitApplies, CommitRejects, ReportsPending
<1>11. ASSUME NEW g \in Groups, CommitPoisons(g) PROVE ControlInv'
  BY <1>11 DEF CommitPoisons, Updating, worker
<1>12. ASSUME NEW status \in {"applied", "rejected"}, BatchEnds(status) PROVE ControlInv'
  BY <1>12 DEF BatchEnds, worker
<1>13. CASE StartWorker
  BY <1>13 DEF StartWorker
<1>14. CASE UpdateLocks \/ Joined
  BY <1>14 DEF UpdateLocks, Joined, worker
<1>15. CASE UNCHANGED vars
  BY <1>1, <1>15 DEF vars, host
<1> QED
  BY <1>2, <1>3, <1>4, <1>5, <1>6, <1>7, <1>8, <1>9, <1>10, <1>11, <1>12, <1>13, <1>14, <1>15
     DEF Next, Worker, WorkerPasses, HostProceeds, HostWaits, Destroyed

\* The control invariant holds in every state.
LEMMA ControlCorrect == Spec => []ControlInv
<1>1. Init => ControlInv
  BY DEF Init, ControlInv
<1> QED
  BY <1>1, ControlStep, TypeCorrect, PTL DEF Spec

-----------------------------------------------------------------------------
(* What waits in a group.                                                  *)

WaitingInv ==
  \A g \in Groups :
    /\ pending[g] # None =>
         failed[g] /\ prepared[g] = None /\ pending[g].sequence <= cursor[g]
    /\ prepared[g] # None /\ ~(loading # None /\ visited = g) =>
         prepared[g].sequence = cursor[g]
    /\ loading # None /\ visited = g =>
         /\ loading.sequence = cursor[g]
         /\ prepared[g] # None => prepared[g].sequence < cursor[g]

\* An observation outdates what is prepared until its own outcome replaces it.
LEMMA WaitingObserves ==
  ASSUME TypeOK, ControlInv, WaitingInv, NEW g \in Groups, PollObserves(g)
  PROVE  WaitingInv'
<1>1. PICK o \in Newest(g) : cursor' = [cursor EXCEPT ![g] = o.sequence] /\ loading' = o
  BY DEF PollObserves
<1>2. o \in Offers /\ o.sequence > cursor[g] /\ o # None
  BY <1>1, NoneIsNothing DEF Newest, Newer, TypeOK
<1>3. cursor'[g] = o.sequence /\ \A h \in Groups \ {g} : cursor'[h] = cursor[h]
  BY <1>1 DEF TypeOK
<1>4. visited = g /\ loading = None
  BY DEF PollObserves, Polling
<1>5. UNCHANGED <<visited, prepared, pending, failed>>
  BY DEF PollObserves, outcome
<1>6. \A h \in Groups : /\ prepared[h] # None => prepared[h].sequence \in Nat
                        /\ pending[h] # None => pending[h].sequence \in Nat
                        /\ cursor[h] \in Nat
  BY OfferType, BaselineIsASequence DEF TypeOK
<1>7. o.sequence \in Nat
  BY <1>2, OfferType
<1> QED
  BY <1>1, <1>2, <1>3, <1>4, <1>5, <1>6, <1>7 DEF WaitingInv

\* A recorded outcome replaces whatever waited.
LEMMA WaitingRecords ==
  ASSUME TypeOK, ControlInv, WaitingInv,
         \/ PreparationSucceeds \/ PreparationFails
         \/ \E g \in Groups, n \in Markers : PollRejectsMarker(g, n)
  PROVE  WaitingInv'
<1>1. CASE PreparationSucceeds \/ PreparationFails
  <2>1. visited \in Groups /\ loading \in Offers /\ loading.sequence = cursor[visited]
    BY <1>1 DEF PreparationSucceeds, PreparationFails, ControlInv, WaitingInv, TypeOK
  <2>2. UNCHANGED cursor /\ loading' = None
    BY <1>1 DEF PreparationSucceeds, PreparationFails
  <2>3. \A h \in Groups \ {visited} :
          prepared'[h] = prepared[h] /\ pending'[h] = pending[h] /\ failed'[h] = failed[h]
    BY <1>1 DEF PreparationSucceeds, PreparationFails, RecordPrepared, RecordRejection, TypeOK
  <2>4. \/ prepared'[visited] = loading /\ pending'[visited] = None
        \/ prepared'[visited] = None /\ pending'[visited] = loading /\ failed'[visited]
    BY <1>1, <2>1 DEF PreparationSucceeds, PreparationFails, RecordPrepared, RecordRejection,
       TypeOK
  <2>5. cursor[visited] \in Nat
    BY <2>1, BaselineIsASequence DEF TypeOK
  <2> QED
    BY <2>1, <2>2, <2>3, <2>4, <2>5 DEF WaitingInv
<1>2. ASSUME NEW g \in Groups, NEW n \in Markers, PollRejectsMarker(g, n) PROVE WaitingInv'
  <2>1. /\ prepared'[g] = None /\ pending'[g] = MarkerRejection /\ failed'[g]
        /\ \A h \in Groups \ {g} :
             prepared'[h] = prepared[h] /\ pending'[h] = pending[h] /\ failed'[h] = failed[h]
    BY <1>2 DEF PollRejectsMarker, RecordRejection, TypeOK
  <2>2. UNCHANGED <<cursor, loading>> /\ visited = g /\ loading = None
    BY <1>2 DEF PollRejectsMarker, Polling
  <2>3. cursor[g] \in Nat
    BY BaselineIsASequence DEF TypeOK
  <2> QED
    BY <2>1, <2>2, <2>3, OfferType DEF WaitingInv
<1> QED
  BY <1>1, <1>2

\* update() takes away what it reports, and only while no pass is under way.
LEMMA WaitingReports ==
  ASSUME TypeOK, ControlInv, WaitingInv, NEW g \in Groups,
         CommitApplies(g) \/ CommitRejects(g) \/ ReportsPending(g)
  PROVE  WaitingInv'
<1>1. loading = None /\ loading' = None /\ cursor' = cursor
  BY DEF CommitApplies, CommitRejects, ReportsPending, Updating, ControlInv, worker
<1>2. \A h \in Groups \ {g} :
        prepared'[h] = prepared[h] /\ pending'[h] = pending[h] /\ failed'[h] = failed[h]
  BY DEF CommitApplies, CommitRejects, ReportsPending, TypeOK
<1>3. prepared'[g] = None /\ pending'[g] = None
  BY DEF CommitApplies, CommitRejects, ReportsPending, MayCommit, WaitingInv, TypeOK
<1> QED
  BY <1>1, <1>2, <1>3 DEF WaitingInv

\* No other step touches what waits.
LEMMA WaitingStep == TypeOK /\ ControlInv /\ WaitingInv /\ [Next]_vars => WaitingInv'
<1> SUFFICES ASSUME TypeOK, ControlInv, WaitingInv, [Next]_vars PROVE WaitingInv'
  OBVIOUS
<1>1. CASE /\ UNCHANGED <<cursor, outcome>>
           /\ \/ loading = None /\ loading' = None
              \/ UNCHANGED <<visited, loading>>
  BY <1>1 DEF WaitingInv, outcome
<1> USE DEF consumer, worker
<1>2. CASE Environment
  BY <1>1, <1>2 DEF Environment, Publish, DropMarker, BuildObject
<1>3. CASE WorkerWakes \/ WorkerStops \/ WorkerRaises \/ WorkerRests
  BY <1>1, <1>3 DEF WorkerWakes, WorkerStops, WorkerRaises, WorkerRests
<1>4. CASE WorkerVisits
  BY <1>1, <1>4 DEF WorkerVisits, ControlInv
<1>5. ASSUME NEW g \in Groups, PollIdle(g) \/ PollThrows(g) PROVE WaitingInv'
  BY <1>1, <1>5 DEF PollIdle, PollThrows, Polling
<1>6. CASE HostCalls
  BY <1>1, <1>6 DEF HostCalls, WatchBegins, UnwatchBegins, UpdateBegins, Destroy
<1>7. CASE EnableGroup \/ DisableGroup \/ SelectionReturns \/ ManagedDone \/ ClaimObjects
           \/ NoObjects \/ BatchPoisons \/ UpdateReturns
  BY <1>1, <1>7 DEF EnableGroup, OpenStream, DisableGroup, SelectionReturns, ManagedDone,
     ClaimObjects, NoObjects, BatchPoisons, UpdateReturns
<1>8. ASSUME NEW g \in Groups, UpdateSkips(g) \/ CommitPoisons(g) PROVE WaitingInv'
  BY <1>1, <1>8 DEF UpdateSkips, CommitPoisons
<1>9. ASSUME NEW status \in {"applied", "rejected"}, BatchEnds(status) PROVE WaitingInv'
  BY <1>1, <1>9 DEF BatchEnds
<1>10. CASE StartWorker \/ UpdateLocks \/ Joined
  BY <1>1, <1>10 DEF StartWorker, UpdateLocks, Joined
<1>11. CASE UNCHANGED vars
  BY <1>1, <1>11 DEF vars
<1> QED
  BY <1>2, <1>3, <1>4, <1>5, <1>6, <1>7, <1>8, <1>9, <1>10, <1>11, WaitingObserves,
     WaitingRecords, WaitingReports
     DEF Next, Worker, WorkerPasses, HostProceeds, HostWaits, Destroyed

\* The invariant about waiting outcomes holds in every state.
LEMMA WaitingCorrect == Spec => []WaitingInv
<1>1. Init => WaitingInv
  BY DEF Init, WaitingInv
<1> QED
  BY <1>1, WaitingStep, ControlCorrect, TypeCorrect, PTL DEF Spec

\* Whoever takes a snapshot is not misled by it.
THEOREM SnapshotTellsAllAlways == Spec => []SnapshotTellsAll
<1>1. ControlInv /\ WaitingInv => SnapshotTellsAll
  BY DEF ControlInv, WaitingInv, SnapshotTellsAll, GroupState
<1> QED
  BY <1>1, ControlCorrect, WaitingCorrect, PTL

\* While a group is disabled, only a preparation that had already begun may
\* change what awaits its resumption.
THEOREM PauseKeepsOutcomeAlways == Spec => PauseKeepsOutcome
<1>1. ASSUME TypeOK, ControlInv, [Next]_vars, NEW g \in Groups, ~enabled'[g], visited # g
      PROVE prepared'[g] = prepared[g] /\ pending'[g] = pending[g]
  <2> USE DEF consumer, outcome
  <2>1. CASE Environment
    BY <2>1 DEF Environment, Publish, DropMarker, BuildObject
  <2>2. CASE WorkerWakes \/ WorkerStops \/ WorkerRaises \/ WorkerRests \/ WorkerVisits
    BY <2>2 DEF WorkerWakes, WorkerStops, WorkerRaises, WorkerRests, WorkerVisits
  <2>3. CASE PreparationSucceeds \/ PreparationFails
    BY <1>1, <2>3 DEF PreparationSucceeds, PreparationFails, RecordPrepared, RecordRejection,
       ControlInv, TypeOK
  <2>4. ASSUME NEW h \in Groups, PollIdle(h) \/ PollThrows(h) \/ PollObserves(h)
        PROVE prepared' = prepared /\ pending' = pending
    BY <2>4 DEF PollIdle, PollThrows, PollObserves
  <2>5. ASSUME NEW h \in Groups, NEW n \in Markers, PollRejectsMarker(h, n)
        PROVE prepared'[g] = prepared[g] /\ pending'[g] = pending[g]
    BY <1>1, <2>5 DEF PollRejectsMarker, Polling, RecordRejection, TypeOK
  <2>6. CASE HostCalls
    BY <2>6 DEF HostCalls, WatchBegins, UnwatchBegins, UpdateBegins, Destroy
  <2>7. CASE EnableGroup \/ DisableGroup \/ SelectionReturns \/ ManagedDone \/ ClaimObjects
             \/ NoObjects \/ BatchPoisons \/ UpdateReturns
    BY <2>7 DEF EnableGroup, DisableGroup, SelectionReturns, ManagedDone, ClaimObjects,
       NoObjects, BatchPoisons, UpdateReturns
  <2>8. ASSUME NEW h \in Groups, UpdateSkips(h) \/ CommitPoisons(h)
        PROVE prepared' = prepared /\ pending' = pending
    BY <2>8 DEF UpdateSkips, CommitPoisons
  <2>9. ASSUME NEW h \in Groups, CommitApplies(h) \/ CommitRejects(h) \/ ReportsPending(h)
        PROVE prepared'[g] = prepared[g] /\ pending'[g] = pending[g]
    <3>1. enabled[h] /\ enabled' = enabled
      BY <2>9 DEF CommitApplies, CommitRejects, ReportsPending, MayCommit
    <3> QED
      BY <1>1, <2>9, <3>1 DEF CommitApplies, CommitRejects, ReportsPending, TypeOK
  <2>10. ASSUME NEW status \in {"applied", "rejected"}, BatchEnds(status)
         PROVE prepared' = prepared /\ pending' = pending
    BY <2>10 DEF BatchEnds
  <2>11. CASE StartWorker \/ UpdateLocks \/ Joined
    BY <2>11 DEF StartWorker, UpdateLocks, Joined
  <2>12. CASE UNCHANGED vars
    BY <2>12 DEF vars
  <2> QED
    BY <1>1, <2>1, <2>2, <2>3, <2>4, <2>5, <2>6, <2>7, <2>8, <2>9, <2>10, <2>11, <2>12
       DEF Next, Worker, WorkerPasses, HostProceeds, HostWaits, Destroyed
<1>2. TypeOK /\ ControlInv /\ [Next]_vars =>
        [\A g \in Groups :
           ~enabled'[g] /\ visited # g =>
             prepared'[g] = prepared[g] /\ pending'[g] = pending[g]]_vars
  BY <1>1
<1> QED
  BY <1>2, ControlCorrect, TypeCorrect, PTL DEF Spec, PauseKeepsOutcome

\* Nothing takes a prepared generation away but update(), a newer observation,
\* or the report of an ill-named marker.
THEOREM PreparedWorkIsKeptAlways == Spec => PreparedWorkIsKept
<1> DEFINE Kept(g) == prepared[g] # None /\ prepared'[g] # prepared[g] =>
                        \/ call = "managed"
                        \/ cursor[g] > prepared[g].sequence
                        \/ badMarkers'[g] # badMarkers[g]
<1>1. ASSUME TypeOK, ControlInv, WaitingInv, [Next]_vars, NEW g \in Groups PROVE Kept(g)
  <2> USE DEF consumer, outcome
  <2>1. CASE prepared' = prepared
    BY <2>1
  <2>2. CASE Environment
    BY <2>1, <2>2 DEF Environment, Publish, DropMarker, BuildObject
  <2>3. CASE WorkerWakes \/ WorkerStops \/ WorkerRaises \/ WorkerRests \/ WorkerVisits
    BY <2>1, <2>3 DEF WorkerWakes, WorkerStops, WorkerRaises, WorkerRests, WorkerVisits
  <2>4. CASE PreparationSucceeds \/ PreparationFails
    <3>1. \A h \in Groups : h # visited => prepared'[h] = prepared[h]
      BY <1>1, <2>4 DEF PreparationSucceeds, PreparationFails, RecordPrepared,
         RecordRejection, TypeOK
    <3>2. CASE g = visited
      <4>1. prepared[g] # None => prepared[g].sequence < cursor[g]
        BY <1>1, <2>4, <3>2 DEF PreparationSucceeds, PreparationFails, WaitingInv
      <4>2. prepared[g] # None => prepared[g].sequence \in Nat /\ cursor[g] \in Nat
        BY <1>1, OfferType, BaselineIsASequence DEF TypeOK
      <4> QED
        BY <4>1, <4>2
    <3> QED
      BY <3>1, <3>2
  <2>5. ASSUME NEW h \in Groups, PollIdle(h) \/ PollThrows(h) \/ PollObserves(h)
        PROVE prepared' = prepared
    BY <2>5 DEF PollIdle, PollThrows, PollObserves
  <2>6. ASSUME NEW h \in Groups, NEW n \in Markers, PollRejectsMarker(h, n) PROVE Kept(g)
    <3>1. h # g => prepared'[g] = prepared[g]
      BY <1>1, <2>6 DEF PollRejectsMarker, RecordRejection, TypeOK
    <3>2. n \notin badMarkers[h] /\ n \in badMarkers'[h]
      BY <1>1, <2>6 DEF PollRejectsMarker, Unreported, TypeOK
    <3> QED
      BY <3>1, <3>2
  <2>7. CASE HostCalls
    BY <2>1, <2>7 DEF HostCalls, WatchBegins, UnwatchBegins, UpdateBegins, Destroy
  <2>8. CASE EnableGroup \/ DisableGroup \/ SelectionReturns \/ ManagedDone \/ ClaimObjects
             \/ NoObjects \/ BatchPoisons \/ UpdateReturns
    BY <2>1, <2>8 DEF EnableGroup, DisableGroup, SelectionReturns, ManagedDone,
       ClaimObjects, NoObjects, BatchPoisons, UpdateReturns
  <2>9. ASSUME NEW h \in Groups,
               \/ UpdateSkips(h) \/ CommitPoisons(h) \/ CommitApplies(h) \/ CommitRejects(h)
               \/ ReportsPending(h)
        PROVE call = "managed"
    BY <2>9 DEF UpdateSkips, CommitPoisons, CommitApplies, CommitRejects, ReportsPending,
       Updating
  <2>10. ASSUME NEW status \in {"applied", "rejected"}, BatchEnds(status)
         PROVE prepared' = prepared
    BY <2>10 DEF BatchEnds
  <2>11. CASE StartWorker \/ UpdateLocks \/ Joined
    BY <2>1, <2>11 DEF StartWorker, UpdateLocks, Joined
  <2>12. CASE UNCHANGED vars
    BY <2>1, <2>12 DEF vars
  <2> QED
    BY <1>1, <2>1, <2>2, <2>3, <2>4, <2>5, <2>6, <2>7, <2>8, <2>9, <2>10, <2>11, <2>12
       DEF Next, Worker, WorkerPasses, HostProceeds, HostWaits, Destroyed
<1>2. TypeOK /\ ControlInv /\ WaitingInv /\ [Next]_vars =>
        [\A g \in Groups :
           prepared[g] # None /\ prepared'[g] # prepared[g] =>
             \/ call = "managed"
             \/ cursor[g] > prepared[g].sequence
             \/ badMarkers'[g] # badMarkers[g]]_vars
  BY <1>1
<1> QED
  BY <1>2, WaitingCorrect, ControlCorrect, TypeCorrect, PTL DEF Spec, PreparedWorkIsKept

-----------------------------------------------------------------------------
(* Order.  Whatever was said of a group is of offers its cursor has        *)
(* passed, and older than what waits in it or is being prepared, so that   *)
(* the next event about it is of a later offer.                            *)

Ordered(s) ==
  \A i, j \in DOMAIN s :
    i < j /\ s[i].group = s[j].group /\ s[j].offer # MarkerRejection =>
      s[i].offer.sequence < s[j].offer.sequence

\* Nothing was said of g that is of the sequence n or a later one.
SaidBefore(s, g, n) == \A i \in DOMAIN s : s[i].group = g => s[i].offer.sequence < n
Past(g, n) == SaidBefore(told, g, n) /\ SaidBefore(events, g, n)

OrderInv ==
  /\ Ordered(told) /\ Ordered(events)
  /\ \A j \in DOMAIN events : /\ events[j].offer # MarkerRejection =>
                                   SaidBefore(told, events[j].group, events[j].offer.sequence)
                              /\ events[j].group = ObjectWatch =>
                                   events[j].offer = MarkerRejection
  /\ \A g \in Groups :
       /\ Past(g, cursor[g] + 1)
       /\ prepared[g] # None => Past(g, prepared[g].sequence)
       /\ pending[g] \notin {None, MarkerRejection} => Past(g, pending[g].sequence)
       /\ loading # None /\ visited = g => Past(g, cursor[g])

\* The elements of a sequence and of one that was appended to it.
LEMMA Appended ==
  ASSUME NEW s \in Seq(Event), NEW e \in Event
  PROVE  /\ DOMAIN Append(s, e) = DOMAIN s \cup {Len(s) + 1}
         /\ \A i \in DOMAIN s : i <= Len(s) /\ i \in Nat /\ Append(s, e)[i] = s[i]
         /\ Append(s, e)[Len(s) + 1] = e
         /\ Len(s) + 1 \notin DOMAIN s
OBVIOUS

\* The elements of two sequences one after the other.
LEMMA Concatenated ==
  ASSUME NEW s \in Seq(Event), NEW t \in Seq(Event)
  PROVE  /\ \A i \in DOMAIN (s \o t) :
              \/ i \in DOMAIN s /\ (s \o t)[i] = s[i]
              \/ i - Len(s) \in DOMAIN t /\ i > Len(s) /\ (s \o t)[i] = t[i - Len(s)]
         /\ \A i \in DOMAIN s : i <= Len(s) /\ i \in DOMAIN (s \o t) /\ (s \o t)[i] = s[i]
         /\ \A i \in DOMAIN t : i + Len(s) \in DOMAIN (s \o t) /\ (s \o t)[i + Len(s)] = t[i]
OBVIOUS

\* What was said before one sequence was said before a later one.
LEMMA SaidBeforeLater ==
  ASSUME NEW s \in Seq(Event), NEW g, NEW m \in Nat, NEW n \in Nat, m <= n,
         SaidBefore(s, g, m)
  PROVE  SaidBefore(s, g, n)
<1> SUFFICES ASSUME NEW i \in DOMAIN s, s[i].group = g PROVE s[i].offer.sequence < n
  BY DEF SaidBefore
<1>1. s[i] \in Event
  OBVIOUS
<1>2. s[i].offer \in Offers \cup {MarkerRejection}
  BY <1>1 DEF Event
<1>3. s[i].offer.sequence \in Nat
  BY <1>2, OfferType
<1> QED
  BY <1>3 DEF SaidBefore

\* Numbers the invariant compares.
LEMMA OrderNumbers ==
  ASSUME TypeOK, NEW g \in Groups
  PROVE  /\ cursor[g] \in Nat
         /\ prepared[g] # None => prepared[g].sequence \in Nat
         /\ pending[g] # None => pending[g].sequence \in Nat
         /\ loading # None => loading.sequence \in Nat
BY OfferType, BaselineIsASequence DEF TypeOK

\* The poll passes to a later offer: what was said is older than it.
LEMMA OrderObserves ==
  ASSUME TypeOK, OrderInv, NEW g \in Groups, PollObserves(g)
  PROVE  OrderInv'
<1>1. PICK o \in Newest(g) : cursor' = [cursor EXCEPT ![g] = o.sequence] /\ loading' = o
  BY DEF PollObserves
<1>2. o \in Offers /\ o.sequence > cursor[g]
  BY <1>1 DEF Newest, Newer, TypeOK
<1>3. cursor'[g] = o.sequence /\ \A h \in Groups \ {g} : cursor'[h] = cursor[h]
  BY <1>1 DEF TypeOK
<1>4. visited' = g /\ visited = g /\ UNCHANGED <<prepared, pending, told, events>>
  BY DEF PollObserves, Polling, outcome, host, history
<1>5. cursor[g] \in Nat /\ o.sequence \in Nat /\ told \in Seq(Event) /\ events \in Seq(Event)
  BY <1>2, OrderNumbers, OfferType DEF TypeOK
<1>6. Past(g, cursor[g] + 1)
  BY DEF OrderInv
<1>7. cursor[g] + 1 <= o.sequence /\ cursor[g] + 1 <= o.sequence + 1 /\ cursor[g] + 1 \in Nat
      /\ o.sequence + 1 \in Nat
  BY <1>2, <1>5
<1>8. Past(g, cursor'[g]) /\ Past(g, cursor'[g] + 1)
  BY <1>3, <1>5, <1>6, <1>7, SaidBeforeLater DEF Past
<1> QED
  BY <1>3, <1>4, <1>8 DEF OrderInv, Past

\* The outcome of a preparation is of the offer the cursor is at.
LEMMA OrderRecords ==
  ASSUME TypeOK, ControlInv, WaitingInv, OrderInv,
         \/ PreparationSucceeds \/ PreparationFails
         \/ \E g \in Groups, n \in Markers : PollRejectsMarker(g, n)
  PROVE  OrderInv'
<1>1. CASE PreparationSucceeds \/ PreparationFails
  <2>1. /\ visited \in Groups /\ loading # None /\ loading.sequence = cursor[visited]
        /\ Past(visited, cursor[visited])
    BY <1>1 DEF PreparationSucceeds, PreparationFails, ControlInv, WaitingInv, OrderInv, TypeOK
  <2>2. UNCHANGED <<cursor, told, events>> /\ loading' = None
    BY <1>1 DEF PreparationSucceeds, PreparationFails, host, history
  <2>3. \A h \in Groups \ {visited} : prepared'[h] = prepared[h] /\ pending'[h] = pending[h]
    BY <1>1 DEF PreparationSucceeds, PreparationFails, RecordPrepared, RecordRejection, TypeOK
  <2>4. prepared'[visited] \in {None, loading} /\ pending'[visited] \in {None, loading}
    BY <1>1, <2>1 DEF PreparationSucceeds, PreparationFails, RecordPrepared, RecordRejection,
       TypeOK
  <2> QED
    BY <2>1, <2>2, <2>3, <2>4 DEF OrderInv, Past
<1>2. ASSUME NEW g \in Groups, NEW n \in Markers, PollRejectsMarker(g, n) PROVE OrderInv'
  <2>1. /\ prepared'[g] = None /\ pending'[g] = MarkerRejection
        /\ \A h \in Groups \ {g} : prepared'[h] = prepared[h] /\ pending'[h] = pending[h]
    BY <1>2 DEF PollRejectsMarker, RecordRejection, TypeOK
  <2>2. UNCHANGED <<cursor, loading, told, events>> /\ loading = None
    BY <1>2 DEF PollRejectsMarker, Polling, host, history
  <2> QED
    BY <2>1, <2>2 DEF OrderInv, Past
<1> QED
  BY <1>1, <1>2

\* An event that is newer than all others of its group, and takes with it what
\* waited in the group, keeps the order.
LEMMA OrderReported ==
  ASSUME TypeOK, OrderInv, NEW e \in Event,
         events' = Append(events, e), told' = told, cursor' = cursor,
         loading' = loading, visited' = visited,
         e.offer # MarkerRejection => Past(e.group, e.offer.sequence),
         e.group = ObjectWatch => e.offer = MarkerRejection,
         \A h \in Groups :
           IF h = e.group
           THEN /\ e.offer.sequence <= cursor[h] /\ loading = None
                /\ prepared'[h] = None /\ pending'[h] = None
           ELSE prepared'[h] = prepared[h] /\ pending'[h] = pending[h]
  PROVE  OrderInv'
<1>1. events \in Seq(Event) /\ told \in Seq(Event)
  BY DEF TypeOK
<1> DEFINE last == Len(events) + 1
<1>2. /\ DOMAIN events' = DOMAIN events \cup {last}
      /\ \A i \in DOMAIN events : i < last /\ i \in Nat /\ events'[i] = events[i]
      /\ events'[last] = e /\ last \notin DOMAIN events /\ last \in Nat
  BY <1>1, Appended
<1> HIDE DEF last
<1>3. ASSUME NEW g, NEW n, SaidBefore(events, g, n), e.group = g => e.offer.sequence < n
      PROVE SaidBefore(events', g, n)
  BY <1>2, <1>3 DEF SaidBefore
<1>4. Ordered(events')
  <2> SUFFICES ASSUME NEW i \in DOMAIN events', NEW j \in DOMAIN events', i < j,
                      events'[i].group = events'[j].group,
                      events'[j].offer # MarkerRejection
               PROVE events'[i].offer.sequence < events'[j].offer.sequence
    BY DEF Ordered
  <2>1. CASE j = last
    <3>1. i \in DOMAIN events
      BY <1>2, <2>1
    <3> QED
      BY <1>2, <2>1, <3>1 DEF Past, SaidBefore
  <2>2. CASE j # last
    BY <1>2, <2>2 DEF OrderInv, Ordered
  <2> QED
    BY <2>1, <2>2
<1>5. \A j \in DOMAIN events' :
        /\ events'[j].offer # MarkerRejection =>
             SaidBefore(told, events'[j].group, events'[j].offer.sequence)
        /\ events'[j].group = ObjectWatch => events'[j].offer = MarkerRejection
  BY <1>2 DEF OrderInv, Past
<1>6. ASSUME NEW h \in Groups
      PROVE /\ Past(h, cursor[h] + 1)'
            /\ prepared'[h] # None => Past(h, prepared[h].sequence)'
            /\ pending'[h] \notin {None, MarkerRejection} => Past(h, pending[h].sequence)'
            /\ loading' # None /\ visited' = h => Past(h, cursor[h])'
  <2>1. cursor[h] \in Nat /\ e.offer.sequence \in Nat
    BY OrderNumbers, OfferType DEF Event
  <2>2. e.group = h => e.offer.sequence < cursor[h] + 1
    BY <2>1
  <2>3. Past(h, cursor[h] + 1)'
    BY <1>3, <2>2 DEF OrderInv, Past
  <2>4. CASE h = e.group
    BY <2>3, <2>4
  <2>5. CASE h # e.group
    BY <1>3, <2>3, <2>5 DEF OrderInv, Past
  <2> QED
    BY <2>4, <2>5
<1> QED
  BY <1>4, <1>5, <1>6 DEF OrderInv

\* A call that returns adds its events to those of the calls before.
LEMMA OrderReturns ==
  ASSUME TypeOK, OrderInv, UpdateReturns
  PROVE  OrderInv'
<1> DEFINE es == Managed(events)
<1>1. told \in Seq(Event) /\ events \in Seq(Event) /\ es \in Seq(Event)
  BY ManagedType DEF TypeOK
<1>2. \A k \in DOMAIN es : k \in DOMAIN events /\ es[k] = events[k]
  BY <1>1, ManagedType
<1>3. told' = told \o es /\ events' = <<>>
  BY DEF UpdateReturns
<1>4. UNCHANGED <<cursor, prepared, pending, visited, loading>>
  BY DEF UpdateReturns, consumer, outcome, worker
<1> HIDE DEF es
<1>5. \A i \in DOMAIN told' :
        \/ i \in DOMAIN told /\ told'[i] = told[i]
        \/ i - Len(told) \in DOMAIN events /\ i > Len(told)
             /\ told'[i] = events[i - Len(told)]
  BY <1>1, <1>2, <1>3, Concatenated
<1>6. \A i \in DOMAIN told : i <= Len(told)
  BY <1>1, Concatenated
<1>7. DOMAIN told' \subseteq Nat /\ Len(told) \in Nat
  BY <1>1, <1>3
<1>8. Ordered(told')
  <2> SUFFICES ASSUME NEW i \in DOMAIN told', NEW j \in DOMAIN told', i < j,
                      told'[i].group = told'[j].group, told'[j].offer # MarkerRejection
               PROVE told'[i].offer.sequence < told'[j].offer.sequence
    BY DEF Ordered
  <2>1. CASE j \in DOMAIN told /\ told'[j] = told[j]
    <3>1. i \in DOMAIN told /\ told'[i] = told[i]
      BY <2>1, <1>5, <1>6, <1>7
    <3> QED
      BY <2>1, <3>1 DEF OrderInv, Ordered
  <2>2. CASE j - Len(told) \in DOMAIN events /\ told'[j] = events[j - Len(told)]
    <3>1. CASE i \in DOMAIN told /\ told'[i] = told[i]
      BY <2>2, <3>1 DEF OrderInv, SaidBefore
    <3>2. CASE i - Len(told) \in DOMAIN events /\ told'[i] = events[i - Len(told)]
      <4>1. i - Len(told) < j - Len(told)
        BY <1>7
      <4> QED
        BY <2>2, <3>2, <4>1 DEF OrderInv, Ordered
    <3> QED
      BY <1>5, <3>1, <3>2
  <2> QED
    BY <1>5, <2>1, <2>2
<1>9. ASSUME NEW g, NEW n, Past(g, n) PROVE SaidBefore(told', g, n) /\ SaidBefore(events', g, n)
  BY <1>3, <1>5, <1>9 DEF Past, SaidBefore
<1>10. Ordered(events') /\ DOMAIN events' = {}
  BY <1>3 DEF Ordered
<1> QED
  BY <1>4, <1>8, <1>9, <1>10 DEF OrderInv, Past

\* A step that says nothing, or forgets what an unfinished call has said.
LEMMA OrderSilent ==
  ASSUME TypeOK, OrderInv, UNCHANGED <<told, cursor, prepared, pending>>,
         events' = events \/ events' = <<>>,
         loading' = None \/ UNCHANGED <<visited, loading>>
  PROVE  OrderInv'
<1>1. CASE events' = events
  BY <1>1 DEF OrderInv, Past
<1>2. CASE events' = <<>>
  <2>1. DOMAIN events' = {}
    BY <1>2
  <2> QED
    BY <2>1 DEF OrderInv, Past, Ordered, SaidBefore
<1> QED
  BY <1>1, <1>2

\* An outcome of a group is reported while no offer is being prepared.
LEMMA OrderUpdates ==
  ASSUME TypeOK, ControlInv, WaitingInv, OrderInv, NEW g \in Groups,
         CommitApplies(g) \/ CommitRejects(g) \/ ReportsPending(g)
  PROVE  OrderInv'
<1>1. PICK o \in Offers \cup {MarkerRejection}, status \in {"applied", "rejected"} :
        /\ events' = Append(events, [group |-> g, offer |-> o, status |-> status])
        /\ \/ o = prepared[g] /\ prepared[g] # None
           \/ o = pending[g] /\ pending[g] # None
  <2>1. CASE CommitApplies(g)
    BY <2>1 DEF CommitApplies, Reports, MayCommit, TypeOK
  <2>2. CASE CommitRejects(g)
    BY <2>2 DEF CommitRejects, Reports, MayCommit, TypeOK
  <2>3. CASE ReportsPending(g)
    BY <2>3 DEF ReportsPending, Reports, TypeOK
  <2> QED
    BY <2>1, <2>2, <2>3
<1> DEFINE e == [group |-> g, offer |-> o, status |-> status]
<1>2. e \in Event /\ e.group = g /\ e.offer = o
  BY DEF Event
<1>3. loading = None
  BY DEF CommitApplies, CommitRejects, ReportsPending, Updating, ControlInv
<1>4. UNCHANGED <<told, cursor, loading, visited>>
  BY DEF CommitApplies, CommitRejects, ReportsPending, worker, history
<1>5. /\ prepared'[g] = None /\ pending'[g] = None
      /\ \A h \in Groups \ {g} : prepared'[h] = prepared[h] /\ pending'[h] = pending[h]
  BY DEF CommitApplies, CommitRejects, ReportsPending, MayCommit, WaitingInv, TypeOK
<1>6. o.sequence <= cursor[g]
  BY <1>1, <1>3, OrderNumbers DEF WaitingInv
<1>7. o # MarkerRejection => Past(g, o.sequence)
  BY <1>1 DEF OrderInv
<1>8. g # ObjectWatch
  BY ObjectWatchIsNoGroup
<1> QED
  BY <1>1, <1>2, <1>3, <1>4, <1>5, <1>6, <1>7, <1>8, OrderReported

\* The event about the object watches has no place in any stream.
LEMMA OrderBatch ==
  ASSUME TypeOK, OrderInv, NEW status \in {"applied", "rejected"}, BatchEnds(status)
  PROVE  OrderInv'
<1> DEFINE e == [group |-> ObjectWatch, offer |-> MarkerRejection, status |-> status]
<1>1. e \in Event /\ e.group = ObjectWatch /\ e.offer = MarkerRejection
  BY DEF Event
<1>2. events' = Append(events, e) /\ UNCHANGED <<told, cursor, loading, visited, prepared, pending>>
  BY DEF BatchEnds, Reports, consumer, outcome, worker, history
<1>3. \A h \in Groups : h # e.group
  BY <1>1, ObjectWatchIsNoGroup
<1> QED
  BY <1>1, <1>2, <1>3, OrderReported

\* No step says anything that is older than what was said before.
LEMMA OrderStep == TypeOK /\ ControlInv /\ WaitingInv /\ OrderInv /\ [Next]_vars => OrderInv'
<1> SUFFICES ASSUME TypeOK, ControlInv, WaitingInv, OrderInv, [Next]_vars PROVE OrderInv'
  OBVIOUS
<1> USE DEF consumer, outcome, worker, host, history
<1>1. CASE Environment
  BY <1>1, OrderSilent DEF Environment, Publish, DropMarker, BuildObject
<1>2. CASE WorkerWakes \/ WorkerStops \/ WorkerRaises \/ WorkerRests
  BY <1>2, OrderSilent DEF WorkerWakes, WorkerStops, WorkerRaises, WorkerRests
<1>3. CASE WorkerVisits
  BY <1>3, OrderSilent DEF WorkerVisits, ControlInv
<1>4. ASSUME NEW g \in Groups, PollIdle(g) \/ PollThrows(g) PROVE OrderInv'
  BY <1>4, OrderSilent DEF PollIdle, PollThrows, Polling
<1>5. CASE HostCalls
  BY <1>5, OrderSilent DEF HostCalls, WatchBegins, UnwatchBegins, UpdateBegins, Destroy
<1>6. CASE EnableGroup \/ DisableGroup \/ SelectionReturns \/ ManagedDone \/ ClaimObjects
           \/ NoObjects \/ BatchPoisons
  BY <1>6, OrderSilent DEF EnableGroup, OpenStream, DisableGroup, SelectionReturns,
     ManagedDone, ClaimObjects, NoObjects, BatchPoisons
<1>7. ASSUME NEW g \in Groups, UpdateSkips(g) \/ CommitPoisons(g) PROVE OrderInv'
  BY <1>7, OrderSilent DEF UpdateSkips, CommitPoisons
<1>8. CASE StartWorker \/ UpdateLocks \/ Joined
  BY <1>8, OrderSilent DEF StartWorker, UpdateLocks, Joined
<1>9. CASE UNCHANGED vars
  BY <1>9, OrderSilent DEF vars
<1> QED
  BY <1>1, <1>2, <1>3, <1>4, <1>5, <1>6, <1>7, <1>8, <1>9, OrderObserves, OrderRecords,
     OrderUpdates, OrderBatch, OrderReturns
     DEF Next, Worker, WorkerPasses, HostProceeds, HostWaits, Destroyed

\* Events about the offers of a group come in the order of their sequences,
\* each once, across supersession, pauses and rejections.
THEOREM NothingIsReplayedAlways == Spec => []NothingIsReplayed
<1>1. Init => OrderInv
  <2> SUFFICES ASSUME Init PROVE OrderInv
    OBVIOUS
  <2>1. DOMAIN told = {} /\ DOMAIN events = {}
    BY DEF Init
  <2> QED
    BY <2>1 DEF Init, OrderInv, Ordered, Past, SaidBefore
<1>2. OrderInv => NothingIsReplayed
  BY DEF OrderInv, Ordered, NothingIsReplayed
<1> QED
  BY <1>1, <1>2, OrderStep, WaitingCorrect, ControlCorrect, TypeCorrect, PTL DEF Spec

-----------------------------------------------------------------------------
(* Completeness.  What was committed is in the events of the call that     *)
(* committed it until that call returns.                                   *)

Applied(g, o) == [group |-> g, offer |-> o, status |-> "applied"]
IsSaid(s, e) == \E j \in DOMAIN s : s[j] = e

ToldInv ==
  ~poisoned =>
    \A g \in Groups : \A i \in DOMAIN committed[g] :
      \/ IsSaid(told, Applied(g, committed[g][i]))
      \/ call \in {"managed", "objects", "batch", "returning"}
           /\ IsSaid(events, Applied(g, committed[g][i]))

\* What was said stays said.
LEMMA SaidStays ==
  ASSUME TypeOK, NEW e \in Event, NEW f \in Event, events' = Append(events, e)
  PROVE  IsSaid(events', e) /\ (IsSaid(events, f) => IsSaid(events', f))
<1>1. events \in Seq(Event)
  BY DEF TypeOK
<1> QED
  BY <1>1, Appended DEF IsSaid

\* What a finished call said about managed groups is told.
LEMMA SaidIsTold ==
  ASSUME TypeOK, UpdateReturns, NEW e
  PROVE  /\ IsSaid(told, e) => IsSaid(told', e)
         /\ IsSaid(events, e) /\ e.group # ObjectWatch => IsSaid(told', e)
<1> DEFINE es == Managed(events)
<1>1. told \in Seq(Event) /\ events \in Seq(Event) /\ es \in Seq(Event)
  BY ManagedType DEF TypeOK
<1>2. told' = told \o es
  BY DEF UpdateReturns
<1>3. IsSaid(events, e) /\ e.group # ObjectWatch => IsSaid(es, e)
  BY <1>1, ManagedType DEF IsSaid
<1> HIDE DEF es
<1>4. \A i \in DOMAIN told : i \in DOMAIN told' /\ told'[i] = told[i]
  BY <1>1, <1>2, Concatenated
<1>5. \A i \in DOMAIN es : i + Len(told) \in DOMAIN told' /\ told'[i + Len(told)] = es[i]
  BY <1>1, <1>2, Concatenated
<1>6. IsSaid(told, e) => IsSaid(told', e)
  BY <1>4 DEF IsSaid
<1>7. IsSaid(es, e) => IsSaid(told', e)
  BY <1>5 DEF IsSaid
<1> QED
  BY <1>3, <1>6, <1>7

\* Only a commit adds to what must be told, and it says so.
LEMMA ToldStep == TypeOK /\ ControlInv /\ ToldInv /\ [Next]_vars => ToldInv'
<1> SUFFICES ASSUME TypeOK, ControlInv, ToldInv, [Next]_vars PROVE ToldInv'
  OBVIOUS
<1> DEFINE Collecting == {"managed", "objects", "batch", "returning"}
<1>1. CASE /\ UNCHANGED <<told, committed, poisoned>>
           /\ \/ call' = call /\ events' = events
              \/ call \notin Collecting
              \/ call \in Collecting /\ call' \in Collecting /\ events' = events
  BY <1>1 DEF ToldInv
<1>2. CASE poisoned' = TRUE
  BY <1>2 DEF ToldInv
<1> USE DEF worker, host, history, errors
<1>3. CASE Environment
  BY <1>1, <1>3 DEF Environment, Publish, DropMarker, BuildObject
<1>4. CASE WorkerWakes \/ WorkerStops \/ WorkerRaises \/ WorkerRests \/ WorkerVisits
  BY <1>1, <1>4 DEF WorkerWakes, WorkerStops, WorkerRaises, WorkerRests, WorkerVisits
<1>5. CASE PreparationSucceeds \/ PreparationFails
  BY <1>1, <1>5 DEF PreparationSucceeds, PreparationFails
<1>6. ASSUME NEW g \in Groups,
             \/ PollIdle(g) \/ PollThrows(g) \/ PollObserves(g)
             \/ \E n \in Markers : PollRejectsMarker(g, n)
      PROVE ToldInv'
  BY <1>1, <1>6 DEF PollIdle, PollThrows, PollObserves, PollRejectsMarker
<1>7. CASE HostCalls
  BY <1>1, <1>7 DEF HostCalls, WatchBegins, UnwatchBegins, UpdateBegins, Destroy, Begins
<1>8. CASE EnableGroup \/ DisableGroup \/ SelectionReturns
  BY <1>1, <1>8 DEF EnableGroup, DisableGroup, SelectionReturns
<1>9. CASE ManagedDone \/ ClaimObjects \/ NoObjects
  BY <1>1, <1>9 DEF ManagedDone, ClaimObjects, NoObjects
<1>10. CASE StartWorker \/ UpdateLocks \/ Joined
  BY <1>1, <1>10 DEF StartWorker, UpdateLocks, Joined
<1>11. CASE BatchPoisons
  BY <1>2, <1>11 DEF BatchPoisons
<1>12. ASSUME NEW g \in Groups, CommitPoisons(g) PROVE ToldInv'
  BY <1>2, <1>12 DEF CommitPoisons
<1>13. ASSUME NEW g \in Groups, UpdateSkips(g) PROVE ToldInv'
  BY <1>1, <1>13 DEF UpdateSkips
<1>14. ASSUME NEW e \in Event, events' = Append(events, e),
              call \in Collecting, call' \in Collecting, UNCHANGED <<told, poisoned>>,
              \A g \in Groups : \A i \in DOMAIN committed'[g] :
                \/ i \in DOMAIN committed[g] /\ committed'[g][i] = committed[g][i]
                \/ e = Applied(g, committed'[g][i]),
              \A g \in Groups : \A i \in DOMAIN committed[g] : committed[g][i] \in Offers
       PROVE ToldInv'
  <2> SUFFICES ASSUME ~poisoned, NEW g \in Groups, NEW i \in DOMAIN committed'[g]
               PROVE \/ IsSaid(told, Applied(g, committed'[g][i]))
                     \/ IsSaid(events', Applied(g, committed'[g][i]))
    BY <1>14 DEF ToldInv
  <2>1. CASE e = Applied(g, committed'[g][i])
    BY <1>14, <2>1, SaidStays
  <2>2. CASE i \in DOMAIN committed[g] /\ committed'[g][i] = committed[g][i]
    <3>1. Applied(g, committed[g][i]) \in Event
      BY <1>14, <2>2 DEF Applied, Event
    <3>2. \/ IsSaid(told, Applied(g, committed[g][i]))
          \/ IsSaid(events, Applied(g, committed[g][i]))
      BY <2>2 DEF ToldInv
    <3> QED
      BY <1>14, <2>2, <3>1, <3>2, SaidStays
  <2> QED
    BY <1>14, <2>1, <2>2
<1>15. \A g \in Groups : committed[g] \in Seq(Offers)
  BY DEF TypeOK
<1>16. \A g \in Groups : \A i \in DOMAIN committed[g] : committed[g][i] \in Offers
  BY <1>15
<1>17. ASSUME NEW g \in Groups, CommitApplies(g) PROVE ToldInv'
  <2> DEFINE e == Applied(g, prepared[g])
  <2>1. prepared[g] \in Offers /\ e \in Event
    BY <1>17 DEF CommitApplies, MayCommit, Applied, Event, TypeOK
  <2>2. events' = Append(events, e) /\ call' = call /\ call \in Collecting
        /\ UNCHANGED <<told, poisoned>>
    BY <1>17 DEF CommitApplies, Reports, Applied, Updating
  <2>3. /\ committed'[g] = Append(committed[g], prepared[g])
        /\ \A h \in Groups \ {g} : committed'[h] = committed[h]
    BY <1>17 DEF CommitApplies, TypeOK
  <2>4. ASSUME NEW h \in Groups, NEW i \in DOMAIN committed'[h]
        PROVE \/ i \in DOMAIN committed[h] /\ committed'[h][i] = committed[h][i]
              \/ e = Applied(h, committed'[h][i])
    <3>1. CASE h # g
      BY <2>3, <3>1
    <3>2. CASE h = g
      BY <1>15, <2>1, <2>3, <3>2
    <3> QED
      BY <3>1, <3>2
  <2> QED
    BY <1>14, <1>16, <2>1, <2>2, <2>4
<1>18. ASSUME NEW g \in Groups, CommitRejects(g) \/ ReportsPending(g) PROVE ToldInv'
  <2>1. PICK e \in Event : events' = Append(events, e)
    BY <1>18 DEF CommitRejects, ReportsPending, Reports, MayCommit, Event, TypeOK
  <2>2. call' = call /\ call \in Collecting /\ UNCHANGED <<told, poisoned, committed>>
    BY <1>18 DEF CommitRejects, ReportsPending, Updating
  <2> QED
    BY <1>14, <1>16, <2>1, <2>2
<1>19. ASSUME NEW status \in {"applied", "rejected"}, BatchEnds(status) PROVE ToldInv'
  <2>1. PICK e \in Event : events' = Append(events, e)
    BY <1>19 DEF BatchEnds, Reports, Event
  <2>2. call' \in Collecting /\ call \in Collecting /\ UNCHANGED <<told, poisoned, committed>>
    BY <1>19 DEF BatchEnds
  <2> QED
    BY <1>14, <1>16, <2>1, <2>2
<1>20. CASE UpdateReturns
  <2>1. UNCHANGED <<committed, poisoned>>
    BY <1>20 DEF UpdateReturns
  <2>2. \A g \in Groups : \A o : Applied(g, o).group # ObjectWatch
    BY ObjectWatchIsNoGroup DEF Applied
  <2> QED
    BY <1>20, <2>1, <2>2, SaidIsTold DEF ToldInv
<1>21. CASE UNCHANGED vars
  BY <1>1, <1>21 DEF vars
<1> QED
  BY <1>3, <1>4, <1>5, <1>6, <1>7, <1>8, <1>9, <1>10, <1>11, <1>12, <1>13, <1>17, <1>18,
     <1>19, <1>20, <1>21
     DEF Next, Worker, WorkerPasses, HostProceeds, HostWaits, Destroyed

\* An update() that returned told of every generation it committed.
THEOREM EveryCommitIsToldAlways == Spec => []EveryCommitIsTold
<1>1. Init => ToldInv
  <2> SUFFICES ASSUME Init PROVE ToldInv
    OBVIOUS
  <2>1. \A g \in Groups : DOMAIN committed[g] = {}
    BY DEF Init
  <2> QED
    BY <2>1 DEF ToldInv
<1>2. ToldInv => EveryCommitIsTold
  BY DEF ToldInv, EveryCommitIsTold, IsSaid, Applied
<1> QED
  BY <1>1, <1>2, ToldStep, ControlCorrect, TypeCorrect, PTL DEF Spec
=============================================================================
