--------------------------- MODULE NativeSession ---------------------------
(***************************************************************************)
(* One native reload session (src/runtime/native_session.cpp) and its      *)
(* preparation worker (src/runtime/managed_worker.cpp).                    *)
(*                                                                         *)
(* The worker wakes every 100 ms, takes worker_mutex_, and polls the       *)
(* publication stream of every enabled group; the outcome of a poll waits  *)
(* in the group until update() commits or reports it.  The host thread     *)
(* makes one public call at a time.  Every call begins by taking the mutex *)
(* for a moment to look for a fatal worker error; update() then holds it   *)
(* over the managed groups, but watch() and unwatch() write the enabled    *)
(* flag, and update() loads and commits the object watches, without it.    *)
(*                                                                         *)
(* Loading and committing are single outcomes here; ReloadTransaction      *)
(* takes them apart.                                                       *)
(***************************************************************************)
EXTENDS Naturals, Sequences, FiniteSets

CONSTANTS Groups,            \* managed groups, numbered in group_id order
          MaxSequence,       \* bound on the publication sequence
          Generations,       \* generation ids, numbered in lexicographic order
          Markers,           \* ill-named files that may appear among the offers
          MaxFiles,          \* bound on the files that appear among the offers
          BaselineSequence,  \* last sequence the executable was built from
          ObjectWatch,       \* the group of an object-watch event
          None

ASSUME GroupsAreNumbered == Groups \subseteq Nat
ASSUME GenerationsAreNumbered == Generations \subseteq Nat
ASSUME BaselineIsASequence == MaxSequence \in Nat /\ BaselineSequence \in 0..MaxSequence
ASSUME MaxFilesIsANumber == MaxFiles \in Nat
ASSUME ObjectWatchIsNoGroup == ObjectWatch \notin Groups

Offers == [sequence : 1..MaxSequence, id : Generations]

\* A rejection of an ill-named marker has neither a sequence nor an id.
MarkerRejection == [sequence |-> 0, id |-> 0]

ASSUME NoneIsNothing == None \notin Offers \cup {MarkerRejection} \cup Groups

Event == [group  : Groups \cup {ObjectWatch},
          offer  : Offers \cup {MarkerRejection},
          status : {"applied", "rejected"}]

VARIABLES
  published,  \* offers in each group's stream
  markers,    \* ill-named markers in each group's stream
  object,     \* the watched object file: "absent", "ready"
  enabled,    \* managed_group::enabled
  cursor,     \* generation_stream::cursor_
  badMarkers, \* reported_bad_markers_ of each stream
  prepared,   \* the generation awaiting update(), or None
  pending,    \* the rejection awaiting update(), or None
  failed,     \* managed_group::failed
  lock,       \* who holds worker_mutex_: "free", "worker", "update"
  thread,     \* the worker thread
  running,    \* worker_running_
  todo,       \* groups this worker pass has not visited
  visited,    \* the group the worker is at, or None
  loading,    \* the offer the worker is preparing, or None
  fatal,      \* fatal_worker_error_ is set
  poisoned,   \* commit_poisoned_
  call,       \* how far the current public call has come
  visiting,   \* groups the current public call has not visited
  events,     \* update_result of the current call
  told,       \* history: managed events of all update() calls that returned
  committed   \* history: offers committed, per group

stream == <<published, markers, object>>
outcome == <<prepared, pending, failed>>
consumer == <<cursor, badMarkers, outcome>>
worker == <<thread, todo, visited, loading>>
host == <<call, visiting, events>>
history == <<told, committed>>
errors == <<fatal, poisoned>>
vars == <<stream, enabled, consumer, lock, running, worker, errors, host, history>>

-----------------------------------------------------------------------------
\* Calls and worker passes visit the groups in ascending group_id order.
Lowest(G) == {g \in G : \A h \in G : g <= h}

\* Newest wins: greatest sequence, then greatest generation id.
Older(p, o) == \/ p.sequence < o.sequence
               \/ p.sequence = o.sequence /\ p.id <= o.id

Newer(g) == {o \in published[g] : o.sequence > cursor[g]}

Newest(g) == {o \in Newer(g) : \A p \in Newer(g) : Older(p, o)}

Unreported(g) == markers[g] \ badMarkers[g]

\* Mistake: the rejection is logged and not kept for update().
SwallowsRejection(g, offer) ==
  /\ failed' = [failed EXCEPT ![g] = TRUE]
  /\ prepared' = [prepared EXCEPT ![g] = None]
  /\ UNCHANGED pending

\* A rejected observation replaces whatever was awaiting update().
RecordRejection(g, offer) ==
  /\ pending' = [pending EXCEPT ![g] = offer]
  /\ failed' = [failed EXCEPT ![g] = TRUE]
  /\ prepared' = [prepared EXCEPT ![g] = None]

\* Mistake: the rejection of an older offer is still reported.
RecordsGenerationOnly(g, offer) ==
  /\ prepared' = [prepared EXCEPT ![g] = offer]
  /\ failed' = [failed EXCEPT ![g] = FALSE]
  /\ UNCHANGED pending

RecordPrepared(g, offer) ==
  /\ prepared' = [prepared EXCEPT ![g] = offer]
  /\ failed' = [failed EXCEPT ![g] = FALSE]
  /\ pending' = [pending EXCEPT ![g] = None]

-----------------------------------------------------------------------------
(* The publisher and the build, outside this process. *)

MayAppear ==
  Cardinality({f \in Groups \X Offers : f[2] \in published[f[1]]})
    + Cardinality({f \in Groups \X Markers : f[2] \in markers[f[1]]}) < MaxFiles

Publish(g, o) ==
  /\ MayAppear
  /\ o \notin published[g]
  /\ published' = [published EXCEPT ![g] = @ \cup {o}]
  /\ UNCHANGED <<markers, object, enabled, consumer, lock, running, worker,
                 errors, host, history>>

DropMarker(g, n) ==
  /\ MayAppear
  /\ n \notin markers[g]
  /\ markers' = [markers EXCEPT ![g] = @ \cup {n}]
  /\ UNCHANGED <<published, object, enabled, consumer, lock, running, worker,
                 errors, host, history>>

BuildObject ==
  /\ object = "absent"
  /\ object' = "ready"
  /\ UNCHANGED <<published, markers, enabled, consumer, lock, running, worker,
                 errors, host, history>>

-----------------------------------------------------------------------------
(* The preparation worker. *)

\* wait_for returns after 100 ms, or at once when the destructor notifies.
WorkerWakes ==
  /\ thread = "waiting"
  /\ lock = "free"
  /\ running
  /\ lock' = "worker"
  /\ thread' = "pass"
  /\ todo' = Groups
  /\ UNCHANGED <<stream, enabled, consumer, running, visited, loading, errors,
                 host, history>>

WorkerStops ==
  /\ thread = "waiting"
  /\ lock = "free"
  /\ ~running
  /\ thread' = "exited"
  /\ UNCHANGED <<stream, enabled, consumer, lock, running, todo, visited,
                 loading, errors, host, history>>

\* The enabled flag is read without regard to the host, which may clear it
\* while the poll is under way.
WorkerVisits ==
  /\ thread = "pass" /\ visited = None
  /\ \E g \in Lowest(todo) :
       /\ visited' = IF enabled[g] THEN g ELSE None
       /\ todo' = todo \ {g}
  /\ UNCHANGED <<stream, enabled, consumer, lock, running, thread, loading,
                 errors, host, history>>

Polling(g) == thread = "pass" /\ visited = g /\ loading = None

PollIdle(g) ==
  /\ Polling(g)
  /\ Newer(g) = {} /\ Unreported(g) = {}
  /\ visited' = None
  /\ UNCHANGED <<stream, enabled, consumer, lock, running, thread, todo,
                 loading, errors, host, history>>

\* An ill-named marker is reported once, and only when nothing newer is there.
PollRejectsMarker(g, n) ==
  /\ Polling(g)
  /\ Newer(g) = {} /\ n \in Unreported(g)
  /\ badMarkers' = [badMarkers EXCEPT ![g] = @ \cup {n}]
  /\ RecordRejection(g, MarkerRejection)
  /\ visited' = None
  /\ UNCHANGED <<stream, enabled, cursor, lock, running, thread, todo, loading,
                 errors, host, history>>

\* The newest offer is past the cursor for good, whatever becomes of it.
PollObserves(g) ==
  /\ Polling(g)
  /\ \E o \in Newest(g) :
       /\ cursor' = [cursor EXCEPT ![g] = o.sequence]
       /\ loading' = o
  /\ UNCHANGED <<stream, enabled, badMarkers, outcome, lock, running, thread,
                 todo, visited, errors, host, history>>

PreparationSucceeds ==
  /\ loading # None
  /\ RecordPrepared(visited, loading)
  /\ loading' = None
  /\ visited' = None
  /\ UNCHANGED <<stream, enabled, cursor, badMarkers, lock, running, thread,
                 todo, errors, host, history>>

\* The offer fails validation in poll(), or its objects fail to load or link.
PreparationFails ==
  /\ loading # None
  /\ RecordRejection(visited, loading)
  /\ loading' = None
  /\ visited' = None
  /\ UNCHANGED <<stream, enabled, cursor, badMarkers, lock, running, thread,
                 todo, errors, host, history>>

\* An exception poll() does not handle unwinds the pass and frees the mutex.
PollThrows(g) ==
  /\ Polling(g)
  /\ Newer(g) # {}
  /\ thread' = "throwing"
  /\ lock' = "free"
  /\ visited' = None
  /\ todo' = {}
  /\ UNCHANGED <<stream, enabled, consumer, running, loading, errors, host,
                 history>>

\* raise_fatal_worker_error takes the mutex again.
WorkerRaises ==
  /\ thread = "throwing"
  /\ lock = "free"
  /\ fatal' = TRUE
  /\ running' = FALSE
  /\ thread' = "exited"
  /\ UNCHANGED <<stream, enabled, consumer, lock, todo, visited, loading,
                 poisoned, host, history>>

WorkerRests ==
  /\ thread = "pass" /\ visited = None
  /\ todo = {}
  /\ lock' = "free"
  /\ thread' = "waiting"
  /\ UNCHANGED <<stream, enabled, consumer, running, todo, visited, loading,
                 errors, host, history>>

-----------------------------------------------------------------------------
(* The host's calls. *)

\* check_fatal_error: the mutex must be free, and nothing fatal has happened.
Begins(name) ==
  /\ call = "idle"
  /\ lock = "free"
  /\ ~poisoned /\ ~fatal
  /\ call' = name

WatchBegins(G) ==
  /\ Begins("watch")
  /\ visiting' = G
  /\ UNCHANGED <<stream, enabled, consumer, lock, running, worker, errors,
                 events, history>>

\* Mistake: a stream is constructed by every watch(), at the baseline.
ReopensStream(g) ==
  /\ enabled' = [enabled EXCEPT ![g] = TRUE]
  /\ cursor' = [cursor EXCEPT ![g] = BaselineSequence]

\* Mistake: the cursor of a stream starts at zero, not at the baseline.
StartsAtZero(g) ==
  /\ enabled' = [enabled EXCEPT ![g] = TRUE]
  /\ cursor' = [cursor EXCEPT ![g] = IF @ = BaselineSequence THEN 0 ELSE @]

\* The stream outlives disable/enable cycles.
OpenStream(g) ==
  /\ enabled' = [enabled EXCEPT ![g] = TRUE]
  /\ UNCHANGED cursor

\* enable_managed_group, up to the start of the worker: no mutex is held.
EnableGroup ==
  /\ call = "watch"
  /\ \E g \in Lowest(visiting) :
       IF enabled[g]
       THEN /\ visiting' = visiting \ {g}
            /\ UNCHANGED <<enabled, cursor, call>>
       ELSE /\ OpenStream(g)
            /\ call' = "starting"
            /\ UNCHANGED visiting
  /\ UNCHANGED <<stream, badMarkers, outcome, lock, running, worker, errors,
                 events, history>>

\* start_worker: the first enabled group starts the only worker there is.
StartWorker ==
  /\ call = "starting"
  /\ lock = "free"
  /\ IF thread = "absent"
     THEN thread' = "waiting" /\ running' = TRUE
     ELSE UNCHANGED <<thread, running>>
  /\ visiting' = visiting \ Lowest(visiting)
  /\ call' = "watch"
  /\ UNCHANGED <<stream, enabled, consumer, lock, todo, visited, loading,
                 errors, events, history>>

UnwatchBegins(G) ==
  /\ Begins("unwatch")
  /\ visiting' = G
  /\ UNCHANGED <<stream, enabled, consumer, lock, running, worker, errors,
                 events, history>>

\* Mistake: a disabled group gives up what it has prepared.
DisableAndDrop ==
  /\ call = "unwatch"
  /\ \E g \in Lowest(visiting) :
       /\ enabled' = [enabled EXCEPT ![g] = FALSE]
       /\ prepared' = [prepared EXCEPT ![g] = None]
       /\ visiting' = visiting \ {g}
  /\ UNCHANGED <<stream, cursor, badMarkers, pending, failed, lock, running,
                 worker, errors, call, events, history>>

\* unwatch() clears the flag, and nothing else, without the mutex.
DisableGroup ==
  /\ call = "unwatch"
  /\ \E g \in Lowest(visiting) :
       /\ enabled' = [enabled EXCEPT ![g] = FALSE]
       /\ visiting' = visiting \ {g}
  /\ UNCHANGED <<stream, consumer, lock, running, worker, errors, call, events,
                 history>>

SelectionReturns ==
  /\ call \in {"watch", "unwatch"}
  /\ visiting = {}
  /\ call' = "idle"
  /\ UNCHANGED <<stream, enabled, consumer, lock, running, worker, errors,
                 visiting, events, history>>

UpdateBegins ==
  /\ Begins("update")
  /\ UNCHANGED <<stream, enabled, consumer, lock, running, worker, errors,
                 visiting, events, history>>

UpdateLocks ==
  /\ call = "update"
  /\ lock = "free"
  /\ lock' = "update"
  /\ call' = "managed"
  /\ visiting' = Groups
  /\ events' = <<>>
  /\ UNCHANGED <<stream, enabled, consumer, running, worker, errors, history>>

Reports(g, offer, status) ==
  events' = Append(events, [group |-> g, offer |-> offer, status |-> status])

Updating(g) == call = "managed" /\ g \in Lowest(visiting)

\* Mistake: a paused group's prepared generation is committed all the same.
AnyGroupMayCommit(g) == prepared[g] # None

\* update() works on enabled groups; a prepared generation comes first.
MayCommit(g) == enabled[g] /\ prepared[g] # None

UpdateSkips(g) ==
  /\ Updating(g)
  /\ \/ ~enabled[g]
     \/ prepared[g] = None /\ pending[g] = None
  /\ visiting' = visiting \ {g}
  /\ UNCHANGED <<stream, enabled, consumer, lock, running, worker, errors, call,
                 events, history>>

CommitApplies(g) ==
  /\ Updating(g)
  /\ MayCommit(g)
  /\ Reports(g, prepared[g], "applied")
  /\ committed' = [committed EXCEPT ![g] = Append(@, prepared[g])]
  /\ prepared' = [prepared EXCEPT ![g] = None]
  /\ failed' = [failed EXCEPT ![g] = FALSE]
  /\ visiting' = visiting \ {g}
  /\ UNCHANGED <<stream, enabled, cursor, badMarkers, pending, lock, running,
                 worker, errors, call, told>>

CommitRejects(g) ==
  /\ Updating(g)
  /\ MayCommit(g)
  /\ Reports(g, prepared[g], "rejected")
  /\ prepared' = [prepared EXCEPT ![g] = None]
  /\ failed' = [failed EXCEPT ![g] = TRUE]
  /\ visiting' = visiting \ {g}
  /\ UNCHANGED <<stream, enabled, cursor, badMarkers, pending, lock, running,
                 worker, errors, call, history>>

\* An incomplete rollback throws through update(), which frees the mutex.
\* The events collected so far are lost with the result.
CommitPoisons(g) ==
  /\ Updating(g)
  /\ MayCommit(g)
  /\ poisoned' = TRUE
  /\ lock' = "free"
  /\ call' = "idle"
  /\ visiting' = {}
  /\ events' = <<>>
  /\ UNCHANGED <<stream, enabled, consumer, running, worker, fatal, history>>

ReportsPending(g) ==
  /\ Updating(g)
  /\ enabled[g]
  /\ prepared[g] = None /\ pending[g] # None
  /\ Reports(g, pending[g], "rejected")
  /\ pending' = [pending EXCEPT ![g] = None]
  /\ visiting' = visiting \ {g}
  /\ UNCHANGED <<stream, enabled, cursor, badMarkers, prepared, failed, lock,
                 running, worker, errors, call, history>>

ManagedDone ==
  /\ call = "managed"
  /\ visiting = {}
  /\ lock' = "free"
  /\ call' = "objects"
  /\ UNCHANGED <<stream, enabled, consumer, running, worker, errors, visiting,
                 events, history>>

\* Claiming a watched file renames it away; from here to the end of the call
\* the objects are loaded, linked and committed with the mutex free.
ClaimObjects ==
  /\ call = "objects"
  /\ object = "ready"
  /\ object' = "absent"
  /\ call' = "batch"
  /\ UNCHANGED <<published, markers, enabled, consumer, lock, running, worker,
                 errors, visiting, events, history>>

NoObjects ==
  /\ call = "objects"
  /\ object = "absent"
  /\ call' = "returning"
  /\ UNCHANGED <<stream, enabled, consumer, lock, running, worker, errors,
                 visiting, events, history>>

\* Mistake: the object watch starts a result of its own.
BatchForgetsManaged(status) ==
  /\ call = "batch"
  /\ events' = <<[group |-> ObjectWatch, offer |-> MarkerRejection, status |-> status]>>
  /\ call' = "returning"
  /\ UNCHANGED <<stream, enabled, consumer, lock, running, worker, errors,
                 visiting, history>>

BatchEnds(status) ==
  /\ call = "batch"
  /\ Reports(ObjectWatch, MarkerRejection, status)
  /\ call' = "returning"
  /\ UNCHANGED <<stream, enabled, consumer, lock, running, worker, errors,
                 visiting, history>>

BatchPoisons ==
  /\ call = "batch"
  /\ poisoned' = TRUE
  /\ call' = "idle"
  /\ events' = <<>>
  /\ UNCHANGED <<stream, enabled, consumer, lock, running, worker, fatal,
                 visiting, history>>

\* The events about managed groups: the object watches are one event, the last.
Managed(es) ==
  IF es # <<>> /\ es[Len(es)].group = ObjectWatch THEN SubSeq(es, 1, Len(es) - 1) ELSE es

UpdateReturns ==
  /\ call = "returning"
  /\ told' = told \o Managed(events)
  /\ events' = <<>>
  /\ call' = "idle"
  /\ UNCHANGED <<stream, enabled, consumer, lock, running, worker, errors,
                 visiting, committed>>

\* Mistake: the destructor joins a worker nobody told to stop.
DestroyQuietly ==
  /\ call = "idle"
  /\ lock = "free"
  /\ call' = "joining"
  /\ UNCHANGED <<stream, enabled, consumer, lock, running, worker, errors,
                 visiting, events, history>>

\* ~native_session clears worker_running_ under the mutex and joins.
Destroy ==
  /\ call = "idle"
  /\ lock = "free"
  /\ running' = FALSE
  /\ call' = "joining"
  /\ UNCHANGED <<stream, enabled, consumer, lock, worker, errors, visiting,
                 events, history>>

Joined ==
  /\ call = "joining"
  /\ thread \in {"absent", "exited"}
  /\ call' = "destroyed"
  /\ UNCHANGED <<stream, enabled, consumer, lock, running, worker, errors,
                 visiting, events, history>>

\* Nothing acts for a destroyed session.
Destroyed == call = "destroyed" /\ UNCHANGED vars

-----------------------------------------------------------------------------
Init ==
  /\ published = [g \in Groups |-> {}]
  /\ markers = [g \in Groups |-> {}]
  /\ object = "absent"
  /\ enabled = [g \in Groups |-> FALSE]
  /\ cursor = [g \in Groups |-> BaselineSequence]
  /\ badMarkers = [g \in Groups |-> {}]
  /\ prepared = [g \in Groups |-> None]
  /\ pending = [g \in Groups |-> None]
  /\ failed = [g \in Groups |-> FALSE]
  /\ lock = "free"
  /\ thread = "absent"
  /\ running = FALSE
  /\ todo = {}
  /\ visited = None
  /\ loading = None
  /\ fatal = FALSE
  /\ poisoned = FALSE
  /\ call = "idle"
  /\ visiting = {}
  /\ events = <<>>
  /\ told = <<>>
  /\ committed = [g \in Groups |-> <<>>]

Environment ==
  \/ \E g \in Groups : (\E o \in Offers : Publish(g, o)) \/ (\E n \in Markers : DropMarker(g, n))
  \/ BuildObject

WorkerPasses ==
  \/ WorkerVisits \/ PreparationSucceeds \/ PreparationFails \/ WorkerRests
  \/ \E g \in Groups : PollIdle(g) \/ PollObserves(g) \/ PollThrows(g)
                       \/ \E n \in Markers : PollRejectsMarker(g, n)

Worker == WorkerWakes \/ WorkerStops \/ WorkerPasses \/ WorkerRaises

HostCalls ==
  \/ \E G \in {Groups} \cup {{g} : g \in Groups} : WatchBegins(G) \/ UnwatchBegins(G)
  \/ UpdateBegins \/ Destroy

HostProceeds ==
  \/ EnableGroup \/ DisableGroup \/ SelectionReturns
  \/ \E g \in Groups : UpdateSkips(g) \/ CommitApplies(g) \/ CommitRejects(g)
                       \/ CommitPoisons(g) \/ ReportsPending(g)
  \/ ManagedDone \/ ClaimObjects \/ NoObjects
  \/ \E status \in {"applied", "rejected"} : BatchEnds(status)
  \/ BatchPoisons \/ UpdateReturns

HostWaits == StartWorker \/ UpdateLocks \/ Joined

Next == Environment \/ Worker \/ HostCalls \/ HostProceeds \/ HostWaits \/ Destroyed

Spec == Init /\ [][Next]_vars

\* The worker runs whenever it can; so does a call that has begun.  A mutex
\* that keeps becoming free is eventually handed to each of the two threads
\* that waits for it: the worker is away from it for 100 ms after every pass.
\* The host calls update() over and over, whatever else it calls in between.
Fairness ==
  /\ WF_vars(WorkerPasses) /\ WF_vars(HostProceeds) /\ WF_vars(Joined)
  /\ SF_vars(WorkerWakes \/ WorkerStops \/ WorkerRaises)
  /\ SF_vars(StartWorker \/ UpdateLocks)
  /\ SF_vars(UpdateBegins)

FairSpec == Spec /\ Fairness

-----------------------------------------------------------------------------
(* Properties. *)

TypeOK ==
  /\ published \in [Groups -> SUBSET Offers]
  /\ markers \in [Groups -> SUBSET Markers]
  /\ object \in {"absent", "ready"}
  /\ enabled \in [Groups -> BOOLEAN]
  /\ cursor \in [Groups -> BaselineSequence..MaxSequence]
  /\ badMarkers \in [Groups -> SUBSET Markers]
  /\ prepared \in [Groups -> Offers \cup {None}]
  /\ pending \in [Groups -> Offers \cup {MarkerRejection, None}]
  /\ failed \in [Groups -> BOOLEAN]
  /\ lock \in {"free", "worker", "update"}
  /\ thread \in {"absent", "waiting", "pass", "throwing", "exited"}
  /\ running \in BOOLEAN
  /\ todo \in SUBSET Groups
  /\ visited \in Groups \cup {None}
  /\ loading \in Offers \cup {None}
  /\ fatal \in BOOLEAN
  /\ poisoned \in BOOLEAN
  /\ call \in {"idle", "watch", "starting", "unwatch", "update", "managed", "objects",
               "batch", "returning", "joining", "destroyed"}
  /\ visiting \in SUBSET Groups
  /\ events \in Seq(Event)
  /\ told \in Seq(Event)
  /\ committed \in [Groups -> Seq(Offers)]

\* group_snapshot::state, read under the mutex.
GroupState(g) ==
  IF prepared[g] # None THEN "ready"
  ELSE IF failed[g] THEN "failed"
  ELSE IF enabled[g] THEN "preparing"
  ELSE "idle"

\* Whoever may take a snapshot is not misled by it: a group that has nothing
\* ready or failed to show holds back no rejection either, a ready one is not
\* about to report an older rejection, and what is ready is the newest offer
\* its cursor has passed (native_session.cpp:158-175).
SnapshotTellsAll ==
  lock = "free" =>
    \A g \in Groups :
      /\ GroupState(g) # "failed" => pending[g] = None
      /\ GroupState(g) = "ready" => prepared[g].sequence = cursor[g]

\* Events about the offers of a group come in the order of their sequences,
\* each once: nothing is replayed across supersession, pauses and rejections
\* (docs/managed-reload-design.md:186-194).
NothingIsReplayed ==
  \A i, j \in DOMAIN told :
    i < j /\ told[i].group = told[j].group /\ told[j].offer # MarkerRejection =>
      told[i].offer.sequence < told[j].offer.sequence

\* An update() that returned told of every generation it committed, whatever
\* became of the other groups and of the object watch.
EveryCommitIsTold ==
  call = "idle" /\ ~poisoned =>
    \A g \in Groups : \A i \in DOMAIN committed[g] :
      \E j \in DOMAIN told :
        told[j] = [group |-> g, offer |-> committed[g][i], status |-> "applied"]

\* "Prepared work and unreported rejections survive the pause"
\* (include/neko/session.hpp:184): while a group is disabled, only a
\* preparation that had already begun may change what awaits its resumption.
PauseKeepsOutcome ==
  [][\A g \in Groups :
       ~enabled'[g] /\ visited # g =>
         prepared'[g] = prepared[g] /\ pending'[g] = pending[g]]_vars

\* "A newer valid generation supersedes older uncommitted work"
\* (docs/managed-reload-design.md:510-511): nothing takes a prepared generation
\* away but update(), a newer observation, or the report of an ill-named marker
\* (managed_worker.cpp:73-80).
PreparedWorkIsKept ==
  [][\A g \in Groups :
       prepared[g] # None /\ prepared'[g] # prepared[g] =>
         \/ call = "managed"
         \/ cursor[g] > prepared[g].sequence
         \/ badMarkers'[g] # badMarkers[g]]_vars

\* "Pick up every ready managed group and, when no managed transaction was
\* rejected, the batched object watches" (include/neko/session.hpp:194-195).
ObjectsWaitForManaged ==
  \A i, j \in DOMAIN events :
    events[i].status = "rejected" /\ events[i].group # ObjectWatch =>
      events[j] # [group |-> ObjectWatch, offer |-> MarkerRejection, status |-> "applied"]

\* "the mutex only separates the worker from those calls"
\* (src/runtime/session_impl.hpp:145-146): the loader and the arena have no
\* lock of their own, so the two threads must never use them together.
BackendIsExclusive == ~(loading # None /\ call \in {"batch", "managed"})

Unusable == poisoned \/ fatal \/ call \in {"joining", "destroyed"}

\* Every offer past the baseline is settled: the host hears of it, or of a
\* newer one, unless the group is paused, an ill-named marker took a prepared
\* generation away, or the session is lost
\* (docs/managed-reload-design.md:513-517).
Settled(g) ==
  \A o \in published[g] :
    o.sequence > BaselineSequence =>
      \E i \in DOMAIN told : told[i].group = g /\ told[i].offer.sequence >= o.sequence

OffersAreSettled ==
  \A g \in Groups : []<>(Settled(g) \/ ~enabled[g] \/ markers[g] # {} \/ Unusable)

\* Every public call returns, and the destructor joins the worker: nobody
\* waits for the mutex, or for the worker, forever.
CallsReturn == []<>(call \in {"idle", "destroyed"})
=============================================================================
