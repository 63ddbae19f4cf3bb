---------------------------- MODULE WasmSession ----------------------------
(***************************************************************************)
(* The browser backend: managed_session (src/backends/wasm/session.cpp)    *)
(* with the offer_poller and candidate of every group, on one event loop,  *)
(* and the publisher of the offers it polls (publish_wasm_offer in         *)
(* src/runtime/publisher.cpp), in processes of their own.                  *)
(*                                                                         *)
(* Nothing runs concurrently in the page, but everything it waits for      *)
(* completes later: timer ticks, the manifest fetch and the module loads   *)
(* are delivered in any order, after a pause, after their candidate was    *)
(* superseded, and after their session was destroyed and another one was   *)
(* created.  The fetched manifest may be an old one: caches are no part of *)
(* the protocol.                                                           *)
(*                                                                         *)
(* A generation id hashes the published content and is the content here.   *)
(***************************************************************************)
EXTENDS Naturals, Sequences

CONSTANTS Groups,        \* registered reload groups of the page
          Publishers,    \* publisher processes
          Contents,      \* what a published module may hold
          Incompatible,  \* contents that do not fit the registered contract
          MaxSequence,   \* bound on the publication sequence
          MaxSessions,   \* bound on the sessions of one page
          None

ASSUME BoundsAreNatural == MaxSequence \in Nat /\ MaxSessions \in Nat
ASSUME IncompatibleContents == Incompatible \subseteq Contents

Offers == [sequence : 1..MaxSequence, id : Contents]

\* A module load, and the image it opens: whose candidate asked for what.
Images == [group : Groups, session : 0..MaxSessions, offer : Offers]

Candidate == [image : Images, status : {"loading", "ready", "rejected", "activated"}]

ASSUME NoneIsNothing == None \notin Offers \cup Images \cup Candidate \cup Publishers \cup Contents

VARIABLES
  artifacts,  \* <offer_root>/modules, per group
  latest,     \* <offer_root>/latest, or None
  served,     \* every manifest a fetch may still be answered with
  lock,       \* the publisher holding .publish.lock, or None
  publisher,  \* what each publisher is doing, and for which group
  session,    \* number of the session, counting those before it
  open,       \* does it exist?  (browser_session_active)
  enabled,    \* group::observed is set
  tick,       \* timer callbacks queued for a group: "none", "live", "stale"
  fetching,   \* offer_poller::state::fetching
  fetches,    \* manifest fetches under way, with the text read so far
  last,       \* the newest accepted offer, or None
  pending,    \* the candidate of that offer, or None
  loads,      \* module loads under way
  reported,   \* reported_generation
  mapped,     \* module images that are open
  plt,        \* the image the group's PLT slots lead to, or None
  told        \* history: events of all update() calls, per group

server == <<artifacts, latest, served, lock, publisher>>
observer == <<enabled, tick>>
poller == <<fetching, fetches, last, pending, loads>>
active == <<reported, plt, told>>
vars == <<server, session, open, observer, poller, active, mapped>>

PublisherState ==
  [step : {"idle"}, group : Groups, sequence : {0}, id : {None}]
    \cup [step : {"locked", "staged"}, group : Groups, sequence : 1..MaxSequence, id : Contents]

-----------------------------------------------------------------------------
(* Publication. *)

Idle(g) == [step |-> "idle", group |-> g, sequence |-> 0, id |-> None]

\* next_wasm_sequence: one past the greatest artifact, offered or not.
NextSequence(g) ==
  {n \in 1..MaxSequence :
     /\ \A a \in artifacts[g] : a.sequence < n
     /\ n = 1 \/ \E a \in artifacts[g] : a.sequence + 1 = n}

\* Mistake: the stream is not locked.
TakesNoLock(p, g, content) ==
  /\ publisher[p].step = "idle"
  /\ \E n \in NextSequence(g) :
       publisher' = [publisher EXCEPT ![p] =
         [step |-> "locked", group |-> g, sequence |-> n, id |-> content]]
  /\ UNCHANGED <<artifacts, latest, served, lock, session, open, observer, poller, active, mapped>>

\* The module is read once, so its digest is that of the bytes written.
TakeLock(p, g, content) ==
  /\ publisher[p].step = "idle"
  /\ lock[g] = None
  /\ lock' = [lock EXCEPT ![g] = p]
  /\ \E n \in NextSequence(g) :
       publisher' = [publisher EXCEPT ![p] =
         [step |-> "locked", group |-> g, sequence |-> n, id |-> content]]
  /\ UNCHANGED <<artifacts, latest, served, session, open, observer, poller, active, mapped>>

Offered(p) == [sequence |-> publisher[p].sequence, id |-> publisher[p].id]

Unlocked(p) == [g \in Groups |-> IF lock[g] = p THEN None ELSE lock[g]]

\* The artifact is renamed to its sequence-named path.
ReleaseArtifact(p) ==
  /\ publisher[p].step = "locked"
  /\ artifacts' = [artifacts EXCEPT ![publisher[p].group] = @ \cup {Offered(p)}]
  /\ publisher' = [publisher EXCEPT ![p].step = "staged"]
  /\ UNCHANGED <<latest, served, lock, session, open, observer, poller, active, mapped>>

\* The manifest replaces the one before it, and the lock is released.
ReplaceManifest(p) ==
  /\ publisher[p].step = "staged"
  /\ latest' = [latest EXCEPT ![publisher[p].group] = Offered(p)]
  /\ served' = [served EXCEPT ![publisher[p].group] = @ \cup {Offered(p)}]
  /\ publisher' = [publisher EXCEPT ![p] = Idle(publisher[p].group)]
  /\ lock' = Unlocked(p)
  /\ UNCHANGED <<artifacts, session, open, observer, poller, active, mapped>>

\* A failed write or a kill: the lock goes with the process.
GivesUp(p) ==
  /\ publisher[p].step # "idle"
  /\ publisher' = [publisher EXCEPT ![p] = Idle(publisher[p].group)]
  /\ lock' = Unlocked(p)
  /\ UNCHANGED <<artifacts, latest, served, session, open, observer, poller, active, mapped>>

-----------------------------------------------------------------------------
(* Observation. *)

\* The interval queues another callback of the present subscription.
TimerFires(g) ==
  /\ enabled[g]
  /\ tick[g] = "none"
  /\ tick' = [tick EXCEPT ![g] = "live"]
  /\ UNCHANGED <<server, session, open, enabled, poller, active, mapped>>

Polls(g) ==
  IF fetching[g] THEN UNCHANGED <<fetching, fetches>>
  ELSE /\ fetching' = [fetching EXCEPT ![g] = TRUE]
       /\ fetches' = fetches \cup {[group |-> g, session |-> session, text |-> None]}

\* A queued callback polls if its own subscription still observes.
Tick(g) ==
  /\ tick[g] # "none"
  /\ tick' = [tick EXCEPT ![g] = "none"]
  /\ IF tick[g] = "live" THEN Polls(g) ELSE UNCHANGED <<fetching, fetches>>
  /\ UNCHANGED <<server, session, open, enabled, last, pending, loads, active, mapped>>

\* The text of a manifest the server has had, the present one or a cached one.
FetchReads(f, offer) ==
  /\ f.text = None
  /\ offer \in served[f.group]
  /\ fetches' = (fetches \ {f}) \cup {[f EXCEPT !.text = offer]}
  /\ UNCHANGED <<server, session, open, observer, fetching, last, pending, loads, active, mapped>>

\* The poller that fetched is still there.
Observed(f) == open /\ f.session = session

\* No text, an unreadable one or one for another group: diagnostics only.
FetchFails(f) ==
  /\ fetches' = fetches \ {f}
  /\ fetching' = IF Observed(f) THEN [fetching EXCEPT ![f.group] = FALSE] ELSE fetching
  /\ UNCHANGED <<server, session, open, observer, last, pending, loads, active, mapped>>

\* Mistake: whatever differs from the accepted offer supersedes it.
DiffersSupersedes(g, offer) == last[g] # offer

\* compare_wasm_offers: only a greater sequence supersedes.
Supersedes(g, offer) == last[g] = None \/ offer.sequence > last[g].sequence

\* Mistake: only a load under way is cancelled.
DiscardsNoImage(g) == {}

\* Dropping a candidate closes an image that was not activated.
Discarded(g) ==
  {i \in mapped : pending[g] # None /\ pending[g].status = "ready" /\ i = pending[g].image}

\* An accepted offer replaces the candidate; one that does not fit the
\* registered contract is rejected without a load.
ManifestArrives(f) ==
  /\ f.text # None
  /\ fetches' = fetches \ {f}
  /\ IF ~Observed(f) THEN UNCHANGED <<fetching, last, pending, loads, mapped>>
     ELSE /\ fetching' = [fetching EXCEPT ![f.group] = FALSE]
          /\ IF ~Supersedes(f.group, f.text) THEN UNCHANGED <<last, pending, loads, mapped>>
             ELSE LET image == [group |-> f.group, session |-> session, offer |-> f.text]
                      fits  == f.text.id \notin Incompatible
                  IN /\ last' = [last EXCEPT ![f.group] = f.text]
                     /\ pending' = [pending EXCEPT ![f.group] =
                          [image |-> image, status |-> IF fits THEN "loading" ELSE "rejected"]]
                     /\ loads' = IF fits THEN loads \cup {image} ELSE loads
                     /\ mapped' = mapped \ Discarded(f.group)
  /\ UNCHANGED <<server, session, open, observer, active>>

\* Mistake: a completion finds the poller's candidate, not its own.
FindsAnyCandidate(l) ==
  /\ open
  /\ pending[l.group] # None
  /\ pending[l.group].status = "loading"

\* The candidate that asked for the load is still waiting for it.
Awaited(l) ==
  /\ open
  /\ pending[l.group] # None
  /\ pending[l.group].image = l
  /\ pending[l.group].status = "loading"

\* A verified and validated module makes its candidate ready; a late one is
\* closed as soon as it was opened.
LoadSucceeds(l) ==
  /\ loads' = loads \ {l}
  /\ IF Awaited(l)
     THEN /\ pending' = [pending EXCEPT ![l.group] = [image |-> l, status |-> "ready"]]
          /\ mapped' = mapped \cup {l}
     ELSE UNCHANGED <<pending, mapped>>
  /\ UNCHANGED <<server, session, open, observer, fetching, fetches, last, active>>

\* A failed fetch, a wrong digest or descriptor: the image, if any, is closed.
LoadFails(l) ==
  /\ loads' = loads \ {l}
  /\ IF Awaited(l)
     THEN pending' = [pending EXCEPT ![l.group].status = "rejected"]
     ELSE UNCHANGED pending
  /\ UNCHANGED <<server, session, open, observer, fetching, fetches, last, active, mapped>>

-----------------------------------------------------------------------------
(* The application's calls. *)

Watch(g) ==
  /\ open
  /\ ~enabled[g]
  /\ enabled' = [enabled EXCEPT ![g] = TRUE]
  /\ UNCHANGED <<server, session, open, tick, poller, active, mapped>>

Staled(t) == IF t = "live" THEN "stale" ELSE t

\* disable(): queued callbacks are invalid from now on, on resume too.
Unwatch(g) ==
  /\ open
  /\ enabled[g]
  /\ enabled' = [enabled EXCEPT ![g] = FALSE]
  /\ tick' = [tick EXCEPT ![g] = Staled(@)]
  /\ UNCHANGED <<server, session, open, poller, active, mapped>>

\* Mistake: what is prepared is consumed from a paused group as well.
ConsumableWhenPaused(g) ==
  /\ pending[g] # None
  /\ last[g] # None
  /\ pending[g].status \in {"ready", "rejected"}
  /\ last[g].id # reported[g]

\* What update() collects: an outcome whose generation was not yet reported.
Consumable(g) ==
  /\ enabled[g]
  /\ pending[g] # None
  /\ last[g] # None
  /\ pending[g].status \in {"ready", "rejected"}
  /\ last[g].id # reported[g]

Activates(g) == Consumable(g) /\ pending[g].status = "ready"

\* update() collects every outcome first and activates then; nothing else
\* runs on the event loop in between.
Update ==
  /\ open
  /\ \E g \in Groups : Consumable(g)
  /\ plt' = [g \in Groups |-> IF Activates(g) THEN pending[g].image ELSE plt[g]]
  /\ pending' = [g \in Groups |->
        IF Activates(g) THEN [pending[g] EXCEPT !.status = "activated"] ELSE pending[g]]
  /\ reported' = [g \in Groups |-> IF Consumable(g) THEN last[g].id ELSE reported[g]]
  /\ told' = [g \in Groups |->
        IF Consumable(g)
        THEN Append(told[g], [image |-> pending[g].image,
                              status |-> IF Activates(g) THEN "applied" ELSE "rejected"])
        ELSE told[g]]
  /\ UNCHANGED <<server, session, open, observer, fetching, fetches, last, loads, mapped>>

\* The session goes with its candidates; requests under way are not cancelled.
Destroy ==
  /\ open
  /\ open' = FALSE
  /\ enabled' = [g \in Groups |-> FALSE]
  /\ tick' = [g \in Groups |-> Staled(tick[g])]
  /\ pending' = [g \in Groups |-> None]
  /\ mapped' = mapped \ UNION {Discarded(g) : g \in Groups}
  /\ UNCHANGED <<server, session, fetching, fetches, last, loads, active>>

\* Only one session may be active in a page; a new one knows nothing.
Create ==
  /\ ~open
  /\ session < MaxSessions
  /\ open' = TRUE
  /\ session' = session + 1
  /\ fetching' = [g \in Groups |-> FALSE]
  /\ last' = [g \in Groups |-> None]
  /\ reported' = [g \in Groups |-> None]
  /\ UNCHANGED <<server, observer, fetches, pending, loads, plt, told, mapped>>

-----------------------------------------------------------------------------
Init ==
  /\ artifacts = [g \in Groups |-> {}]
  /\ latest = [g \in Groups |-> None]
  /\ served = [g \in Groups |-> {}]
  /\ lock = [g \in Groups |-> None]
  /\ \E g \in Groups : publisher = [p \in Publishers |-> Idle(g)]
  /\ session = 0
  /\ open = FALSE
  /\ enabled = [g \in Groups |-> FALSE]
  /\ tick = [g \in Groups |-> "none"]
  /\ fetching = [g \in Groups |-> FALSE]
  /\ fetches = {}
  /\ last = [g \in Groups |-> None]
  /\ pending = [g \in Groups |-> None]
  /\ loads = {}
  /\ reported = [g \in Groups |-> None]
  /\ mapped = {}
  /\ plt = [g \in Groups |-> None]
  /\ told = [g \in Groups |-> <<>>]

Publishes(p) ==
  \/ \E g \in Groups, content \in Contents : TakeLock(p, g, content)
  \/ ReleaseArtifact(p) \/ ReplaceManifest(p) \/ GivesUp(p)

Completes ==
  \/ \E f \in fetches : FetchFails(f) \/ ManifestArrives(f) \/ \E o \in Offers : FetchReads(f, o)
  \/ \E l \in loads : LoadSucceeds(l) \/ LoadFails(l)

Calls ==
  \/ \E g \in Groups : Watch(g) \/ Unwatch(g)
  \/ Update \/ Destroy \/ Create

Next ==
  \/ \E p \in Publishers : Publishes(p)
  \/ \E g \in Groups : TimerFires(g) \/ Tick(g)
  \/ Completes \/ Calls

Spec == Init /\ [][Next]_vars

-----------------------------------------------------------------------------
(* What the browser backend promises. *)

TypeOK ==
  /\ artifacts \in [Groups -> SUBSET Offers]
  /\ latest \in [Groups -> Offers \cup {None}]
  /\ served \in [Groups -> SUBSET Offers]
  /\ lock \in [Groups -> Publishers \cup {None}]
  /\ publisher \in [Publishers -> PublisherState]
  /\ session \in 0..MaxSessions /\ open \in BOOLEAN
  /\ enabled \in [Groups -> BOOLEAN]
  /\ tick \in [Groups -> {"none", "live", "stale"}]
  /\ fetching \in [Groups -> BOOLEAN]
  /\ fetches \subseteq [group : Groups, session : 0..MaxSessions, text : Offers \cup {None}]
  /\ last \in [Groups -> Offers \cup {None}]
  /\ pending \in [Groups -> Candidate \cup {None}]
  /\ loads \subseteq Images /\ mapped \subseteq Images
  /\ reported \in [Groups -> Contents \cup {None}]
  /\ plt \in [Groups -> Images \cup {None}]
  /\ told \in [Groups -> Seq([image : Images, status : {"applied", "rejected"}])]

\* The stream lock orders the processes: a manifest only ever replaces one of
\* a smaller sequence, and the module it names has been released.
PublicationsIncrease ==
  [][\A g \in Groups : latest'[g] # latest[g] =>
       /\ latest'[g] \in artifacts[g]
       /\ latest[g] # None => latest[g].sequence < latest'[g].sequence]_vars

\* Completions arrive late, after their offer was superseded or their session
\* destroyed: what is pending is of the newest accepted offer and of this
\* session, and the image that would be activated is open.
PendingIsItsOwn ==
  \A g \in Groups : pending[g] # None =>
    /\ open
    /\ pending[g].image = [group |-> g, session |-> session, offer |-> last[g]]
    /\ pending[g].status = "ready" => pending[g].image \in mapped

\* Old manifests may be fetched after newer ones: a session never goes back to
\* an earlier publication, in what it activates or in what it reports.
EventsFollowTheStream ==
  \A g \in Groups : \A i, j \in 1..Len(told[g]) :
    i < j /\ told[g][i].image.session = told[g][j].image.session
      => told[g][i].image.offer.sequence < told[g][j].image.offer.sequence

Applied(g) == {told[g][i].image : i \in {n \in 1..Len(told[g]) : told[g][n].status = "applied"}}

\* Activated code may be called by whoever took its address, after the next
\* activation and after its session (keep_resident).
CodeStaysMapped ==
  \A g \in Groups : Applied(g) \cup ({plt[g]} \ {None}) \subseteq mapped

\* An image that is open was activated or still can be: superseded, rejected
\* and abandoned candidates leave nothing behind.
DroppedImagesAreClosed ==
  \A i \in mapped :
    \/ i \in Applied(i.group)
    \/ pending[i.group] # None /\ pending[i.group].status = "ready" /\ pending[i.group].image = i

\* Images are neither lost nor closed under running code.
ImagesAreAccountedFor == CodeStaysMapped /\ DroppedImagesAreClosed

\* A paused group, or one whose session is gone, starts no observation, though
\* a callback of its timer may still be queued; it activates and reports
\* nothing either, whatever is ready.
PauseHolds ==
  [][\A g \in Groups : ~enabled[g] =>
       /\ \A f \in fetches' : f.group = g /\ f.text = None => f \in fetches
       /\ plt'[g] = plt[g] /\ told'[g] = told[g]]_vars

\* session.hpp: update() picks up every ready managed group.  Here: one whose
\* module is not already the active code.
ReadyIsPickedUp ==
  \A g \in Groups :
    /\ enabled[g]
    /\ pending[g] # None
    /\ pending[g].status = "ready"
    /\ plt[g] = None \/ plt[g].offer.id # last[g].id
    => Consumable(g)
=============================================================================
