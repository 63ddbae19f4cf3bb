------------------------- MODULE ReloadTransaction -------------------------
(***************************************************************************)
(* The transaction engine of the native session                            *)
(* (src/runtime/reload_transaction.cpp): objects are loaded into candidate *)
(* memory and prechecked without a live write, one generation is linked    *)
(* and validated, then update() commits it: reserve, snapshot every entry, *)
(* patch one entry at a time, and on a failed write restore what was       *)
(* written.  What the design worries about is memory: the entries of the   *)
(* running program jump into the images, so an image may be reclaimed only *)
(* when no entry can reach it.                                             *)
(*                                                                         *)
(* Two threads act.  The preparation worker loads the generations of the   *)
(* managed groups under worker_mutex_; the host thread commits them under  *)
(* the same mutex, but loads, links and commits the object-watch batch     *)
(* without it (native_session.cpp:242-270), so the worker may run between  *)
(* any two steps of that batch.                                            *)
(***************************************************************************)
EXTENDS Naturals, FiniteSets

CONSTANTS Entries,     \* function entries of the running program
          Slots,       \* memory reservations the arena can hand out
          Identities,  \* mutable globals fresh code may introduce
          Groups,      \* managed groups, prepared by the worker
          Batch,       \* the object-watch batch, prepared by update() itself
          Members,     \* the translation units that are watched
          Offered,     \* those a managed generation is made of
          Baseline,    \* an entry's bytes are the prologue it was linked with
          Foreign,     \* an entry redirected by code this session does not own
          AllocationFails  \* may bookkeeping after the last write throw?

ASSUME OfferedAreMembers == Offered \subseteq Members
ASSUME SeparateOwners == Batch \notin Groups
ASSUME MarkersAreNotSlots == Baseline \notin Slots /\ Foreign \notin Slots
                             /\ Baseline # Foreign
ASSUME AllocationFailsIsBoolean == AllocationFails \in BOOLEAN

Owners == Groups \cup {Batch}

Targets == Slots \cup {Baseline, Foreign}

\* One loaded object: its code slot, the entries it replaces and the
\* <<identity, slot>> pairs of the mutable state it introduces.
Image == [member   : Members,
          code     : Slots,
          replaces : SUBSET Entries,
          state    : SUBSET (Identities \X Slots)]

Statuses == {"free", "building", "prepared", "session", "process"}

Stages == {"idle", "begun", "reserved", "patching", "rollback"}

VARIABLES
  entry,       \* where each live function entry jumps
  status,      \* who keeps each slot mapped
  owner,       \* whose candidate the slot is, while it is one
  building,    \* images loaded so far for a generation not yet validated
  prepared,    \* the validated, uncommitted generation of each owner
  committed,   \* <<identity, slot>> of the state committed generations own
  stage,       \* how far commit() has come
  txOwner,     \* whose generation commit() works on
  saved,       \* the entries' bytes captured before the first write
  patched,     \* entries written and not yet restored
  failed,      \* entries whose restore failed
  poisoned,    \* commit_poisoned_
  result,      \* how the last transaction ended
  before       \* history: the entries when the last transaction began

memory == <<entry, status, owner>>
candidates == <<building, prepared>>
tx == <<stage, txOwner, saved, patched, failed>>
vars == <<memory, candidates, committed, tx, poisoned, result, before>>

-----------------------------------------------------------------------------
(* The slots and entries of a set of images. *)

CodeOf(images) == {i.code : i \in images}
StateOf(images) == UNION {i.state : i \in images}
SlotsOf(images) == CodeOf(images) \cup {p[2] : p \in StateOf(images)}
EntriesOf(images) == UNION {i.replaces : i \in images}
RedirectsOf(images) ==
  UNION {{<<e, i.code>> : e \in i.replaces} : i \in images}

\* Mistake: the null an exhausted arena returns is used like a reservation.
FreeOrNull == {s \in Slots : status[s] = "free"} \cup
              {n \in {Baseline} : \A s \in Slots : status[s] # "free"}

FreeSlots == {s \in Slots : status[s] = "free"}

\* patchable_entry: the linked prologue, or a redirect of our own into a slot
\* this session's arena still holds.
Patchable(e) ==
  \/ entry[e] = Baseline
  \/ entry[e] \in Slots /\ status[entry[e]] \in {"building", "prepared", "session"}

\* Destroying the handles of an owner's candidates unmaps their slots.
Reclaim(o, kinds) ==
  [s \in Slots |-> IF owner[s] = o /\ status[s] \in kinds THEN "free"
                   ELSE status[s]]

\* Handing every slot of the images to the session or the process.
HandOver(images, kind) ==
  [s \in Slots |-> IF s \in SlotsOf(images) THEN kind ELSE status[s]]

\* Mistake: commit() works on the prepared generation outside the lock.
WorkerNeverWaits == stage \in Stages

\* worker_mutex_ keeps the worker out of a managed commit, and a managed
\* commit out of a worker pass.  The batch takes no lock.
WorkerMayRun == stage = "idle" \/ txOwner = Batch
WorkerResting == \A g \in Groups : building[g] = {}
HostMayRun == stage = "idle" /\ building[Batch] = {} /\ prepared[Batch] = {}

MayPrepare(o) == IF o = Batch
                 THEN stage = "idle" /\ prepared[Batch] = {} /\ ~poisoned
                 ELSE WorkerMayRun /\ \A g \in Groups \ {o} : building[g] = {}

-----------------------------------------------------------------------------
(* Preparation: no live entry is written. *)

\* The image of an object for which the loader reserved code slot s and a
\* home for every global that no committed generation has introduced.
LoadedImage(m, s, R, home) ==
  [member |-> m, code |-> s, replaces |-> R,
   state |-> {<<d, home[d]>> : d \in DOMAIN home}]

FreshHomes(s) ==
  UNION {[fresh -> FreeSlots \ {s}] :
           fresh \in SUBSET (Identities \ {p[1] : p \in committed})}

Adopt(o, image) ==
  /\ building' = [building EXCEPT ![o] = @ \cup {image}]
  /\ status' = [t \in Slots |-> IF t \in SlotsOf({image}) THEN "building" ELSE status[t]]
  /\ owner' = [t \in Slots |-> IF t \in SlotsOf({image}) THEN o ELSE owner[t]]

\* prepare_object: load one more object of the generation into fresh slots
\* and precheck every entry it replaces.
LoadObject(o, m) ==
  /\ MayPrepare(o)
  /\ o \in Groups => m \in Offered
  /\ \A i \in building[o] : i.member # m
  /\ \E s \in FreeSlots, R \in SUBSET Entries : \E home \in FreshHomes(s) :
       /\ \A d1, d2 \in DOMAIN home : home[d1] = home[d2] => d1 = d2
       /\ \A e \in R : Patchable(e)
       /\ Adopt(o, LoadedImage(m, s, R, home))
  /\ UNCHANGED <<entry, prepared, committed, tx, poisoned, result, before>>

\* An unreadable, unlinkable or unpatchable object rejects the generation it
\* belongs to.  A managed group also drops what it had prepared earlier.
LoadFails(o) ==
  /\ MayPrepare(o)
  /\ status' = IF o = Batch THEN Reclaim(o, {"building"})
               ELSE Reclaim(o, {"building", "prepared"})
  /\ building' = [building EXCEPT ![o] = {}]
  /\ prepared' = IF o = Batch THEN prepared
                 ELSE [prepared EXCEPT ![o] = {}]
  /\ UNCHANGED <<entry, owner, committed, tx, poisoned, result, before>>

\* validate_generation: no entry is replaced by two objects.
OneReplacement(images) ==
  \A i, j \in images : i # j => i.replaces \cap j.replaces = {}

\* link_generation: no mutable symbol is defined by two objects.
OneDefinition(images) ==
  \A p, q \in StateOf(images) : p[1] = q[1] => p = q

\* The complete generation passed; it replaces the uncommitted one.
Prepare(o) ==
  /\ MayPrepare(o)
  /\ building[o] # {}
  /\ o \in Groups => \A m \in Offered : \E i \in building[o] : i.member = m
  /\ OneDefinition(building[o])
  /\ OneReplacement(building[o])
  /\ prepared' = [prepared EXCEPT ![o] = building[o]]
  /\ building' = [building EXCEPT ![o] = {}]
  /\ status' = [s \in Slots |-> IF s \in SlotsOf(building[o]) THEN "prepared"
                                ELSE Reclaim(o, {"prepared"})[s]]
  /\ UNCHANGED <<entry, owner, committed, tx, poisoned, result, before>>

-----------------------------------------------------------------------------
(* Commit, one step of commit() at a time. *)

\* Mistake: update() checks the worker's fatal error only.
BeginUnchecked(o) ==
  /\ stage = "idle"
  /\ prepared[o] # {}
  /\ building[Batch] = {}
  /\ o \in Groups => WorkerResting /\ prepared[Batch] = {}
  /\ stage' = "begun"
  /\ txOwner' = o
  /\ result' = "none"
  /\ before' = entry
  /\ UNCHANGED <<memory, candidates, committed, saved, patched, failed, poisoned>>

\* update() reaches a prepared generation.  check_fatal_error refuses every
\* call on a poisoned session; a managed commit waits for the worker's lock.
Begin(o) ==
  /\ stage = "idle"
  /\ ~poisoned
  /\ prepared[o] # {}
  /\ building[Batch] = {}
  /\ o \in Groups => WorkerResting /\ prepared[Batch] = {}
  /\ stage' = "begun"
  /\ txOwner' = o
  /\ result' = "none"
  /\ before' = entry
  /\ UNCHANGED <<memory, candidates, committed, saved, patched, failed, poisoned>>

\* Mistake: the rejected generation is forgotten, its memory is not.
RejectLeaking ==
  /\ prepared' = [prepared EXCEPT ![txOwner] = {}]
  /\ stage' = "idle"
  /\ result' = "rejected"
  /\ UNCHANGED <<memory, building, committed, txOwner, saved, patched, failed,
                 poisoned, before>>

\* A transaction that ends without an effect: the candidates are destroyed.
Reject ==
  /\ status' = Reclaim(txOwner, {"prepared"})
  /\ prepared' = [prepared EXCEPT ![txOwner] = {}]
  /\ stage' = "idle"
  /\ result' = "rejected"
  /\ UNCHANGED <<entry, owner, building, committed, txOwner, saved, patched,
                 failed, poisoned, before>>

\* Mistake: trusting the lookup made when the object was loaded.
IntroducesWhatItLoaded(images) == OneDefinition(images)

\* prepare_generation_commit: another transaction may have committed one of
\* the introduced identities since this generation was loaded.
IntroducesOnlyNewState(images) ==
  /\ \A p \in StateOf(images), q \in committed : p[1] # q[1]
  /\ OneDefinition(images)

\* Everything that may throw before the first write: reserving bookkeeping
\* capacity and the loader's own check.
ReserveCommit ==
  /\ stage = "begun"
  /\ IntroducesOnlyNewState(prepared[txOwner])
  /\ stage' = "reserved"
  /\ UNCHANGED <<memory, candidates, committed, txOwner, saved, patched, failed,
                 poisoned, result, before>>

ReserveFails == stage = "begun" /\ Reject

\* Mistake: rolling back to the linked prologue, as if no reload came before.
SnapshotBaseline ==
  /\ stage = "reserved"
  /\ \A e \in EntriesOf(prepared[txOwner]) : Patchable(e)
  /\ saved' = [e \in Entries |-> Baseline]
  /\ stage' = "patching"
  /\ UNCHANGED <<memory, candidates, committed, txOwner, patched, failed,
                 poisoned, result, before>>

\* Every rollback image is captured before the first live write.
SnapshotEntries ==
  /\ stage = "reserved"
  /\ \A e \in EntriesOf(prepared[txOwner]) : Patchable(e)
  /\ saved' = entry
  /\ stage' = "patching"
  /\ UNCHANGED <<memory, candidates, committed, txOwner, patched, failed,
                 poisoned, result, before>>

SnapshotFails ==
  /\ stage = "reserved"
  /\ \E e \in EntriesOf(prepared[txOwner]) : ~Patchable(e)
  /\ Reject

Unpatched == EntriesOf(prepared[txOwner]) \ patched

PatchEntry(e) ==
  /\ stage = "patching"
  /\ e \in Unpatched
  /\ Patchable(e)
  /\ \E i \in prepared[txOwner] :
        e \in i.replaces /\ entry' = [entry EXCEPT ![e] = i.code]
  /\ patched' = patched \cup {e}
  /\ UNCHANGED <<status, owner, candidates, committed, stage, txOwner, saved,
                 failed, poisoned, result, before>>

\* The page of one more entry cannot be made writable: nothing was written
\* there, and what was written elsewhere has to be restored.
PatchFails ==
  /\ stage = "patching"
  /\ Unpatched # {}
  /\ stage' = "rollback"
  /\ UNCHANGED <<memory, candidates, committed, txOwner, saved, patched, failed,
                 poisoned, result, before>>

RestoreEntry(e) ==
  /\ stage = "rollback"
  /\ e \in patched
  /\ entry' = [entry EXCEPT ![e] = saved[e]]
  /\ patched' = patched \ {e}
  /\ UNCHANGED <<status, owner, candidates, committed, stage, txOwner, saved,
                 failed, poisoned, result, before>>

RestoreFails(e) ==
  /\ stage = "rollback"
  /\ e \in patched
  /\ patched' = patched \ {e}
  /\ failed' = failed \cup {e}
  /\ UNCHANGED <<memory, candidates, committed, stage, txOwner, saved, poisoned,
                 result, before>>

\* Mistake: a failed restore is not counted.
RolledBackSomehow ==
  /\ stage = "rollback" /\ patched = {}
  /\ failed' = {}
  /\ status' = Reclaim(txOwner, {"prepared"})
  /\ prepared' = [prepared EXCEPT ![txOwner] = {}]
  /\ stage' = "idle"
  /\ result' = "rejected"
  /\ UNCHANGED <<entry, owner, building, committed, txOwner, saved, patched,
                 poisoned, before>>

RolledBack == stage = "rollback" /\ patched = {} /\ failed = {} /\ Reject

\* An entry that could not be restored still jumps into the candidate
\* generation, so all of it is retained, and the session is unusable.
Poison ==
  /\ stage = "rollback"
  /\ patched = {}
  /\ failed # {}
  /\ poisoned' = TRUE
  /\ status' = HandOver(prepared[txOwner], "session")
  /\ prepared' = [prepared EXCEPT ![txOwner] = {}]
  /\ failed' = {}
  /\ stage' = "idle"
  /\ result' = "fatal"
  /\ UNCHANGED <<entry, owner, building, committed, txOwner, saved, patched, before>>

\* Every entry is written: the introduced state is published and all the
\* memory moves into the session.  An entry an object no longer defines keeps
\* its jump; the per-object records only feed the warning about it.
Publish(outcome) ==
  /\ stage = "patching"
  /\ Unpatched = {}
  /\ committed' = committed \cup StateOf(prepared[txOwner])
  /\ status' = HandOver(prepared[txOwner], "session")
  /\ prepared' = [prepared EXCEPT ![txOwner] = {}]
  /\ patched' = {}
  /\ stage' = "idle"
  /\ result' = outcome
  /\ UNCHANGED <<entry, owner, building, txOwner, saved, failed, poisoned, before>>

Commit == Publish("applied")

\* The maps and strings updated after the last write allocate, and commit()
\* has no handler of its own: update() reports the exception as a rejection.
CommitThrowsLate ==
  /\ AllocationFails
  /\ Publish("rejected")

-----------------------------------------------------------------------------
(* The surroundings. *)

\* Another session of the process redirects an entry at its own safe point.
OtherSessionPatches(e) ==
  /\ HostMayRun
  /\ entry[e] = Baseline
  /\ entry' = [entry EXCEPT ![e] = Foreign]
  /\ UNCHANGED <<status, owner, candidates, committed, tx, poisoned, result, before>>

\* ~native_session joins the worker, drops every candidate and transfers the
\* active memory to the process; the host may construct a new session.
EndSession ==
  /\ HostMayRun
  /\ WorkerResting
  /\ status' = [s \in Slots |-> IF status[s] = "session" THEN "process"
                                ELSE IF status[s] = "prepared" THEN "free"
                                ELSE status[s]]
  /\ prepared' = [o \in Owners |-> {}]
  /\ committed' = {}
  /\ poisoned' = FALSE
  /\ result' = "none"
  /\ UNCHANGED <<entry, owner, building, tx, before>>

-----------------------------------------------------------------------------
Init ==
  /\ entry = [e \in Entries |-> Baseline]
  /\ status = [s \in Slots |-> "free"]
  /\ owner = [s \in Slots |-> Batch]
  /\ building = [o \in Owners |-> {}]
  /\ prepared = [o \in Owners |-> {}]
  /\ committed = {}
  /\ stage = "idle"
  /\ txOwner = Batch
  /\ saved = entry
  /\ patched = {}
  /\ failed = {}
  /\ poisoned = FALSE
  /\ result = "none"
  /\ before = entry

Next ==
  \/ \E o \in Owners, m \in Members : LoadObject(o, m)
  \/ \E o \in Owners : LoadFails(o) \/ Prepare(o) \/ Begin(o)
  \/ ReserveCommit \/ ReserveFails
  \/ SnapshotEntries \/ SnapshotFails
  \/ \E e \in Entries : PatchEntry(e) \/ RestoreEntry(e) \/ RestoreFails(e)
  \/ PatchFails \/ RolledBack \/ Poison
  \/ Commit \/ CommitThrowsLate
  \/ \E e \in Entries : OtherSessionPatches(e)
  \/ EndSession

Spec == Init /\ [][Next]_vars

-----------------------------------------------------------------------------
(* Properties. *)

TypeOK ==
  /\ entry \in [Entries -> Targets]
  /\ status \in [Slots -> Statuses]
  /\ owner \in [Slots -> Owners]
  /\ building \in [Owners -> SUBSET Image]
  /\ prepared \in [Owners -> SUBSET Image]
  /\ committed \in SUBSET (Identities \X Slots)
  /\ stage \in Stages
  /\ txOwner \in Owners
  /\ saved \in [Entries -> Targets]
  /\ patched \in SUBSET Entries
  /\ failed \in SUBSET Entries
  /\ poisoned \in BOOLEAN
  /\ result \in {"none", "applied", "rejected", "fatal"}
  /\ before \in [Entries -> Targets]

\* No live entry ever jumps into reclaimed memory: not between two writes of
\* a commit, not during or after a rollback, not after a failed rollback, and
\* not after the session is destroyed (reload_transaction.cpp:126-144,155-162,
\* native_session.cpp:94-99).
NoDanglingEntry ==
  \A e \in Entries : entry[e] \in Slots => status[entry[e]] # "free"

\* The rollback images are as good as the live entries: restoring any of them
\* at any moment of the transaction leads to mapped code.
NoDanglingRollback ==
  stage \in {"patching", "rollback"} =>
    \A e \in Entries : saved[e] \in Slots => status[saved[e]] \in {"session", "process"}

\* State published by commit_generation is never reclaimed while the session
\* that later generations are bound to is alive.
StateOutlivesGenerations ==
  \A p \in committed : status[p[2]] = "session"

\* All three: whatever fails, and whenever the session ends, nothing that can
\* still be reached is reclaimed.
MemoryIsSafe == NoDanglingEntry /\ NoDanglingRollback /\ StateOutlivesGenerations

\* An introduced global has one home: code of different generations and of
\* different groups never works on two copies of it.
OneHomePerIdentity ==
  \A p, q \in committed : p[1] = q[1] => p[2] = q[2]

\* The slots of loaded images are candidates of their owner.
CandidatesAreOwned ==
  \A o \in Owners, s \in Slots :
    /\ s \in SlotsOf(building[o]) => status[s] = "building" /\ owner[s] = o
    /\ s \in SlotsOf(prepared[o]) => status[s] = "prepared" /\ owner[s] = o

\* A candidate slot belongs to exactly one loaded image, and an abandoned
\* candidate leaves no slot behind: preparation neither leaks memory nor hands
\* the same memory out twice, whatever fails in between.
CandidatesAreAccountedFor ==
  /\ \A s \in Slots : status[s] = "building" => s \in SlotsOf(building[owner[s]])
  /\ \A s \in Slots : status[s] = "prepared" => s \in SlotsOf(prepared[owner[s]])
  /\ CandidatesAreOwned

\* What this session may not write stays as it is: after an incomplete rollback
\* no entry is written again, and an entry another session redirected is never
\* taken over (reload_transaction.cpp:126-144, code_pages.cpp:433-497).
EntriesAreRespected ==
  [][\A e \in Entries :
       /\ poisoned /\ poisoned' => entry'[e] = entry[e] \/ entry'[e] = Foreign
       /\ entry[e] = Foreign => entry'[e] = Foreign]_vars

\* A transaction reported as rejected changed no entry
\* (include/neko/session.hpp:197-199), unless it was already writing down what
\* it had applied: the one exception is CommitThrowsLate.
RejectedChangesNothing ==
  [][stage \notin {"idle", "patching"} /\ result' = "rejected" => entry' = before]_vars

\* The entries the program sees between transactions behave as if every
\* transaction were one step.
Atomic == INSTANCE AtomicReload
          WITH Code <- Slots,
               MayMisreport <- AllocationFails,
               live <- IF stage = "idle" THEN entry ELSE before,
               offer <- [o \in Owners |-> RedirectsOf(prepared[o])],
               broken <- poisoned,
               told <- result

ImplementsAtomicReload == Atomic!Spec
=============================================================================
