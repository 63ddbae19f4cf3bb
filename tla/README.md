# Nekomata, modelled in TLA+

Nekomata reloads native code into a running C/C++ program: build integrations
publish complete generations of object files, a session inside the program
loads them in the background, and `update()`, called by the host where it is
safe, redirects function entries to the new code, all of a generation or none
of it. This directory models that machine from the files a build publishes to
the page an entry jumps into: the wire formats, the publication stream, the
session with its worker thread, the loaders, the transaction engine, the code
arenas, the browser session and the terminal monitor.

Run anything here with the TLA+ tools, from this directory:

    tlc -config NativeSession.cfg NativeSession             # a model-checking run
    tlc -config CodePages_arena.cfg MCCodePages
    tlapm NativeSessionProofs.tla                           # proofs

`PROJECT.json` lists the runs, what each definition was translated from, the
mistakes (operators marked `Mistake:` in the modules) that show each property
can fail, the hazards the properties are for, the findings and the theorems.
Source paths are relative to the repository.

## 1. The system

### 1.1 Components, state, operations

| component | source | state it keeps | operations | what makes it correct |
|---|---|---|---|---|
| Session facade | `include/neko/session.hpp`, `src/runtime/session.cpp` | the driver behind it | `watch`, `unwatch`, `update`, `snapshot`, destructor | forwards each call; the contract is written here |
| Native session (host side) | `src/runtime/native_session.cpp` | groups (`enabled`, `failed`, `prepared`, `pending_rejection`), watches, `commit_poisoned_`, counters | the calls above | each outcome told once, in order; a pause keeps it; calls return |
| Managed worker | `src/runtime/managed_worker.cpp` | the thread, `worker_running_`, `fatal_worker_error_` | a pass over the enabled groups every 100 ms | offers are settled; nothing live is written; it can be joined |
| Generation stream | `src/runtime/generation_stream.cpp` | `cursor_`, `reported_bad_markers_` | `poll` | every offer observed once, in order; what is consumed was verified |
| Publisher | `src/runtime/publisher.cpp`, `src/base/lock.hpp` | the files of one stream | `publish_generation`, `publish_wasm_offer` | increasing sequences, complete offers that hold what their ids hash, whoever races, dies or republishes |
| Transaction engine | `src/runtime/reload_transaction.cpp` | allocations, `last_redirected_by_object_`, applied ids | `prepare_object`, `link_generation`, `validate_generation`, `commit` | all or nothing; no entry ever leads into unmapped memory |
| Object watch | `src/runtime/prepare_generation.cpp` | claimed files | `try_prepare` | a file is claimed once; a batch is one transaction |
| ELF and PE code pages | `src/backends/{elf,pe}/runtime/code_pages.cpp` | pools, slots, page protections, entries written | reserve, reclaim, commit, rewrite, snapshot, patch, restore | slots are apart; redirects land in executable code; live memory is kept |
| ELF and PE loader | `src/backends/{elf,pe}/runtime/loader.cpp` | committed state, the images in flight | load, link, commit | every reference reaches what it names; generations agree on where a variable is |
| Symbol tables | `src/backends/elf/runtime/process_symbols.cpp`, `src/backends/pe/debug/process_symbols.cpp` | none after construction | lookups by name, source, kind | one definition or none |
| Formats and debug readers | `src/backends/*/format`, `*/debug` | none | parsers | sequential |
| Protocol | `src/protocol/*`, `src/runtime/descriptor_discovery.cpp` | none | parse, validate, serialize, compare, discover | what is written is read; what was torn is not loaded |
| WASM session | `src/backends/wasm/*` | groups, poll ticks, candidates, PLT slots | poll, handle, activate | late and repeated answers change nothing |
| TUI monitor | `src/tui/monitor.cpp`, `src/tui/terminal*` | render thread, log queue, pane, screen | frames, keys, mouse, log lines | the screen is the frame; no news is lost; it closes when its terminal lets it |
| Base | `src/base/*`, `src/core/*` | none | hashing, file reading, lock, log | sequential |

### 1.2 How they interact

A build runs the publisher, which copies the objects of a group into
`<root>/<publication_key>/generations/<id>` and then releases
`offers/<sequence>-<id>.ready`; both releases are renames, in that order, under
`.publish.lock`. The worker of every session that enabled the group polls the
stream, reads the manifest, compares it with the descriptor that was embedded
in the program and with the marker's name, verifies and loads the objects of
the newest offer past its cursor, links and validates them, and leaves either a
prepared generation or a rejection in the group. `update()` takes the worker's
mutex, commits what is prepared and reports what was rejected, group by group;
then, with the mutex released, it claims, loads and commits the watched object
files as one more transaction. A commit reserves, snapshots every entry it will
write, writes them one at a time, and restores them in reverse order if one
write fails; if a restore fails as well the session is poisoned and keeps every
allocation. The memory comes from an arena of pools near the program's code,
which outlives the session around everything an entry may still jump into.

In a browser the publisher writes one module per generation and replaces one
manifest, `latest`. A timer polls the manifest of every enabled group; an offer
of a greater sequence starts the fetch and load of its module; `update()`
points the PLT slots of the group at a module that became ready.

The monitor is a second thread of the host program: it takes snapshots, guesses
from their counters what happened, draws, and on a key calls `update()` itself.

### 1.3 What is hard here

- Writes to entries are not atomic as a group, and can fail in the middle.
- The images are reachable from running code, so every path (success,
  rejection, poisoning, destruction) must decide who unmaps each of them; and
  protection, unlike ownership, comes in whole pages that are shared.
- Worker, host and render thread share the groups, the loader and the arena;
  some accesses are under the mutex and some are not.
- Names are ambiguous: a function or a variable may exist in the program, in an
  earlier generation and in this one, with one name in several units.
- Publisher, consumer and build are processes that share files; only renames
  are atomic, and each of them may die between any two steps. A file may be cut.
- An outcome waits in the group for a call that may come late, after a newer
  outcome, or after a pause.
- In the browser every wait ends in a callback, which may be late: the offer
  superseded, the group paused, the session destroyed and another one created.

The list of concrete hazards, each at its line, is `hazards` in `PROJECT.json`.

## 2. Plan

| order | module | composes | properties and theorems | state |
|---|---|---|---|---|
| 1 | `AtomicReload` | - | the one-step transaction a host may rely on | done |
| 2 | `ReloadTransaction` | implements 1 | memory ownership, atomicity, one home per global | done; everything the run checks is proved |
| 3 | `NativeSession` | outcomes of 2 and 4 | delivery of outcomes, pauses, thread interleavings, liveness | done; safety proved |
| 4 | `PublicationStream` | - | the files between publisher and consumer | done; safety proved |
| 5 | `WasmSession` | - | fetches and activation in the browser backend, `publish_wasm_offer` | done; safety proved |
| 6 | `CodePages` | what 2 calls a slot | page protection, placement, pool accounting, end of a session | done; everything the run checks is proved |
| 7 | `ObjectLoader` | what 2 calls loading an object | memory, what names bind to, where variables live, what is redirected | done; everything the run checks is proved |
| 8 | `OfferProtocol` | what 3, 4 and 5 call an offer | reading, writing, comparing and discovering, under damage | done; everything the run checks is proved |
| 9 | `Monitor` | over 3 | the render thread next to the host | done; safety proved |
| 10 | `ObjectClaims` | the batch of 3 | claiming by rename, cleanup of a failed batch, several sessions on one path | open |

Every safety property that a run checks is proved; what is left to prove is what
`ObjectClaims` would add. Liveness stays with TLC (section 5.9).

## 3. The modules and the code

### 3.1 `ReloadTransaction`, `AtomicReload`

The state of a transaction: where every function entry jumps (`entry`), who
keeps each reservation of the arena mapped (`status`, `owner`), the images
loaded and not yet validated (`building`), the validated generation of each
owner (`prepared`), the state committed generations own (`committed`), and the
progress of `commit()` (`stage`, `saved`, `patched`, `failed`). An image is the
code slot it occupies, the entries it replaces and the homes it gave to globals
nobody introduced before. Owners are the managed groups, whose objects
(`Offered`) the worker loads, and `Batch`, the object watches that `update()`
loads itself, which may be of any member.

`LoadObject`, `LoadFails` and `Prepare` are `prepare_object`,
`link_generation` and `validate_generation` as the worker and the batch call
them; `Begin` is where `update()` enters `commit()`; `ReserveCommit`,
`SnapshotEntries`, `PatchEntry`, `RestoreEntry`, `Commit` and the failing
variants of each are the steps of `commit()` in the order of the code;
`Poison` is the incomplete rollback, `CommitThrowsLate` an allocation that
fails after the last write, `EndSession` the destructor, which hands every
allocation to the process and lets a later session of the process start.
`WorkerMayRun` and `WorkerResting` say which steps the mutex separates: the worker
is kept out of a managed commit and runs between any two steps of the batch.

A write to an entry is one step: the backends change the five bytes of a live
entry while the host guarantees that nobody executes it. A target is a slot and
not an address inside one, and unmapping is the only use of memory the
properties distinguish; `CodePages` has the addresses and the protections.

`AtomicReload` is the promise without the protocol: an owner holds an offer, a
set of redirects; `Apply` makes all of it live at once, `Reject` none of it,
`Break` some of it and never anything again. `ReloadTransaction` implements it
with the mapping `live <- IF stage = "idle" THEN entry ELSE before`: between two
calls the host sees the entries, during one it sees what they were.
`MayMisreport` admits an applied offer of which the host is told that it was
rejected, which is what a late allocation failure does.

### 3.2 `NativeSession`

The host thread and the worker thread over the groups of one session. `lock` is
`worker_mutex_`; `call` says how far the current public call has come, `thread`,
`visited` and `loading` how far the worker's pass has. The actions follow the
statements between two points at which the other thread may get in:
`WatchBegins`, `EnableGroup`, `StartWorker` for `watch`; `UnwatchBegins`,
`DisableGroup` for `unwatch` (no mutex); `UpdateLocks`, the five outcomes of a
group, `ManagedDone`, `ClaimObjects`/`NoObjects`, `BatchEnds`, `UpdateReturns`
for `update`; `Destroy`, `Joined` for the destructor. `WorkerVisits` reads the
enabled flag, `PollObserves` is the observation of the newest offer,
`PreparationSucceeds` and `PreparationFails` what becomes of it, `PollThrows`
and `WorkerRaises` the exceptions that make the session unusable. `told` and
`committed` are history variables: the events about groups of every `update()`
that returned (`Managed`), and what was committed. Groups and generation ids
are numbers because their order matters: groups are visited in `group_id`
order (`Lowest`), offers of one sequence are ranked by their id (`Newest`).

`snapshot()` writes nothing; `GroupState` is what it shows of a group and
`SnapshotTellsAll` what a reader may conclude from it. Watches of objects are
one `object` file, since claiming, loading and committing all of them is one
outcome of the call.

### 3.3 `PublicationStream`

Publisher processes, consumers and the build over the files of one stream. A
digest is the content it was computed from and a generation id the tuple of the
contents, which is what a collision-free hash amounts to. `TakeLock` to
`ReleaseOffer` are `publish_generation`; `RemoveFile` is `remove_all`, which
unlinks one file after the other in any order; `GivesUp` is an exception or the
death of the process at any step, after which the operating system has released
the lock and the staging directory is garbage. `Scan` to `CheckObject` are
`poll()`, file by file; `LoadObject` and `LoadFails` are the worker's second
read. `Rebuild` is the compiler at work on the objects.

Nothing is assumed of the build or of who publishes. An object may be rewritten,
or be missing, while its publication runs, and a content that was offered before
may be published again; `publish_generation` takes no notice of either, and then
replaces the directory of the old offer. Four variables that no step reads say
what has happened: `rewritten` (objects that changed between the two reads of the
publication at work), `mixed` (ids released with such an object), `replaced`
(offered ids whose directory a publication began to remove) and `torn` (ids whose
publisher died while it might do so). The properties use them to name the cause of
whatever a consumer meets: `OffersLeadHome` ends where a replacement begins,
`DirectoriesMatchDigests` and `LoadsAreVerified` have mixed releases as their one
exception, and `DirectoriesAreRestored` says what a replacement leaves behind.

### 3.4 `WasmSession`

One page: the groups of its session, and the publisher processes of their
offers. The page has one thread, so every callback and every call is one step;
what is modelled is everything that can come between two of them. `TimerFires`
queues a callback, `Tick` runs it, and `tick` remembers whether the
subscription that queued it is still there. `Tick` may start a fetch,
`FetchReads` is the moment the text is read, which may be that of any manifest
the server has had since a cache may answer, and `ManifestArrives` or
`FetchFails` the completion, `offer_poller::state::handle`. `LoadSucceeds` and
`LoadFails` are the completion of `candidate`: digest, descriptor and ABI checks
all end in one of the two. `Watch`, `Unwatch`, `Update`, `Destroy` and `Create`
are the calls; fetches and loads survive `Destroy`, as the browser does not
cancel them. `TakeLock`, `ReleaseArtifact`, `ReplaceManifest` and `GivesUp` are
`publish_wasm_offer`. `mapped` are the open module images, closed by
`~loaded_image` unless activation made them resident; `told` is the history of
all events.

### 3.5 `CodePages`

The arena, on Linux and on Windows: `platform` is chosen once and every
definition says where the two files differ. Addresses and sizes are page
numbers. `prot` and `content` are the address space, `pools` what the arena
keeps of it, `handles` the reservations the caller owns and how far each has
come: candidate, committed image, kept by the session, kept by the process.
`Candidates` is the search for a place (a gap in the part of the address space
that a relative jump reaches, cut to the granularity of the system),
`ReserveInPool` and `ReserveNewPool` are `reserve_near`, with every place that
could not be made writable counted as a failing system call. `Drop` is the
destruction of a generation's handles, `CommitCode` and `RewriteReservation`
what the loader does to an image, `PatchEntry`, `RollBack` and `Publish` what
`commit()` does to entries, and `EndSession` is the destructor of the arena:
Linux unmaps everything around the slots that must stay, Windows releases whole
pools or decommits slots. On Windows `unwind` are the registered unwind tables.
`faults` counts failing system calls and is bounded by `MaxFaults`; the failure
that causes a rollback is not counted, so that it can happen in every behaviour.

### 3.6 `ObjectLoader`

What becomes of an object file, again for both platforms. A program is a
sequence of definitions in symbol-table order, an object its functions,
variables, data sections and references. `FunctionInSource`, `ResolvedElf`,
`ResolvedPe`, `Named` and `First` are the lookups of the symbol tables. The table
of Windows is a PDB, in which a name is found twice: among the records of its kind
(`Records`), under its undecorated spelling, so that a decorated name of an object
is not found there unless the two are the same (`plain`), and among the public
symbols (`Publics`), which are of external things, have the decorated name and no
kind, and are searched for functions and for variables alike; a public has no size
(`SizeOf`). `ResolvedPe` asks for a function first, so that an external variable is
found as one, and a relative reference to it is sent to a trampoline (`Slot`,
`Outside`). `Identity`, `HomeOf`, `Unbindable` and `SectionAccess` decide where a
mutable variable lives; `Reached` and `Unencodable` are the relocations, reduced to
the address a reference gets and to whether it can be reached, and `Way` says by
what that address was found: the address alone, a slot, or an offset that an
immediate operand has shifted. `Accepts` is the kind of definition a pending
reference takes from a sibling. `Replaced` and `Ambiguous` say which entry a fresh
function takes over. Memory is a row of reservations; an image takes the first free
one and each variable it introduces (`Introduced`, `Place`, `FreshAddress`) one of
those behind it, and all of them are taken as long as the image is somebody's
candidate or committed (`Reserved`). `LoadObject` is `load()`, `LinkGeneration` is
`link_generation()` with `validate_generation()`, `CommitGeneration` the commit of
both. An image remembers where it took its variables to be (`binds`). The properties
do not look at names: each reference carries the thing it names (`Wanted`), a
variable or function of the whole program or of one unit, and is compared with where
it ends up. What the loaders conclude from names is not always right; what it takes
to be right is stated in the section "What the properties rest on" of the module
(section 4.1).

### 3.7 `OfferProtocol`

The offer of a native group, the offer of a browser group and the embedded group
descriptor are two tables (`Shape`, `Repeated`) for each of three dialects over
one line grammar. The reader takes one line per step (`ReadHeader`, `ReadLine`,
`SkipLine`, `Finish`) and reports why it stopped and where, as the code does;
`Issue` is the order of its checks, of which `FirstWrong` tells the first that
fails. `Serialized` writes a `Block` of lines for each directive, `Valid` is the
validation both sides use, `Deliver` the comparison of an accepted offer with
descriptor and marker (`MarkerReadable`, `Disagreements`, `NamedBy`).
`ReadRecord` and `ResolveRecords` walk the linked section of descriptors. A
value is a member of a set of spellings (component, nested path, object path,
digest, phrase), chosen so that every field has values it takes and values it
refuses; `Shorter` says which numbers begin with the digits of which, and is all
that is told of digits. `Damage` is what happens to a file before it is read: it is cut in or
between lines, or a line is dropped, repeated, moved, replaced or inserted.

### 3.8 `Monitor`

The fullscreen and pty modes of the terminal monitor: a render thread that takes
a snapshot, queues what it tells, moves the queue into the log pane unless the
reader has scrolled away, draws the frame through a differential renderer,
writes it to a display that may drop the rest of it at any row, and then handles
the events of one read; next to a host that works, logs, calls `update()` at its
safe points and destroys the monitor. `CountOutcome` and `RecordOutcome` are the
two writes of `update()` the snapshot can see, in their order, made by whichever
thread calls it: a managed outcome under the mutex `snapshot()` takes, an object
outcome without it. The renderer, the scroll region and the decoder of escape
sequences belong to the Glyph library and do here what `monitor.cpp` relies on.
`newest`, `told` and `overlap` are history variables.

The terminal is one of two placements. A pty drops what its far end does not take;
the current terminal, whose descriptor is left blocking, holds up the thread that
writes while it is stopped (`TerminalStops`, `TerminalResumes`). A write takes
effect in the step in which it returns: `EnterLoop`, `DrawFrame` and `LeaveLoop`
wait for `WriteReturns`. `AskSnapshot` and `Observe` are the call and the use of
`snapshot()`; once the worker or a rollback has failed (`SessionFails`) the call
throws, nobody catches it on the render thread, and the process ends
(`SnapshotThrows`), with the terminal as it was; `Alive` is what every other step
asks first.

## 4. The runs

The modules named `MC...` add symmetry sets and data; the other runs use their
module directly.

| run | bounds | distinct states | shows |
|---|---|---|---|
| `tx` | 1 group and the batch, 2 members of which 1 is offered, 2 entries, 4 slots, 1 global, late allocation failures | 428 thousand | memory is safe, candidates are accounted for, one home per global; refinement of `AtomicReload`; a rejection changes nothing; entries that may not be written are not |
| `ns` | 2 groups, 3 sequences, 1 generation id, 1 ill-named marker, 2 files, baseline 1, an object watch | 383 thousand | outcomes come once and in order, snapshots tell all, pauses keep outcomes, every commit is told; offers are settled, calls return |
| `pub_files` | 2 publishers, 1 consumer, 2 members, 1 content, 3 sequences | 88 thousand | a directory that is replaced file by file is restored |
| `pub_race` | 2 publishers, 1 consumer, 1 member, 2 contents, 2 sequences | 716 thousand | offers are sound and are consumed as published, with every cause named; sequences never go back, every offer is settled once and eventually |
| `wasm_page` | 1 group, 2 publishers, 2 contents of which one does not fit, 3 sequences, 2 sessions | 2.2 million | late completions change nothing, images are neither lost nor closed under running code, pauses hold |
| `pages` | 12 pages of which 2 are text, 2 entries of which one straddles, 3 reservations of one or two pages, 2 sessions, 1 fault, both platforms | 571 thousand | redirects land, live memory is kept, slots are apart |
| `loader` | 2 owners, 2 units, 12 objects, 2 programs (of plain and of decorated names), 2 committed images, 4 reservations, both platforms | 77 thousand | memory is given out once, generations agree on their variables and clear names reach their home, calls and redirects keep their identity |
| `protocol` | 3 formats, 9 documents, 6 markers, 8 sections, 2 damages per file | 3.6 million | a file parses as it declares, what is written is read, torn offers are not loaded, one descriptor per group |
| `monitor` | 2 lines held and kept, 1 visible, 4 lines of work of which an outcome is two, 2 outcomes, both placements | 887 thousand | the screen is the frame, the log is current, the panel closes |

Why these bounds. Two entries are needed to fail in the middle of a commit and
one written entry is enough to roll back; four slots let an old image, its
replacement, a third candidate and a global exist together, so that reuse of
reclaimed memory happens. The batch loads two members, the least that introduce
the same global twice in one generation. Three sequences with a baseline of one
give an offer below the cursor, a superseded one and a newer one; two groups
let one fail in the middle of an update of the other. Files of a generation are
its manifest and its objects, so that one member is enough for a publisher to die,
and for a consumer to look, between two of them; `pub_files` has two members and
three publications, so that a directory one publisher has torn is replaced by
another. Two publications are the least in which a consumer holds one offer while
the next replaces its directory or is published beside it, and two contents the
least with which an object may be rewritten between two reads. Three manifests and two sessions let a completion
be late by one publication and by one session at the same time, and let the
content of a manifest return after another one. Twelve pages hold the text and a
pool on each side of it, with a gap on each side that is cut by the end of
reach or of memory; three reservations are an image that stays, one that is
dropped and one that takes its slot at another size, in a later session too. The
twelve objects are the edits the loaders distinguish: a new static before and
behind an old one, written with a constant or not, a static variable and a static
helper both units have, a global introduced by either of two units and used by the
other, a new function, its caller and who takes its address, a function that is too
small, a variable that changed its size, variables of the program and of a library
read through either kind of field. Two damages are a
cut of an edited file and an edit of a cut one, or a moved pair of lines. Two
held lines and four of work overflow the queue or the pane, in their order.

Three runs expect a violation and are the findings: each checks one sentence of
the repository, and TLC's counterexample is the way the code departs from it.

| run | sentence | what happens |
|---|---|---|
| `ns_objects_after_rejection` | `include/neko/session.hpp:194-195`: object watches are picked up "when no managed transaction was rejected" | they are applied after a managed rejection (`src/runtime/native_session.cpp:244`) |
| `pub_crash_on_republish` | `src/runtime/publisher.cpp:120-121`: a crash leaves "never an incomplete offer" | an old offer loses its files (line 146) |
| `monitor_updates` | `docs/managed-reload-design.md:948`: the monitor "MUST NOT call `update()` from its input or rendering thread" | the key `r` does (`src/tui/monitor.cpp:424`) |

### 4.1 Where a property needs an assumption, or the code departs from its words

Some properties hold only under an assumption that a configuration names.

- `AllocationFails = TRUE` (`tx`): bookkeeping after the last write may throw,
  since `commit()` writes maps and strings after the last entry
  (`src/runtime/reload_transaction.cpp:164-198`), and `update()` then reports a
  rejection of a generation that is live, against
  `include/neko/session.hpp:197-198`. `RejectedChangesNothing` therefore speaks
  of every rejection but that one, which comes at the stage "patching", and the
  abstract specification is taken with `MayMisreport`: what the host is told may
  be wrong, what the program runs is never half a generation.
- Ill-named markers (`ns`): the report of a file with an ill-formed name resets a
  prepared generation whose offer the cursor has passed
  (`src/runtime/managed_worker.cpp:73-80`). `PreparedWorkIsKept` names this as
  the one exception, and `OffersAreSettled` is about streams without one.
- Publications (`pub_files`, `pub_race`). No configuration assumes anything, and
  the properties name the two causes of what goes wrong. An object that is rewritten
  between the two reads of its publication (`src/runtime/publisher.cpp:133-134`)
  makes a directory that does not hold what its id hashes. The poll rejects it; but
  the worker reads every object again (`src/runtime/managed_worker.cpp:92`) and
  checks no digest, so that a mixed release put in place after the poll would be
  loaded. A publication of identical
  content removes and replaces the directory of an older offer; what a consumer may
  then meet are the rejections and the exception of `OffersAreConsumed`, and the
  three configurations `PublicationStream_crash`, `_replace` and `_poll`.
- `TextIsFollowed` (`CodePages`; `AfterText = {"r"}` in `pages`): a page of the
  program follows its text, as the read-only data or the next section does in
  the layouts of the linkers in use. A write
  to an entry on Linux changes two pages and leaves both r-x
  (`src/backends/elf/runtime/code_pages.cpp:519`). With `{"free"}` a pool may
  begin right behind the text, and a redirect in the last page of the text then
  takes the write access from globals reserved there, against
  `include/neko/backend/code_substituter.hpp:48` ("remains read+write");
  `LiveMemoryIsKept` fails, which is why the module assumes it by name and the
  theorems of section 5.5 rest on it. With writable data behind the text, that data would
  become r-x.
- `LogIsCurrent` (`monitor`) is about outcomes of managed groups and about
  panels with no two `update()` calls at once. The outcome of an object batch is
  counted and described without the mutex, and a snapshot in between shows the
  new counter with the old text for good
  (`src/tui/monitor.cpp:242-255`). If both counters rise between two frames the
  panel tells the same text twice.

- The names of `loader`. Loaders see symbol names, and a name does not always say
  what it names. The programs and objects of the run have two file-local variables
  of one name, stores of constants and decorated names. What holds for them is
  `StateIsKept`: committed generations agree on the address of every variable they
  define (`BindingsAgree`), whatever shares its name, and a reference by address to
  a variable with a clear name (`NameIsClear`: nothing else in the program, in a
  library or in an object has it, and the symbol table finds it) reaches its one
  home (`ClearNamesReachHome`). That every reference reaches its one home
  (`OneHomePerVariable`) is what `README.md:19` says ("globals and statics keep
  their values across reloads") and does not hold; three configurations below show
  how. Functions are clear only under conditions that are stated in `ObjectLoader`
  and are hypotheses of two theorems of section 5.8: `NewFunctionsAreNoOthers` (no
  external function of an object has the name of a file-static function or of an
  external variable of the program), `FunctionNamesAreClear` (the name of a function
  that an object uses is not a variable's, nor file-static here and external there;
  two units may each have a static function of one name) and
  `FunctionsAreReferredToPlainly` (at their beginning). `NamesOfTheInstance` of
  `MCObjectLoader` makes TLC evaluate them for the run. The code checks none of them.

Eleven configurations beside the runs give their module a sentence of the
repository that it does not satisfy. They are not part of `runs`, and the command
of the introduction shows TLC's counterexample for each.

| configuration | property | sentence | what happens |
|---|---|---|---|
| `PublicationStream_replace` | `PublishedIsImmutable` | `docs/managed-reload-design.md:468`: "Published contents MUST NOT be modified" | a publication of identical content removes the files older offers lead to (`src/runtime/publisher.cpp:146`) |
| `PublicationStream_poll` | `PollNeverThrows` | `src/runtime/generation_stream.hpp:60-61`: "Artifact problems are rejections (values), not exceptions" | the directory is gone between the manifest and the throwing `canonical` (`src/runtime/generation_stream.cpp:102`), which ends the worker and the session |
| `ObjectLoader_statics` | `OneHomePerVariable` | `README.md:19`: "globals and statics keep their values across reloads" | of two file-local variables of one name the first in the symbol table is taken for both units (`src/backends/elf/runtime/loader.cpp:324`) |
| `ObjectLoader_immediate` | `OneHomePerVariable` | the same | the bytes of an immediate operand behind a rel32 are part of the addend with which the variable of a section-relative access is looked up (`src/backends/elf/runtime/loader.cpp:499-519`), so that a store of a constant is bound to the variable before the one it names |
| `ObjectLoader_decorated` | `OneHomePerVariable` | `src/backends/pe/debug/process_symbols.hpp:6-7`: names "are the decorated bytes the drivers emit" | records have undecorated names (`tests/unit/backends/pdb/process_symbols.cpp:44`) and publics no file-local variables: a static of C++ is found under neither (`src/backends/pe/debug/process_symbols.cpp:213`) and gets fresh storage |
| `ObjectLoader_loads` | `LoadsCrossNoJump` | `src/backends/pe/runtime/loader.cpp:240-242`: data takes "the direct address below, because a load cannot cross a jump" | an external variable is found among the publics as a function, and a relative load of it is sent to its trampoline |
| `Monitor_block` | `WritesReturn` | `src/tui/terminal.hpp:46-48`: a write "must never block" | stdout is left blocking in the current terminal (`src/tui/terminal_posix.cpp:126-136`), and the thread stays in `write()`, with the destructor waiting for it |
| `Monitor_fatal` | `FailuresAreReported` | `docs/managed-reload-design.md:286-287`: a fatal worker error "MUST NOT escape the worker and terminate the process" | `snapshot()` throws on the render thread, where nobody catches it (`src/tui/monitor.cpp:242`) |
| `NativeSession_backend` | `BackendIsExclusive` | `src/runtime/session_impl.hpp:144-146`: the mutex separates the worker from the calls that use loader and arena | `update()` has released it when it loads and commits the object batch (`src/runtime/native_session.cpp:239-244`) |
| `WasmSession_ready` | `ReadyIsPickedUp` | `include/neko/session.hpp:194`: "Pick up every ready managed group" | a generation id that was reported once is skipped (`src/backends/wasm/session.cpp:135`), so that one which failed and is published again at a later sequence stays ready for ever |
| `CodePages_guard` | `OverrunsFault` | `src/backends/pe/runtime/code_pages.hpp:9-14`: "Any write past the usable span ... faults" | on Windows a slot is committed without a spare page and the next slot may follow at once |

Reading the loaders for `ObjectLoader` showed more that the model contains and
no property states, or that lies below its level of detail: a fresh *global*
function is redirected onto another unit's *static* of its name when that is the
only one (`src/backends/elf/runtime/loader.cpp:598`, next to the comment of
lines 620-624 that rejects exactly this guess for locals); a function that an
earlier generation introduced is not in the process's table, so that a later
edit of it reaches only the callers rebuilt with it (`CallsReachTheirFunction`
therefore admits every committed body); the Windows lookup of external names
does not look at the binding; a library keeps the variable it has when an object
defines it anew, since `bind_state` does not ask the dynamic linker; the addend of
a pending 64-bit fixup is read with 32 bits
(`src/backends/pe/runtime/loader.cpp:490`); the size of a Windows variable includes
the padding up to the next one, so that a changed layout can refuse an unchanged
variable.

Two rules of `docs/managed-reload-design.md` are not implemented and therefore
not stated of the model: that a function a generation no longer defines is
restored or the generation rejected (540-543; `commit()` warns and keeps the
redirect), and that a patch target belongs to one group only (545-547;
`validate_generation` compares replacements within one generation). What the
model does show is that both are harmless to memory and to rollback:
`MemoryIsSafe` and `ImplementsAtomicReload` hold with dropped functions and
with entries that two owners redirect in turn.

### 4.2 Fairness

`ns` assumes weak fairness of the worker's own steps and of a call that has
begun: a running thread proceeds. Whoever waits for the mutex gets it
eventually (strong fairness): the worker is away from it for 100 ms after every
pass, and the host between calls. `update()` is begun again and again (strong
fairness, since watch and unwatch calls may come in between): the host calls it
at its safe points. Nothing makes anybody publish, pause, resume or destroy.
`pub_race` assumes weak fairness of each consumer, which polls every 100 ms, and
nothing of publishers, who may die at every step. `monitor` assumes that the
render thread runs, that a call of `update()` the host is in comes to its end
and that a join whose thread has left returns; the user need not press anything
and the host need not log, update or destroy. Nothing makes a terminal that stopped
take bytes again: a write to it need never return, since the descriptor is left
blocking. `PanelCloses` therefore speaks of behaviours in which the terminal is not
stopped from some point on (`<>[]~stalled`, which a pty always satisfies, as writes
to it do not block), and admits, as the other end of a panel, that a failed session
has ended the process. Reading input ends because a read
returns a finite number of events. `WasmSession`, `CodePages`, `ObjectLoader` and
`OfferProtocol` have no liveness property: nothing obliges a browser to answer
or a caller to call again.

### 4.3 Deadlock

Deadlock is checked in the runs of `ReloadTransaction` and `NativeSession`; a
destroyed session has a step of its own that changes nothing. It is not checked
elsewhere, where the system really stops: a publisher at the bound on sequences
with a consumer that has settled everything, a page whose last session is gone,
an arena whose handles and sessions are used up, a loader at its bound on
images, a file that has been read, a monitor that has been destroyed or
whose process has ended.

## 5. The proofs

Eight modules hold theorems, each for any values of the constants: any sets of
entries, slots, groups, publishers, consumers, contents, and any bounds. The
assumptions are those the modules name (`ASSUME`): markers such as `None` are no
values of the sets they stand beside, bounds are naturals, groups and generation
ids are numbered where their order matters, entries lie in the text, and a page
of the program follows the text (`TextIsFollowed`, section 4.1), files, markers
and sections are made of words and lines (`WordsOfFiles`, `FilesAreFiles`), and
units, programs, objects and the arena are what the loaders are given
(`UnitsAreNamed`, `ProgramsAreDefinitions`, `ObjectsAreWellFormed`,
`ArenaIsRoomy`).

### 5.1 `ReloadTransactionProofs`

Every property of the run `tx`: `TypeCorrect`, `MemoryIsSafeAlways` (from the
inductive `MemoryCorrect`), `Refinement`, `RejectedChangesNothingAlways`,
`EntriesAreRespectedAlways`, `CandidatesAreAccountedForAlways`,
`OneHomePerIdentityAlways`.

- Memory. That entries are never dangling is not inductive: a step that reclaims
  the candidates of an owner must know that no entry and no saved rollback image
  is among them. `MemoryInv` therefore adds `CandidatesAreOwned` (the slots of an
  owner's images are candidates of that owner), `EntriesAreSafe` (an entry leads
  to a retained slot, or to a candidate of the transaction that is writing) and
  `WritesBelongToCommit` (what was written so far belongs to the generation being
  committed). Reclaiming an owner then touches no retained slot; a rejection is
  only reached with nothing patched; a commit and a poisoning retain the slots
  before the candidates are forgotten. Loading takes free slots, to which, by the
  invariant, nobody leads.
- Atomicity. `AtomicInv` says that while a transaction writes, the saved images
  are the entries at its beginning, that the entries written and not restored
  hold what the offer names, that entries neither written nor lost hold what they
  held before, and that a poisoned session runs no transaction. Every step inside
  `commit()` then maps to a stutter or to `Start`, `Commit` to `Apply`, a
  rejection to `Reject` because nothing is left patched, `Poison` to `Break`. It
  holds for either value of `AllocationFails`, which the mapping hands to
  `MayMisreport`.
- What is told. A running transaction has told nothing yet (`OutcomeIsOpen`), so
  a step that tells of a rejection is the end of one, and by `AtomicInv` the
  entries are then those of its beginning.
- Candidates. `NothingLeaks` is the other direction of `CandidatesAreOwned`:
  every candidate slot is one of its owner's images.
- Homes. Two owners may be prepared against the same state and both introduce a
  global. `HomesInv` says that once `commit()` has reserved, the homes of its
  generation are new and single, and that nothing commits in between.

### 5.2 `NativeSessionProofs`

Every safety property of the run `ns`: `TypeCorrect`, `SnapshotTellsAllAlways`,
`PauseKeepsOutcomeAlways`, `PreparedWorkIsKeptAlways`,
`NothingIsReplayedAlways`, `EveryCommitIsToldAlways`.

- `ControlInv`: the mutex separates the worker's pass from the managed part of
  `update()`, and something is being loaded only while a group is visited.
- `WaitingInv`: what waits in a group is of the offer its cursor is at; a
  rejection and a prepared generation never wait together; what is prepared is
  older than what is being prepared. From it follow what snapshots show and what
  a pause and an observation may take away.
- `OrderInv`: all that was said of a group, in calls that returned or in the one
  under way, is of offers its cursor has passed and older than what waits in it
  or is being prepared. That is why the next event is of a later sequence; a
  marker's rejection, which has no sequence, is left out of the order.
- `ToldInv`: a committed generation is among the events told, or among those of
  the call that committed it, until a fatal error throws them away.

### 5.3 `PublicationStreamProofs`

`TypeCorrect`, `SequencesIncreaseAlways`, `SettledOnceAlways`,
`OffersAreSoundAlways`, `OffersAreConsumedAlways` and
`DirectoriesAreRestoredAlways`: every safety property of `pub_files` and
`pub_race`, whatever the build rewrites and whoever republishes what, for any
numbers of members, contents and sequences.

- Sequences. A publisher takes its sequence long before it uses it; it stays past
  all offers because whoever is at work holds the lock (`LockIsHeld`,
  `SequenceIsFresh`), and two that are at work would be the same one.
- Settlement. What was settled is up to the cursor and increasing, and an offer
  that is being read is past what was settled (`ConsumptionInv`).
- Contents. `ContentInv` follows a content through its publication: what was copied
  is what was hashed, member by member, unless the member was rewritten in between,
  and what is not copied yet is still in the object (`CopiesMatch`); a generation
  that was released stays whole until its marker follows, because whoever could
  remove it waits for the lock (`Released`). So a directory is mixed only if one of
  its objects was rewritten, and an offer leads home until somebody begins to replace
  it. A consumer shares no lock with the publishers: what it has read agrees with the
  offer it selected, whatever became of the directory since, unless the id is mixed,
  and what made it reject or throw is on record (`ConsumesOffer`, `HasCause`). These
  facts outlive the publishers' steps because what is on record is never taken back.

### 5.4 `WasmSessionProofs`

Every property of the run `wasm_page`, and types: `TypeCorrect`,
`PublicationsIncreaseAlways`, `PendingIsItsOwnAlways`,
`EventsFollowTheStreamAlways`, `ImagesAreAccountedForAlways`,
`PauseHoldsAlways`.

- Publication. That manifests increase is not inductive: a publisher chooses its
  sequence steps before it writes it. `PublicationInv` says that whoever is busy
  holds the lock (`LockIsHeld`), that its sequence stays past every artifact
  until it adds its own and past the manifest until it replaces it
  (`AllocationIsFresh`), and that the manifest names a released module
  (`LatestIsReleased`).
- Sessions. `SessionInv` adds to the properties `EventsArePast` (events are of
  offers up to the accepted one, and the accepted one is reported if one of them
  is of it, so that the next event is of a later offer), `PendingIsFresh`
  (dropping a candidate that is ready cannot close code that was activated) and
  `PltIsApplied`. `PendingIsItsOwn` is what makes late completions harmless: a
  load that is still awaited is of the present session and the accepted offer.
- Pauses. `TickIsObserved`: a queued callback that is still valid belongs to an
  enabled group. Without it resuming a group could revive a callback of the
  subscription before.

### 5.5 `CodePagesProofs`

Every property of the run `pages`, for both platforms, any address space, reach,
pool size, granularity, requests and entries, and any number of handles,
sessions and faults: `TypeCorrect`, `SlotsAreApartAlways`,
`LiveMemoryIsKeptAlways`, `RedirectsLandAlways`. None of the three is inductive:
that live memory is kept depends on every other reservation and on every write
to an entry next to it. `IInv` has three parts.

- `ArenaInv`, the arena alone. `PoolsInOrder`: the slots of a pool follow each
  other up to its cursor, which stays within the pool. `PoolsAreApart`: pools
  share no page with each other or the program, and none of their pages is
  unmapped. `TailsAreBare`: behind the cursor nothing is accessible.
  `SlotsAreGuarded`: what a slot of Linux does not use of its extent is
  inaccessible unless the slot resisted its reclaim. `ProgramIsKept`: no page of the program
  is unmapped or holds a reservation. A new pool comes from a gap, whose pages
  are free, so it meets no pool; a slot cut from the end takes pages of the tail;
  a reused slot gets no more than the extent it has.
- `HandlesInv`, the caller's handles and the arena. `MemoryKept`: the memory of a
  handle that was not dropped holds its own bytes under a protection of its kind.
  `InSlot`: a handle that was not released to the process has the active slot at
  its address, of its size. `OutsidePools`: memory of ended sessions is in no
  pool, so nothing a later session does reaches it. Contents are what keeps two
  handles apart: a page holds the bytes of one reservation.
- `EntriesInv`, the entries and the handles. `EntriesLand`: an entry leads to
  its prologue, to an image no transaction can drop any more, or, written by the
  running transaction, to an image of that transaction. `SavedLand`: what a
  rollback puts back is of the first two kinds. `UnwindLands`: a registered
  unwind table is of an image that is still there.

A write to an entry changes the pages of the text and, on Linux, the page behind
them; by `TextIsFollowed` and `ProgramIsKept` that is a page of the program and
no reservation's, so that no handle is touched. Ending a session is the longest
step: Linux unmaps each pool around the hull of the slots that stay, Windows
releases pools or decommits slots one by one, and the proof shows for both that
the pages of a handle the session kept survive and that every other handle is
gone. `RunEnds` (a gap has an end) is the one fact that needs well-foundedness;
the library states it.

### 5.6 `MonitorProofs`

Both safety properties of the run `monitor`, and types, in either placement and
with a session that may fail: `TypeCorrect`,
`ScreenIsTheFrameAlways`, `LogIsCurrentAlways`.

- The screen. The property is inductive by itself once types are known: only
  `DrawFrame` touches renderer or display, and a frame that was cut leaves the
  renderer without a frame to compare with.
- The log. `LogInv`: the queue is no longer than its capacity, and the newest
  lines are the end of what pane and queue hold. Moving the queue into the pane
  and dropping the oldest on either side then keep the same end.
- Outcomes. `OutcomeInv` follows the two writes of `update()`, the counter and the
  text. `CallsHoldTheLock`: a managed outcome is between its two writes only
  under the mutex. `ShownIsPast`: a snapshot shows no counter ahead of the
  session's. `RecordedIsUnseen` and `UntoldIsUnseen`: a managed outcome that is
  being recorded, or was recorded and not told, has a counter that was not shown
  yet, as long as no two calls overlapped. So the frame that shows the counter
  also tells the text.

### 5.7 `OfferProtocolProofs`

Every property of the run `protocol`, for all three formats, any sets of
spellings, documents with any number of members, files of any length and any
number of damages: `ParsesAsDeclaredAlways`, `WrittenIsReadAlways`,
`OneDescriptorPerGroupAlways`, `TornOffersAreNotLoadedAlways`. What a file means
is declared at once (`Meaning`, `Consistent`), what the reader does is line by
line; the proofs relate the two without an induction over data, because the
reader's own steps are the induction.

- Lines in order. `Meaning` takes the lines of a directive in the order of the
  file. `OrderOfNext` says what a further line does to that order, `OrderOfRun`
  what it is of lines that stand side by side.
- Reading. `ReadingInv`: until it rejects or ends, the reader holds the meaning of
  the lines it consumed, and these are consistent (`SoFarSoGood`). It rests on
  `IssueDecides`, the argument of the whole part: for a consistent beginning, the
  checks of `Issue` refuse the next line exactly when the beginning with it is no
  longer consistent. So the error names the first such line. `ConsistentIsValid`
  makes the second validation, at the end of the file, harmless.
- Writing. `Holds` says of a beginning of the written file that it holds the lines
  of some directives, each in one run, and no others; `AddBlock` adds the lines of
  one more. At the end of `Serialized` all directives are held, so its meaning is
  the document (`MeaningOfSerialized`), and it is consistent if the document
  validates (`ValidIsConsistent`).
- Discovery. `SectionInv`: what was collected are the descriptors of the frames
  read so far, and frames that are no records are followed by padding only. What
  is kept of them (`ResolvedFacts`) is one for each group, and none is lost when
  they agree.
- Cut files. `MembersComeLast`: what is written before the members is before every
  member, and every directive but the changed inputs is required. A cut in front of
  the members therefore leaves a directive missing, a line cut within cannot be
  read (`TornLine`; a sequence whose last digits are lost is the last line and
  leaves the others missing), and a cut among the members leaves fewer of them than
  the descriptor names.

The last argument needs that an offer has no more members than the descriptor
(`OffersOfTheGroup`), which the theorem states as its hypothesis. The build adapter
hands both the same list (`cmake/nekomata.cmake:372-374`). When a group gains a
member and is published while an application linked before still watches, an offer
cut right behind the members this application knows would be complete to it; that
is the case the hypothesis leaves out. Manifests are put in place by a rename, so
that a cut one is not normally seen at all (section 3.3).

### 5.8 `ObjectLoaderProofs`

Every property of the run `loader`, for both platforms, any program, library and
objects, any number of groups, and any size of the arena: `StorageIsApartAlways`
(from the inductive `MemoryCorrect`) and `StateIsKeptAlways` without further
hypotheses; `RedirectsKeepIdentityAlways` and `CallsReachTheirFunctionAlways` under
the hypotheses of section 4.1 that each needs, which are about functions only.
`StepCases` reduces a step to five cases: an object is loaded, or a generation is
linked, committed or dropped, or nothing of the loaders changes.

- Memory. `MemoryInv` adds to the property that images lie in the arena and that
  an image is the candidate of one group or committed. A fresh image is apart
  from all others because its memory is free (`FreshMemory`): the k-th free
  reservation exists when a later one does (`EveryPlaceIsTaken`, the least number
  with enough smaller ones), and two variables have two places in the order of
  symbols (`PlaceFacts`).
- Names. `NamesMeet` is what `FunctionNamesAreClear` is used for: two occurrences of
  a function's name agree in kind and scope. `OwnDefinitions` and `OutsideDefinitions` draw the
  conclusion for a reference, that the definition an object has under that name,
  or the answer of the symbol table, is the one meant.
- Calls. `CallInv` says of a candidate what the property says of a committed
  image, with the bodies of its generation in the place of the committed ones,
  and two things that only linking needs: what an image exports as a function it
  has (`ExportsCode`), and what waits for a sibling is a name its object leaves
  undefined (`Waiting`). The address 0 of a placeholder cannot reach a committed
  image, because a generation whose names nobody answers is not linked.
- Homes. `HomeInv` says where a variable is: of what an image binds, that it is
  where the lookup of its name finds it, or else in storage that is or will be
  committed for its identity (`BindSound`); of storage, that it was introduced for a
  variable no lookup finds (`StateSound`), and one home for each identity
  (`HomesAreUnique`). Two generations then agree on what both define: a lookup
  depends on the name alone, and committed storage is unique. Of a data reference to
  a clear name it says that it leads to a place of its variable (`DataReaches`), and
  `OneHome` that there is only one. The hard step is a commit: between loading and
  committing another group may have introduced the same variable. `Publishable`
  refuses such a generation, so that what it introduces becomes the only home, and
  references that were bound to it before are right.
- Redirects. `RedirectInv`: the replacements of a candidate lead its own
  functions' entries to bodies of its own.

### 5.9 Only model-checked

- Liveness (`OffersAreSettled` of both modules, `CallsReturn`, `PanelCloses`) and
  whatever depends on fairness or `ENABLED`: beyond the proof system used here.
- The numbers: that a candidate pool lies within reach (`Candidates`) decides
  whether a redirect can be encoded, and is part of the model; the theorems do
  not depend on where in the address space a pool is.

## 6. Not modelled

- Claiming a watched file by rename, deleting it after a failed batch, and
  several sessions that watch one path (`src/runtime/prepare_generation.cpp`):
  open, section 2.
- The registration lists of the browser backend and their validation.
- The session facade: it forwards each call and has no state.
- The readers of ELF, COFF, DWARF and PDB bytes, of import tables and unwind
  data, hashing, file reading, logging and the command line tools: sequential
  code without shared state, for which tests on examples are the better tool. The
  arithmetic of single relocation types is reduced to their reach; instruction
  bytes and prologues are not looked at.
- Finding the descriptor section in the executable's file and resolving the
  generation root. Characters: the protocol's values are sets of spellings.
- Of the monitor: the logo and its animation, the footer, the terminal modes, the
  inline status line, the end of input (which it never asks for), and the
  decoder's flush of escape sequences that a read split in two.
- 64-bit wrap-around of sequences: sequences are naturals up to a bound.
