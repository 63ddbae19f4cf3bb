----------------------------- MODULE CodePages -----------------------------
(***************************************************************************)
(* Executable memory and entry redirection, on Linux                       *)
(* (src/backends/elf/runtime/code_pages.cpp) and on Windows                *)
(* (src/backends/pe/runtime/code_pages.cpp), page by page.  The two files  *)
(* share their structure; where they differ the definition says so, and    *)
(* `platform' picks one of them for the whole behaviour.                   *)
(*                                                                         *)
(* Addresses and sizes are page numbers.  The caller is the reload         *)
(* transaction: it reserves memory for the images and the globals of one   *)
(* generation, commits the images, redirects entries, and then keeps       *)
(* everything or restores the entries and drops everything.  Sessions come *)
(* and go; the redirects they installed stay.                              *)
(***************************************************************************)
EXTENDS Naturals, Sequences, FiniteSets

CONSTANTS LastPage,     \* the address space is 0..LastPage
          Entries,      \* function entries of the program
          EntryPage,    \* the page of an entry's first byte
          Straddling,   \* the entries whose five bytes cross into the next page
          TextPages,    \* the program's code
          AfterText,    \* what the page behind the code may be
          Reach,        \* rel32_limit
          PoolSize,     \* default_pool_size
          Granularity,  \* where Windows lets a reservation start
          Requests,     \* <<kind, pages>> asked for, page_size rounding done
          Hints,        \* the entries memory is asked for near
          MaxHandles,   \* bound on reservations
          MaxSessions,  \* bound on sessions of one process
          MaxFaults     \* bound on failing system calls, a rollback's cause apart

ASSUME EntriesAreInText ==
  EntryPage \in [Entries -> TextPages] /\ Straddling \subseteq Entries
ASSUME SizesArePositive ==
  /\ Requests \subseteq {"code", "state"} \X (Nat \ {0})
  /\ PoolSize \in Nat \ {0} /\ Granularity \in Nat \ {0}
  /\ Reach \in Nat /\ TextPages \subseteq 0..LastPage
  /\ Hints \subseteq Entries
ASSUME BoundsAreNaturals ==
  LastPage \in Nat /\ MaxHandles \in Nat /\ MaxSessions \in Nat /\ MaxFaults \in Nat
\* A page of the program follows its code: without one, a write to an entry
\* in the last page of the text changes a page of somebody else.
ASSUME TextIsFollowed == AfterText \subseteq {"r", "rx", "rwx", "rw"}

Pages == 0..LastPage
ProgramPages == {p \in Pages : p \in TextPages \/ p - 1 \in TextPages}
Handles == 1..MaxHandles
Platforms == {"elf", "pe"}

\* "none": mapped without access (PROT_NONE), or reserved and not committed.
Protections == {"free", "none", "r", "rw", "rx", "rwx"}
Executable == {"rx", "rwx"}

\* A caller's handle: candidates, and images that were committed, are dropped
\* with their generation; a session handle is released to the process by
\* ~native_session.
Phases == {"unused", "candidate", "committed", "session", "process", "dropped"}
Handle == [kind : {"code", "state"}, begin : Pages, span : Nat, phase : Phases]
NoHandle == [kind |-> "code", begin |-> 0, span |-> 0, phase |-> "unused"]

VARIABLES
  platform,   \* the backend this process uses
  prot,       \* the protection of every page
  content,    \* the reservation whose bytes a page holds, 0 for none
  pools,      \* allocation_state::pools of the running session
  handles,    \* the handles given to the caller
  target,     \* where an entry jumps: a handle, 0 for its prologue
  saved,      \* the rollback images of the running transaction
  unwind,     \* registered unwind tables (Windows), by handle
  session,    \* the number of the running session, 0 between two
  faults      \* system calls that failed so far

memory == <<prot, content, pools>>
vars == <<platform, prot, content, pools, handles, target, saved, unwind,
          session, faults>>

-----------------------------------------------------------------------------
(* Geometry. *)

Span(begin, size) == begin..(begin + size - 1)
Distance(a, b) == IF a > b THEN a - b ELSE b - a
Within(p, hint) == Distance(p, hint) < Reach
RangeWithin(begin, size, hint) == Within(begin, hint) /\ Within(begin + size - 1, hint)

AlignUp(p, unit) == ((p + unit - 1) \div unit) * unit
AlignDown(p, unit) == (p \div unit) * unit
Least(a, b) == IF a < b THEN a ELSE b
Most(a, b) == IF a > b THEN a ELSE b
Clamp(p, low, high) == Least(Most(p, low), high)

Unit == IF platform = "elf" THEN 1 ELSE Granularity

\* What a slot takes from its pool: Linux adds a page that stays PROT_NONE,
\* Windows takes the span alone.
Extent(span) == IF platform = "elf" THEN span + 1 ELSE span

\* reserve_near looks for a pool of this size on either platform.
PoolNeed(span) == span + 1

\* The part of the address space a rel32 from the hint reaches.
Window(hint) ==
  {p \in Pages : p >= AlignUp(Most(hint + 1, Reach) - Reach, Unit)
                 /\ p >= Unit /\ p < AlignDown(hint + Reach, Unit)}

\* The runs of unmapped pages inside the window, as <<begin, end>>.
Gaps(hint) ==
  LET open == {p \in Window(hint) : prot[p] = "free"}
      first == {p \in open : p - 1 \notin open}
  IN {<<AlignUp(b, Unit),
        AlignDown(CHOOSE e \in b..(LastPage + 1) :
                    e \notin open /\ b..(e - 1) \subseteq open, Unit)>> : b \in first}

\* find_pool_candidates: one pool per gap, as close to the hint as it fits.
Candidate(hint, gap, size) ==
  LET ideal == IF hint > size \div 2 THEN AlignDown(hint - size \div 2, Unit) ELSE gap[1]
      begin == Clamp(ideal, gap[1], gap[2] - size)
      last  == begin + size - 1
  IN [begin |-> begin, size |-> size,
      distance |-> IF hint < begin THEN begin - hint ELSE
                   IF hint > last THEN hint - last ELSE 0]

Candidates(hint, need) ==
  {Candidate(hint, g, Least(Most(PoolSize, need), g[2] - g[1])) :
     g \in {gap \in Gaps(hint) : gap[1] < gap[2] /\ gap[2] - gap[1] >= need}}

Closer(c, d) == \/ c.distance < d.distance
                \/ c.distance = d.distance /\ c.size > d.size

-----------------------------------------------------------------------------
(* Slots. *)

Slot(begin, span) ==
  [begin |-> begin, usable |-> span, extent |-> Extent(span), active |-> TRUE,
   kept |-> FALSE, executable |-> FALSE]

\* The slots of every pool, and the unused end behind them.
Places == UNION {{k} \X (1..(Len(pools[k].slots) + 1)) : k \in 1..Len(pools)}
SlotAt(place) == pools[place[1]].slots[place[2]]
IsSlot(place) == place[2] <= Len(pools[place[1]].slots)
Slots == {place \in Places : IsSlot(place)}

\* find(): the active slot at an address.
Found(begin) == {s \in Slots : SlotAt(s).active /\ SlotAt(s).begin = begin}

\* Mistake: an inactive slot is reused whatever its size was.
ReusableAtAnySize(s, span, hint) ==
  ~s.active /\ RangeWithin(s.begin, span, hint)

Reusable(s, span, hint) ==
  /\ ~s.active
  /\ Extent(span) <= s.extent
  /\ RangeWithin(s.begin, span, hint)

\* Mistake: the pool is taken to be large enough.
FitsBeyondEnd(pool, span, hint) == RangeWithin(pool.cursor, span, hint)

FitsAtEnd(pool, span, hint) ==
  pool.cursor + Extent(span) <= pool.end /\ RangeWithin(pool.cursor, span, hint)

\* Where reserve() can put a span: a slot that was given back, or the unused
\* end of a pool.
Fits(place, span, hint) ==
  LET pool == pools[place[1]]
  IN IF IsSlot(place)
     THEN Reusable(SlotAt(place), span, hint)
     ELSE FitsAtEnd(pool, span, hint)

Before(a, b) == a[1] < b[1] \/ (a[1] = b[1] /\ a[2] < b[2])

\* A pool with one more slot at its cursor.
Extended(pool, span) ==
  [begin |-> pool.begin, end |-> pool.end, cursor |-> pool.cursor + Extent(span),
   slots |-> Append(pool.slots, Slot(pool.cursor, span))]

TakeSlot(place, span) ==
  IF IsSlot(place)
  THEN [pools EXCEPT ![place[1]].slots[place[2]] =
          [@ EXCEPT !.usable = span, !.active = TRUE, !.kept = FALSE, !.executable = FALSE]]
  ELSE [pools EXCEPT ![place[1]] = Extended(@, span)]

\* A new pool, with its first slot.
Opened(c, span) ==
  [begin |-> c.begin, end |-> c.begin + c.size, cursor |-> c.begin + Extent(span),
   slots |-> <<Slot(c.begin, span)>>]

WithPages(region, p) == [q \in Pages |-> IF q \in region THEN p ELSE prot[q]]

NextHandle == {h \in Handles : handles[h].phase = "unused"
                               /\ \A g \in Handles : g < h => handles[g].phase # "unused"}

Give(h, kind, begin, span) ==
  handles' = [handles EXCEPT ![h] = [kind |-> kind, begin |-> begin, span |-> span,
                                     phase |-> "candidate"]]

\* No step of the transaction is being undone or waits for its handles.
Preparing == session > 0 /\ DOMAIN saved = {}

\* reserve(): the first place that fits and whose pages can be made writable.
ReserveInPool(h, kind, e, span) ==
  LET hint == EntryPage[e]
      fit  == {place \in Places : Fits(place, span, hint)}
  IN \E place \in fit :
       LET begin  == IF IsSlot(place) THEN SlotAt(place).begin ELSE pools[place[1]].cursor
           failed == Cardinality({p \in fit : Before(p, place)})
       IN /\ faults + failed <= MaxFaults
          /\ faults' = faults + failed
          /\ pools' = TakeSlot(place, span)
          /\ prot' = WithPages(Span(begin, span), "rw")
          /\ content' = [p \in Pages |-> IF p \in Span(begin, span) THEN h ELSE content[p]]
          /\ Give(h, kind, begin, span)

\* reserve_near: when no pool serves, the closest gap that can still be
\* mapped at its address becomes a pool.  Windows rounds the address of a
\* reservation down, so an unaligned candidate is given up.
ReserveNewPool(h, kind, e, span) ==
  LET hint == EntryPage[e]
      fit  == Cardinality({place \in Places : Fits(place, span, hint)})
      all  == {c \in Candidates(hint, PoolNeed(span)) : c.begin % Unit = 0}
  IN \E c \in all :
       LET failed == fit + Cardinality({d \in all : Closer(d, c)})
       IN /\ faults + failed <= MaxFaults
          /\ faults' = faults + failed
          /\ pools' = Append(pools, Opened(c, span))
          /\ prot' = [p \in Pages |-> IF p \in Span(c.begin, span) THEN "rw" ELSE
                                      IF p \in Span(c.begin, c.size) THEN "none" ELSE prot[p]]
          /\ content' = [p \in Pages |-> IF p \in Span(c.begin, span) THEN h ELSE content[p]]
          /\ Give(h, kind, c.begin, span)

Reserve(kind, e, span) ==
  /\ Preparing
  /\ \E h \in NextHandle : ReserveInPool(h, kind, e, span)
                           \/ ReserveNewPool(h, kind, e, span)
  /\ UNCHANGED <<platform, target, saved, unwind, session>>

-----------------------------------------------------------------------------
(* Giving memory back. *)

Whole(s) == Span(s.begin, s.extent)

\* reclaim(): the slots whose protection could be taken away become inactive,
\* a slot that resisted stays mapped for the process lifetime.
AfterReclaim(gone, stuck) ==
  [k \in 1..Len(pools) |->
     [pools[k] EXCEPT !.slots = [i \in 1..Len(pools[k].slots) |->
        IF <<k, i>> \in stuck THEN [pools[k].slots[i] EXCEPT !.kept = TRUE] ELSE
        IF <<k, i>> \in gone
        THEN [pools[k].slots[i] EXCEPT !.active = FALSE, !.kept = FALSE,
                                       !.executable = FALSE, !.usable = 0]
        ELSE pools[k].slots[i]]]]

PlacesOf(hs) == UNION {Found(handles[h].begin) : h \in hs}
PagesOf(places) == UNION {Whole(SlotAt(s)) : s \in places}

\* The handles that own their reservation for a generation that is not in
\* the session.
Owned == {h \in Handles : handles[h].phase \in {"candidate", "committed"}}

\* ~allocation for every candidate handle, on top of the protections `base':
\* unwind tables first, then the slots, of which `stuck' resist.
Dropped(base, stuck) ==
  LET back == PlacesOf(Owned) \ stuck
  IN /\ pools' = AfterReclaim(back, stuck)
     /\ prot' = [p \in Pages |-> IF p \in PagesOf(back) THEN "none" ELSE base[p]]
     /\ content' = [p \in Pages |-> IF p \in PagesOf(back) THEN 0 ELSE content[p]]
     /\ handles' = [h \in Handles |->
                      IF h \in Owned THEN [handles[h] EXCEPT !.phase = "dropped"]
                      ELSE handles[h]]
     /\ unwind' = unwind \ Owned

\* A generation that is rejected while it is prepared, or replaced by a newer
\* one.
Drop ==
  /\ Preparing
  /\ Owned # {}
  /\ \E stuck \in SUBSET PlacesOf(Owned) :
       /\ faults + Cardinality(stuck) <= MaxFaults
       /\ faults' = faults + Cardinality(stuck)
       /\ Dropped(prot, stuck)
  /\ UNCHANGED <<platform, target, saved, session>>

-----------------------------------------------------------------------------
(* Images. *)

\* commit_code: the pages of the slot become executable, and owns_address
\* recognizes them.  Windows then registers the unwind table and asks to be
\* told when the image goes.  (A failure throws, and Drop follows.)
CommitCode(h) ==
  /\ Preparing
  /\ handles[h].phase = "candidate" /\ handles[h].kind = "code"
  /\ \E place \in Found(handles[h].begin) :
       /\ prot' = WithPages(Span(SlotAt(place).begin, SlotAt(place).usable), "rx")
       /\ pools' = [pools EXCEPT ![place[1]].slots[place[2]].executable = TRUE]
  /\ handles' = [handles EXCEPT ![h].phase = "committed"]
  /\ unwind' = IF platform = "pe" THEN unwind \cup {h} ELSE unwind
  /\ UNCHANGED <<platform, content, target, saved, session, faults>>

\* rewrite_reservation: linking writes into a committed image.  A page whose
\* protection cannot be restored stays writable.
RewriteReservation(h, p) ==
  /\ Preparing
  /\ handles[h].phase = "committed"
  /\ faults < MaxFaults
  /\ faults' = faults + 1
  /\ prot' = [prot EXCEPT ![p] = "rwx"]
  /\ UNCHANGED <<platform, content, pools, handles, target, saved, unwind,
                 session>>

-----------------------------------------------------------------------------
(* Entries. *)

OwnsAddress(p) ==
  \E s \in Slots : SlotAt(s).active /\ SlotAt(s).executable
                   /\ p \in Span(SlotAt(s).begin, SlotAt(s).usable)

\* patchable_entry: a known prologue, or a jump into our own arenas.
Patchable(e) == target[e] # 0 => OwnsAddress(handles[target[e]].begin)

\* The pages whose protection a write to an entry changes.  Linux takes two
\* pages from the entry's, Windows the pages the five bytes cover.
WrittenPages(e) ==
  IF platform = "elf" \/ e \in Straddling THEN Span(EntryPage[e], 2) ELSE {EntryPage[e]}

\* What a write leaves behind: Linux makes both pages r-x, Windows restores
\* what it found.
Restored(base, region) ==
  [p \in Pages |-> IF p \in region /\ platform = "elf" THEN "rx" ELSE base[p]]

\* The pages mprotect and VirtualProtect cannot change.
Resisting(region) ==
  {p \in region : prot[p] = "free" \/ (platform = "pe" /\ prot[p] = "none")}

\* Every image of the generation is committed and linked.
Linked == \A h \in Owned : handles[h].kind = "code" => handles[h].phase = "committed"

\* patch_entry after snapshot_entry, for one replacement of the generation.
\* When the protection cannot be restored the pages stay writable.
PatchEntry(e, h) ==
  /\ session > 0 /\ Linked
  /\ handles[h].phase = "committed"
  /\ e \notin DOMAIN saved
  /\ Patchable(e)
  /\ Within(handles[h].begin, EntryPage[e])
  /\ Resisting(WrittenPages(e)) = {}
  /\ \/ prot' = Restored(prot, WrittenPages(e)) /\ faults' = faults
     \/ /\ faults < MaxFaults /\ faults' = faults + 1
        /\ prot' = WithPages(WrittenPages(e), "rwx")
  /\ target' = [target EXCEPT ![e] = h]
  /\ saved' = [d \in DOMAIN saved \cup {e} |-> IF d = e THEN target[e] ELSE saved[d]]
  /\ UNCHANGED <<platform, content, pools, handles, unwind, session>>

\* Mistake: the handles stay with the generation, which is destroyed.
LeftToGeneration == handles

\* commit() moves every allocation of the generation into the session.
KeptBySession ==
  [h \in Handles |-> IF h \in Owned THEN [handles[h] EXCEPT !.phase = "session"]
                     ELSE handles[h]]

\* Every entry of the generation is patched.
Publish ==
  /\ session > 0 /\ Linked /\ Owned # {}
  /\ handles' = KeptBySession
  /\ saved' = <<>>
  /\ UNCHANGED <<platform, memory, target, unwind, session, faults>>

\* The pages that stay writable when an entry cannot be written: those before
\* the first page that resists.
LeftWritable(e, p) ==
  Resisting(WrittenPages(e)) # {} =>
    p \in Resisting(WrittenPages(e)) /\ \A q \in Resisting(WrittenPages(e)) : p <= q

\* patch_entry fails for e at page p: restore_entry puts the written entries
\* back and the generation is dropped.  An entry that resists keeps its
\* redirect, and then the session keeps every candidate.
RollBack(e, p, lost) ==
  LET left == WithPages({q \in WrittenPages(e) : q < p}, "rwx")
      text == UNION {WrittenPages(w) : w \in DOMAIN saved \ lost}
  IN /\ session > 0 /\ Linked /\ Owned # {} /\ e \notin DOMAIN saved
     /\ Patchable(e)
     /\ LeftWritable(e, p)
     /\ faults' = faults + Cardinality(lost)
     /\ faults' <= MaxFaults
     /\ target' = [w \in Entries |-> IF w \in DOMAIN saved \ lost THEN saved[w]
                                     ELSE target[w]]
     /\ saved' = <<>>
     /\ \/ lost = {} /\ Dropped(Restored(left, text), {})
        \/ /\ lost # {} /\ prot' = Restored(left, text)
           /\ handles' = KeptBySession
           /\ UNCHANGED <<content, pools, unwind>>
     /\ UNCHANGED <<platform, session>>

-----------------------------------------------------------------------------
(* The end of a session. *)

\* Mistake: the globals of a generation are not released to the process.
OnlyImagesKept ==
  [k \in 1..Len(pools) |->
     {i \in 1..Len(pools[k].slots) :
        LET s == pools[k].slots[i]
        IN s.active /\ (s.kept \/ \E h \in Handles :
                          handles[h].phase = "session" /\ handles[h].kind = "code"
                          /\ handles[h].begin = s.begin)}]

\* release_to_process for what the session holds.
KeptAtEnd ==
  [k \in 1..Len(pools) |->
     {i \in 1..Len(pools[k].slots) :
        LET s == pools[k].slots[i]
        IN s.active /\ (s.kept \/ \E h \in Handles :
                          handles[h].phase = "session" /\ handles[h].begin = s.begin)}]

\* The pages between the first and the last retained slot of a pool.
Hull(k) ==
  LET region == UNION {Whole(pools[k].slots[i]) : i \in KeptAtEnd[k]}
  IN {p \in Pages : \E a, b \in region : a <= p /\ p <= b}

PoolPages(k) == Span(pools[k].begin, pools[k].end - pools[k].begin)

\* ~allocation_state on Linux: everything outside the hull is unmapped.
UnmappedAtEnd == UNION {PoolPages(k) \ Hull(k) : k \in 1..Len(pools)}

\* ~allocation_state on Windows: a pool without a retained slot is released,
\* in the others the slots that are not retained are decommitted.
ReleasedAtEnd == UNION {PoolPages(k) : k \in {j \in 1..Len(pools) : KeptAtEnd[j] = {}}}
DecommittedAtEnd ==
  UNION {UNION {Whole(pools[k].slots[i]) :
                  i \in {j \in 1..Len(pools[k].slots) : pools[k].slots[j].active}
                        \ KeptAtEnd[k]} : k \in 1..Len(pools)}

AtEnd(p) ==
  IF platform = "elf"
  THEN IF p \in UnmappedAtEnd THEN "free" ELSE prot[p]
  ELSE IF p \in ReleasedAtEnd THEN "free" ELSE
       IF p \in DecommittedAtEnd THEN "none" ELSE prot[p]

\* ~native_session, then the arena once its last handle is gone.
EndSession ==
  /\ Preparing
  /\ Owned = {}
  /\ prot' = [p \in Pages |-> AtEnd(p)]
  /\ content' = [p \in Pages |-> IF AtEnd(p) \in {"free", "none"} THEN 0 ELSE content[p]]
  /\ pools' = <<>>
  /\ session' = IF session = MaxSessions THEN 0 ELSE session + 1
  /\ handles' = [h \in Handles |-> IF handles[h].phase = "session"
                                   THEN [handles[h] EXCEPT !.phase = "process"]
                                   ELSE handles[h]]
  /\ UNCHANGED <<platform, target, saved, unwind, faults>>

Init ==
  /\ platform \in Platforms
  /\ \E behind \in AfterText :
       prot = [p \in Pages |-> IF p \in TextPages THEN "rx" ELSE
                               IF p - 1 \in TextPages THEN behind ELSE "free"]
  /\ content = [p \in Pages |-> 0]
  /\ pools = <<>>
  /\ handles = [h \in Handles |-> NoHandle]
  /\ target = [e \in Entries |-> 0]
  /\ saved = <<>>
  /\ unwind = {}
  /\ session = 1
  /\ faults = 0

Next ==
  \/ \E request \in Requests, e \in Hints : Reserve(request[1], e, request[2])
  \/ \E h \in Handles : CommitCode(h)
  \/ \E h \in Handles : \E p \in Span(handles[h].begin, handles[h].span) :
       RewriteReservation(h, p)
  \/ Drop
  \/ \E e \in Entries, h \in Handles : PatchEntry(e, h)
  \/ Publish
  \/ \E e \in Entries : \E p \in WrittenPages(e) : \E lost \in SUBSET DOMAIN saved :
       RollBack(e, p, lost)
  \/ EndSession

Spec == Init /\ [][Next]_vars

-----------------------------------------------------------------------------
(* Properties. *)

\* The arena's bookkeeping stays within its pools: no cursor passes the end of
\* its pool, whatever is reserved, given back and reused.
TypeOK ==
  /\ prot \in [Pages -> Protections] /\ content \in [Pages -> 0..MaxHandles]
  /\ handles \in [Handles -> Handle]
  /\ target \in [Entries -> 0..MaxHandles]
  /\ \A k \in 1..Len(pools) : pools[k].begin <= pools[k].cursor
                              /\ pools[k].cursor <= pools[k].end

Holds(h) == \A p \in Span(handles[h].begin, handles[h].span) : content[p] = h

\* An entry that was redirected jumps into the image it was redirected to,
\* which is executable: during a transaction, after a rollback that failed,
\* and after the session that installed it ended.  A registered unwind table
\* describes an image that is still there.
RedirectsLand ==
  \A h \in {target[e] : e \in Entries} \cup unwind : h # 0 =>
    Holds(h) /\ \A p \in Span(handles[h].begin, handles[h].span) : prot[p] \in Executable

\* The memory of a committed generation is never given out again, and its
\* globals stay writable, whatever happens to the slots around them and to
\* the arena itself.
LiveMemoryIsKept ==
  \A h \in Handles : handles[h].phase \in {"session", "process"} =>
    /\ Holds(h)
    /\ handles[h].kind = "state" =>
         \A p \in Span(handles[h].begin, handles[h].span) : prot[p] = "rw"

\* The pages a slot may not touch.
Guards(s) == IF platform = "elf" THEN Whole(s) \ Span(s.begin, s.usable) ELSE {}

\* Slots lie inside their pools and apart from each other; a slot on Linux is
\* followed by a page without access (elf/runtime/code_pages.hpp:9); no page
\* of the program is ever taken or unmapped.
SlotsAreApart ==
  /\ \A a, b \in Slots : a # b => Whole(SlotAt(a)) \cap Whole(SlotAt(b)) = {}
  /\ \A a \in Slots : /\ Whole(SlotAt(a)) \subseteq PoolPages(a[1])
                       /\ SlotAt(a).usable <= SlotAt(a).extent
                       /\ \A p \in Guards(SlotAt(a)) :
                            SlotAt(a).kept \/ prot[p] = "none"
  /\ \A p \in ProgramPages : content[p] = 0 /\ prot[p] \notin {"free", "none"}

\* Any write past the usable span faults (pe/runtime/code_pages.hpp:9-14): the
\* page behind the usable span of a slot is not accessible.
OverrunsFault ==
  \A s \in Slots : LET p == SlotAt(s).begin + SlotAt(s).usable
                   IN SlotAt(s).active /\ p \in Pages => prot[p] \in {"none", "free"}
=============================================================================
