-------------------------- MODULE CodePagesProofs --------------------------
(***************************************************************************)
(* Proofs about executable memory and entry redirection: slots are apart   *)
(* from each other and from the program, what was committed is never given *)
(* out again, and entries lead into code.                                  *)
(***************************************************************************)
EXTENDS CodePages, SequenceTheorems, WellFoundedInduction, TLAPS

\* What a slot and a pool are.
SlotRecord == [begin : Nat, usable : Nat, extent : Nat, active : BOOLEAN,
               kept : BOOLEAN, executable : BOOLEAN]
PoolRecord == [begin : Nat, end : Nat, cursor : Nat, slots : Seq(SlotRecord)]

Typed ==
  /\ platform \in Platforms
  /\ prot \in [Pages -> Protections] /\ content \in [Pages -> 0..MaxHandles]
  /\ pools \in Seq(PoolRecord)
  /\ handles \in [Handles -> Handle]
  /\ target \in [Entries -> 0..MaxHandles]
  /\ DOMAIN saved \subseteq Entries
  /\ unwind \subseteq Handles

-----------------------------------------------------------------------------
(* The arena. *)

\* A pool's slots fill it in order up to its cursor.
PoolInv(pool) ==
  /\ pool.begin <= pool.cursor /\ pool.cursor <= pool.end /\ pool.end <= LastPage + 1
  /\ \A i \in 1..Len(pool.slots) :
       LET s == pool.slots[i]
       IN /\ pool.begin <= s.begin /\ s.begin + s.extent <= pool.cursor
          /\ 0 < s.extent /\ s.usable <= s.extent
  /\ \A i, j \in 1..Len(pool.slots) :
       i < j => pool.slots[i].begin + pool.slots[i].extent <= pool.slots[j].begin

PoolsInOrder == \A k \in 1..Len(pools) : PoolInv(pools[k])

\* Pools are mapped, apart from each other and from the program.
PoolsAreApart ==
  /\ \A k, l \in 1..Len(pools) : k # l => PoolPages(k) \cap PoolPages(l) = {}
  /\ \A k \in 1..Len(pools) : \A p \in PoolPages(k) :
       p \in Pages /\ prot[p] # "free" /\ p \notin ProgramPages

\* The pages behind the last slot of a pool cannot be accessed.
TailsAreBare ==
  \A k \in 1..Len(pools) :
    \A p \in Span(pools[k].cursor, pools[k].end - pools[k].cursor) : prot[p] = "none"

\* Nor those a slot of Linux keeps behind what it gave out; a slot that was
\* given back gives nothing out.
SlotsAreGuarded ==
  \A k \in 1..Len(pools) : \A i \in 1..Len(pools[k].slots) :
    LET s == pools[k].slots[i]
    IN /\ ~s.active => s.usable = 0 /\ ~s.kept
       /\ \A p \in Guards(s) : s.kept \/ prot[p] = "none"

ProgramIsKept == \A p \in ProgramPages : content[p] = 0 /\ prot[p] \notin {"free", "none"}

ArenaInv == PoolsInOrder /\ PoolsAreApart /\ TailsAreBare /\ SlotsAreGuarded /\ ProgramIsKept

-----------------------------------------------------------------------------
(* The handles. *)

\* The handles a generation or the running session owns, and those an ended
\* session left to the process; `Linkable' ones may be code an entry leads to.
Held == {h \in Handles : handles[h].phase \in {"candidate", "committed", "session"}}
Ended == {h \in Handles : handles[h].phase = "process"}
Linkable == {h \in Handles : handles[h].phase \in {"committed", "session", "process"}}

Memory(h) == Span(handles[h].begin, handles[h].span)

\* Memory that was given out holds what was written to it: images that were
\* committed can be executed and globals can be written.
MemoryKept(h) ==
  /\ 0 < handles[h].span /\ Memory(h) \subseteq Pages /\ Holds(h)
  /\ handles[h].phase = "committed" => handles[h].kind = "code"
  /\ handles[h].kind = "state" => \A p \in Memory(h) : prot[p] = "rw"
  /\ handles[h].kind = "code" /\ h \in Linkable =>
       \A p \in Memory(h) : prot[p] \in Executable
  /\ \A p \in Memory(h) : prot[p] \notin {"free", "none"}

\* What the running session owns is in an active slot, what earlier sessions
\* left is in no pool.
InSlot(h) ==
  \E k \in 1..Len(pools) : \E i \in 1..Len(pools[k].slots) :
    /\ pools[k].slots[i].active
    /\ pools[k].slots[i].begin = handles[h].begin
    /\ pools[k].slots[i].usable = handles[h].span

OutsidePools(h) == \A k \in 1..Len(pools) : Memory(h) \cap PoolPages(k) = {}

HandlesInv ==
  /\ \A h \in Held : MemoryKept(h) /\ InSlot(h)
  /\ \A h \in Ended : MemoryKept(h) /\ OutsidePools(h)

-----------------------------------------------------------------------------
(* The entries. *)

IsCode(h) == h \in Linkable /\ handles[h].kind = "code"

\* Code that no transaction can drop any more.
Stays(h) == IsCode(h) /\ handles[h].phase # "committed"

\* An entry leads to code that stays, or was written by the running
\* transaction, which can still put it back.
EntriesLand ==
  \A e \in Entries : target[e] # 0 =>
    Stays(target[e]) \/ (e \in DOMAIN saved /\ IsCode(target[e]))

SavedLand ==
  \A e \in DOMAIN saved : saved[e] \in 0..MaxHandles /\ (saved[e] # 0 => Stays(saved[e]))

UnwindLands == \A h \in unwind : IsCode(h)

EntriesInv == EntriesLand /\ SavedLand /\ UnwindLands

IInv == Typed /\ ArenaInv /\ HandlesInv /\ EntriesInv

-----------------------------------------------------------------------------
(* Geometry. *)

\* The pages of a span.
LEMMA InSpan ==
  ASSUME NEW b \in Nat, NEW n \in Nat
  PROVE  \A p : p \in Span(b, n) <=> p \in Nat /\ b <= p /\ p < b + n
BY DEF Span

LEMMA SpanInside ==
  ASSUME NEW a \in Nat, NEW m \in Nat, NEW b \in Nat, NEW n \in Nat,
         a <= b, b + n <= a + m
  PROVE  Span(b, n) \subseteq Span(a, m)
BY DEF Span

LEMMA SpansApart ==
  ASSUME NEW a \in Nat, NEW m \in Nat, NEW b \in Nat, NEW n \in Nat,
         a + m <= b \/ b + n <= a
  PROVE  Span(a, m) \cap Span(b, n) = {}
BY DEF Span

LEMMA SpanCut ==
  ASSUME NEW b \in Nat, NEW e \in Nat, NEW x \in Nat, NEW n \in Nat, n <= x, b + x <= e
  PROVE  /\ Span(b, n) \subseteq Span(b, e - b) /\ Span(b, x) \subseteq Span(b, e - b)
         /\ Span(b, n) \subseteq Span(b, x)
         /\ \A p \in Span(b + x, e - (b + x)) : p \in Span(b, e - b) /\ p \notin Span(b, n)
BY DEF Span

\* A pool and its slots have their fields.
LEMMA PoolTypes ==
  ASSUME Typed, NEW k \in 1..Len(pools)
  PROVE  /\ Len(pools) \in Nat /\ k \in Nat /\ pools[k] \in PoolRecord
         /\ pools[k].begin \in Nat /\ pools[k].end \in Nat /\ pools[k].cursor \in Nat
         /\ pools[k].slots \in Seq(SlotRecord) /\ Len(pools[k].slots) \in Nat
         /\ \A i \in 1..Len(pools[k].slots) :
              /\ i \in Nat /\ pools[k].slots[i] \in SlotRecord
              /\ pools[k].slots[i].begin \in Nat /\ pools[k].slots[i].usable \in Nat
              /\ pools[k].slots[i].extent \in Nat /\ pools[k].slots[i].active \in BOOLEAN
              /\ pools[k].slots[i].kept \in BOOLEAN
<1>1. pools \in Seq(PoolRecord)
  BY DEF Typed
<1>2. Len(pools) \in Nat /\ k \in Nat /\ pools[k] \in PoolRecord
  BY <1>1
<1>3. /\ pools[k].begin \in Nat /\ pools[k].end \in Nat /\ pools[k].cursor \in Nat
      /\ pools[k].slots \in Seq(SlotRecord)
  BY <1>2 DEF PoolRecord
<1>4. Len(pools[k].slots) \in Nat
  BY <1>3
<1>5. ASSUME NEW i \in 1..Len(pools[k].slots)
      PROVE  i \in Nat /\ pools[k].slots[i] \in SlotRecord
  BY <1>3, <1>4
<1>6. \A s \in SlotRecord : /\ s.begin \in Nat /\ s.usable \in Nat /\ s.extent \in Nat
                            /\ s.active \in BOOLEAN /\ s.kept \in BOOLEAN
  BY DEF SlotRecord
<1>7. QED
  BY <1>2, <1>3, <1>4, <1>5, <1>6

\* A slot on either system takes at least what it gives out.
LEMMA ExtentBounds ==
  ASSUME NEW span \in Nat
  PROVE  Extent(span) \in Nat /\ span <= Extent(span) /\ Extent(span) <= span + 1
BY DEF Extent

LEMMA UnitIsPositive == Unit \in Nat \ {0}
BY SizesArePositive DEF Unit

\* The places of the model are those of the pools' sequences.
LEMMA SlotPlaces ==
  ASSUME Typed
  PROVE  /\ \A k \in 1..Len(pools) : \A i \in 1..Len(pools[k].slots) :
              <<k, i>> \in Slots /\ SlotAt(<<k, i>>) = pools[k].slots[i]
         /\ \A place \in Slots : \E k \in 1..Len(pools) : \E i \in 1..Len(pools[k].slots) :
              place = <<k, i>> /\ SlotAt(place) = pools[k].slots[i]
<1>1. ASSUME NEW k \in 1..Len(pools), NEW i \in 1..Len(pools[k].slots)
      PROVE  <<k, i>> \in Slots /\ SlotAt(<<k, i>>) = pools[k].slots[i]
  <2>1. Len(pools[k].slots) \in Nat /\ i \in 1..(Len(pools[k].slots) + 1) /\ i <= Len(pools[k].slots)
    BY PoolTypes
  <2>2. <<k, i>> \in {k} \X (1..(Len(pools[k].slots) + 1))
    BY <2>1
  <2>3. <<k, i>> \in Places
    BY <2>2 DEF Places
  <2>4. QED
    BY <2>1, <2>3 DEF Slots, IsSlot, SlotAt
<1>2. ASSUME NEW place \in Slots
      PROVE  \E k \in 1..Len(pools) : \E i \in 1..Len(pools[k].slots) :
               place = <<k, i>> /\ SlotAt(place) = pools[k].slots[i]
  <2>1. place \in Places /\ place[2] <= Len(pools[place[1]].slots)
    BY DEF Slots, IsSlot
  <2>2. PICK k \in 1..Len(pools) : place \in {k} \X (1..(Len(pools[k].slots) + 1))
    BY <2>1 DEF Places
  <2>3. place = <<k, place[2]>> /\ place[1] = k /\ place[2] \in 1..(Len(pools[k].slots) + 1)
    BY <2>2
  <2>4. place[2] \in 1..Len(pools[k].slots)
    BY <2>1, <2>3, PoolTypes
  <2>5. QED
    BY <2>3, <2>4 DEF SlotAt
<1>3. QED
  BY <1>1, <1>2

\* Slots lie in the used part of their pools.
LEMMA SlotsInPools ==
  ASSUME Typed, PoolsInOrder,
         NEW k \in 1..Len(pools), NEW i \in 1..Len(pools[k].slots)
  PROVE  /\ Whole(pools[k].slots[i]) \subseteq PoolPages(k)
         /\ \A p \in Whole(pools[k].slots[i]) : p < pools[k].cursor
         /\ Span(pools[k].slots[i].begin, pools[k].slots[i].usable) \subseteq Whole(pools[k].slots[i])
         /\ pools[k].slots[i].begin \in Whole(pools[k].slots[i])
<1> DEFINE pb == pools[k].begin
           pe == pools[k].end
           pc == pools[k].cursor
           sb == pools[k].slots[i].begin
           su == pools[k].slots[i].usable
           se == pools[k].slots[i].extent
<1>1. pb <= sb /\ sb + se <= pc /\ 0 < se /\ su <= se /\ pc <= pe
  BY DEF PoolsInOrder, PoolInv
<1>2. pb \in Nat /\ pe \in Nat /\ pc \in Nat /\ sb \in Nat /\ su \in Nat /\ se \in Nat
  BY PoolTypes
<1>3. /\ Whole(pools[k].slots[i]) = Span(sb, se)
      /\ PoolPages(k) = Span(pb, pe - pb)
      /\ pools[k].slots[i].begin = sb /\ pools[k].slots[i].usable = su /\ pools[k].cursor = pc
  BY DEF Whole, PoolPages
<1> HIDE DEF pb, pe, pc, sb, su, se
<1>4. /\ Span(sb, se) \subseteq Span(pb, pe - pb)
      /\ \A p \in Span(sb, se) : p < pc
      /\ Span(sb, su) \subseteq Span(sb, se)
      /\ sb \in Span(sb, se)
  BY <1>1, <1>2 DEF Span
<1>5. QED
  BY <1>3, <1>4

\* So does the unused end of a pool.
LEMMA TailInPool ==
  ASSUME Typed, PoolsInOrder, NEW k \in 1..Len(pools)
  PROVE  Span(pools[k].cursor, pools[k].end - pools[k].cursor) \subseteq PoolPages(k)
<1> DEFINE pb == pools[k].begin
           pe == pools[k].end
           pc == pools[k].cursor
<1>1. pb <= pc /\ pc <= pe
  BY DEF PoolsInOrder, PoolInv
<1>2. pb \in Nat /\ pe \in Nat /\ pc \in Nat
  BY PoolTypes
<1>3. PoolPages(k) = Span(pb, pe - pb) /\ Span(pools[k].cursor, pools[k].end - pools[k].cursor) = Span(pc, pe - pc)
  BY DEF PoolPages
<1> HIDE DEF pb, pe, pc
<1>4. Span(pc, pe - pc) \subseteq Span(pb, pe - pb)
  BY <1>1, <1>2 DEF Span
<1>5. QED
  BY <1>3, <1>4

\* Two slots share no page.
LEMMA SlotsAreDisjoint ==
  ASSUME Typed, PoolsInOrder, PoolsAreApart,
         NEW k \in 1..Len(pools), NEW i \in 1..Len(pools[k].slots),
         NEW l \in 1..Len(pools), NEW j \in 1..Len(pools[l].slots),
         k # l \/ i # j
  PROVE  Whole(pools[k].slots[i]) \cap Whole(pools[l].slots[j]) = {}
<1>1. CASE k # l
  <2>1. PoolPages(k) \cap PoolPages(l) = {}
    BY <1>1 DEF PoolsAreApart
  <2>2. QED
    BY <2>1, SlotsInPools
<1>2. CASE k = l
  <2>1. PoolInv(pools[k])
    BY DEF PoolsInOrder
  <2>2. \/ pools[k].slots[i].begin + pools[k].slots[i].extent <= pools[k].slots[j].begin
        \/ pools[k].slots[j].begin + pools[k].slots[j].extent <= pools[k].slots[i].begin
    <3>1. i \in Nat /\ j \in Nat
      BY PoolTypes
    <3>2. i < j \/ j < i
      BY <1>2, <3>1
    <3>3. QED
      BY <2>1, <1>2, <3>2 DEF PoolInv
  <2> DEFINE ib == pools[k].slots[i].begin
             ie == pools[k].slots[i].extent
             jb == pools[k].slots[j].begin
             je == pools[k].slots[j].extent
  <2>3. ib \in Nat /\ ie \in Nat /\ jb \in Nat /\ je \in Nat
    BY <1>2, PoolTypes
  <2>4. /\ Whole(pools[k].slots[i]) = Span(ib, ie)
        /\ Whole(pools[l].slots[j]) = Span(jb, je)
    BY <1>2 DEF Whole
  <2> HIDE DEF ib, ie, jb, je
  <2>5. Span(ib, ie) \cap Span(jb, je) = {}
    <3>1. ib + ie <= jb \/ jb + je <= ib
      BY <2>2 DEF ib, ie, jb, je
    <3>2. QED
      BY <3>1, <2>3, SpansApart
  <2>6. QED
    BY <2>4, <2>5
<1>3. QED
  BY <1>1, <1>2

-----------------------------------------------------------------------------
(* Frames. *)

\* Live memory is no page of the program.
LEMMA MemoryIsNoProgram ==
  ASSUME Typed, ProgramIsKept, NEW h \in Handles, MemoryKept(h)
  PROVE  \A p \in Memory(h) : p \in Pages /\ p \notin ProgramPages
BY DEF ProgramIsKept, MemoryKept, Memory, Holds, Handles

\* What a step leaves alone stays kept.
LEMMA MemoryFrame ==
  ASSUME NEW h \in Handles, MemoryKept(h),
         handles'[h].begin = handles[h].begin, handles'[h].span = handles[h].span,
         handles'[h].kind = handles[h].kind,
         handles'[h].phase = "committed" => handles[h].phase = "committed",
         h \in Linkable' /\ handles[h].kind = "code" => h \in Linkable,
         \A p \in Memory(h) : prot'[p] = prot[p] /\ content'[p] = content[p]
  PROVE  MemoryKept(h)' /\ Memory(h)' = Memory(h)
<1>1. Memory(h)' = Memory(h)
  BY DEF Memory
<1>2. Holds(h)'
  BY DEF Memory, Holds, MemoryKept
<1>3. Memory(h) \subseteq Pages /\ 0 < handles'[h].span
  BY DEF MemoryKept
<1>4. handles'[h].phase = "committed" => handles'[h].kind = "code"
  BY DEF MemoryKept
<1>5. handles'[h].kind = "state" => \A p \in Memory(h) : prot'[p] = "rw"
  BY DEF MemoryKept
<1>6. handles'[h].kind = "code" /\ h \in Linkable' => \A p \in Memory(h) : prot'[p] \in Executable
  BY DEF MemoryKept
<1>7. \A p \in Memory(h) : prot'[p] \notin {"free", "none"}
  BY DEF MemoryKept
<1>8. Pages' = Pages /\ Executable' = Executable
  BY DEF Pages, Executable
<1>9. QED
  BY <1>1, <1>2, <1>3, <1>4, <1>5, <1>6, <1>7, <1>8 DEF MemoryKept

\* Protections that differ from the present ones in the program's pages alone.
ProgramWritten(b) ==
  /\ b \in [Pages -> Protections]
  /\ \A p \in Pages \ ProgramPages : b[p] = prot[p]
  /\ \A p \in ProgramPages : b[p] \notin {"free", "none"}

\* Writing an entry changes the protection of the program's pages alone.
LEMMA EntryPagesAreProgram ==
  ASSUME Typed, NEW e \in Entries
  PROVE  \A p \in WrittenPages(e) : p \in Nat /\ (p \in Pages => p \in ProgramPages)
<1>1. EntryPage[e] \in TextPages /\ EntryPage[e] \in Nat
  <2>1. EntryPage[e] \in TextPages
    BY EntriesAreInText
  <2>2. TextPages \subseteq 0..LastPage /\ LastPage \in Nat
    BY SizesArePositive, BoundsAreNaturals
  <2>3. \A p \in 0..LastPage : p \in Nat
    BY <2>2
  <2>4. EntryPage[e] \in 0..LastPage
    BY <2>1, <2>2, Zenon
  <2>5. QED
    BY <2>1, <2>3, <2>4, Zenon
<1>2. \A p \in WrittenPages(e) : p \in Nat /\ (p = EntryPage[e] \/ p = EntryPage[e] + 1)
  BY <1>1 DEF WrittenPages, Span
<1>3. QED
  BY <1>1, <1>2 DEF ProgramPages

LEMMA ProgramWrites ==
  ASSUME Typed, ProgramIsKept, NEW region, \A p \in region : p \in Pages => p \in ProgramPages
  PROVE  /\ ProgramWritten(prot)
         /\ ProgramWritten(WithPages(region, "rwx"))
         /\ \A b : ProgramWritten(b) => ProgramWritten(Restored(b, region))
<1>1. ProgramPages \subseteq Pages /\ "rx" \in Protections /\ "rwx" \in Protections
  BY DEF ProgramPages, Protections
<1>2. ProgramWritten(prot)
  BY DEF ProgramWritten, Typed, ProgramIsKept
<1>3. ProgramWritten(WithPages(region, "rwx"))
  <2>1. /\ WithPages(region, "rwx") \in [Pages -> Protections]
        /\ \A p \in Pages : WithPages(region, "rwx")[p] = IF p \in region THEN "rwx" ELSE prot[p]
    BY <1>1, <1>2 DEF WithPages, ProgramWritten
  <2>2. QED
    BY <1>1, <1>2, <2>1 DEF ProgramWritten
<1>4. ASSUME NEW b, ProgramWritten(b)
      PROVE  ProgramWritten(Restored(b, region))
  <2>1. /\ Restored(b, region) \in [Pages -> Protections]
        /\ \A p \in Pages : Restored(b, region)[p] = IF p \in region /\ platform = "elf" THEN "rx" ELSE b[p]
    BY <1>1, <1>4 DEF Restored, ProgramWritten
  <2>2. QED
    BY <1>1, <1>4, <2>1 DEF ProgramWritten
<1>5. QED
  BY <1>2, <1>3, <1>4

\* A step that changes protections of the program's pages alone.
LEMMA ProgramWrite ==
  ASSUME Typed, ArenaInv, UNCHANGED <<platform, pools, content>>, ProgramWritten(prot')
  PROVE  ArenaInv'
<1>1. PoolsInOrder'
  BY DEF ArenaInv, PoolsInOrder, PoolInv
<1>2. \A k \in 1..Len(pools) : \A p \in PoolPages(k) :
        p \in Pages /\ p \notin ProgramPages /\ prot'[p] = prot[p]
  BY DEF ArenaInv, PoolsAreApart, ProgramWritten
<1>3. PoolsAreApart'
  BY <1>2 DEF ArenaInv, PoolsAreApart, PoolPages
<1>4. TailsAreBare'
  <2> SUFFICES ASSUME NEW k \in 1..Len(pools),
                      NEW p \in Span(pools[k].cursor, pools[k].end - pools[k].cursor)
               PROVE  prot'[p] = "none"
    BY DEF TailsAreBare
  <2>1. p \in PoolPages(k)
    BY TailInPool DEF ArenaInv
  <2>2. QED
    BY <1>2, <2>1 DEF ArenaInv, TailsAreBare
<1>5. SlotsAreGuarded'
  <2> SUFFICES ASSUME NEW k \in 1..Len(pools), NEW i \in 1..Len(pools[k].slots)
               PROVE  /\ ~pools[k].slots[i].active =>
                           pools[k].slots[i].usable = 0 /\ ~pools[k].slots[i].kept
                      /\ \A p \in Guards(pools[k].slots[i])' :
                           pools[k].slots[i].kept \/ prot'[p] = "none"
    BY DEF SlotsAreGuarded
  <2>1. Guards(pools[k].slots[i])' = Guards(pools[k].slots[i])
    BY DEF Guards, Whole
  <2>2. Guards(pools[k].slots[i]) \subseteq PoolPages(k)
    BY SlotsInPools DEF ArenaInv, Guards
  <2>3. QED
    BY <1>2, <2>1, <2>2 DEF ArenaInv, SlotsAreGuarded
<1>6. ProgramIsKept'
  BY DEF ArenaInv, ProgramIsKept, ProgramPages, ProgramWritten
<1>7. QED
  BY <1>1, <1>3, <1>4, <1>5, <1>6 DEF ArenaInv

\* Handles whose memory and slot a step leaves alone.
LEMMA HandlesFrame ==
  ASSUME HandlesInv, NEW h \in Handles,
         UNCHANGED <<pools>>,
         handles'[h].begin = handles[h].begin, handles'[h].span = handles[h].span
  PROVE  /\ InSlot(h) => InSlot(h)'
         /\ OutsidePools(h) => OutsidePools(h)'
BY DEF InSlot, OutsidePools, Memory, PoolPages

-----------------------------------------------------------------------------
(* Entries and images. *)

LEMMA PatchEntryStep ==
  ASSUME IInv, NEW e \in Entries, NEW h \in Handles, PatchEntry(e, h)
  PROVE  IInv'
<1> USE DEF IInv
<1>1. /\ UNCHANGED <<platform, content, pools, handles, unwind>>
      /\ handles[h].phase = "committed" /\ h \in Held
      /\ target' = [target EXCEPT ![e] = h]
      /\ saved' = [d \in DOMAIN saved \cup {e} |-> IF d = e THEN target[e] ELSE saved[d]] /\ e \notin DOMAIN saved
  BY DEF PatchEntry, Held
<1>2. ProgramWritten(prot')
  <2>1. \A p \in WrittenPages(e) : p \in Pages => p \in ProgramPages
    BY EntryPagesAreProgram
  <2>2. prot' = Restored(prot, WrittenPages(e)) \/ prot' = WithPages(WrittenPages(e), "rwx")
    BY DEF PatchEntry
  <2>3. QED
    BY <2>1, <2>2, ProgramWrites DEF ArenaInv
<1>3. /\ DOMAIN saved' = DOMAIN saved \cup {e}
      /\ saved'[e] = target[e] /\ \A d \in DOMAIN saved : saved'[d] = saved[d]
  BY <1>1
<1>4. Typed'
  <2>1. target' \in [Entries -> 0..MaxHandles]
    BY <1>1 DEF Typed, Handles
  <2>2. QED
    BY <1>1, <1>2, <1>3, <2>1 DEF Typed, ProgramWritten, Platforms, Pages, Protections, Handles, Handle,
       PoolRecord, SlotRecord
<1>5. ArenaInv'
  BY <1>1, <1>2, ProgramWrite
<1>6. HandlesInv'
  <2>1. ASSUME NEW g \in Handles, MemoryKept(g)
        PROVE  MemoryKept(g)'
    <3>1. \A p \in Memory(g) : prot'[p] = prot[p]
      BY <1>2, <2>1, MemoryIsNoProgram DEF ArenaInv, ProgramWritten
    <3>2. QED
      BY <1>1, <2>1, <3>1, MemoryFrame DEF Linkable
  <2>2. Held' = Held /\ Ended' = Ended /\ Held \subseteq Handles /\ Ended \subseteq Handles
    BY <1>1 DEF Held, Ended
  <2>3. QED
    BY <1>1, <2>1, <2>2, HandlesFrame DEF HandlesInv
<1>7. EntriesInv'
  <2>1. \A g : IsCode(g)' <=> IsCode(g)
    BY <1>1 DEF IsCode, Linkable
  <2>2. \A g : Stays(g)' <=> Stays(g)
    BY <1>1, <2>1 DEF Stays
  <2>3. IsCode(h)
    BY <1>1 DEF IsCode, Linkable, HandlesInv, MemoryKept
  <2>4. target[e] \in 0..MaxHandles /\ (target[e] # 0 => Stays(target[e]))
    BY <1>1 DEF EntriesInv, EntriesLand, Typed
  <2>5. EntriesLand'
    <3>1. ASSUME NEW d \in Entries, target'[d] # 0
          PROVE  Stays(target[d])' \/ (d \in DOMAIN saved' /\ IsCode(target[d])')
      <4>1. CASE d = e
        BY <4>1, <1>1, <1>3, <2>1, <2>3 DEF Typed
      <4>2. CASE d # e
        <5>1. target'[d] = target[d]
          BY <4>2, <1>1 DEF Typed
        <5>2. QED
          BY <5>1, <3>1, <1>3, <2>1, <2>2 DEF EntriesInv, EntriesLand
      <4>3. QED
        BY <4>1, <4>2
    <3>2. QED
      BY <3>1 DEF EntriesLand
  <2>6. SavedLand'
    BY <1>3, <2>2, <2>4 DEF EntriesInv, SavedLand
  <2>7. UnwindLands'
    BY <1>1, <2>1 DEF EntriesInv, UnwindLands
  <2>8. QED
    BY <2>5, <2>6, <2>7 DEF EntriesInv
<1>8. QED
  BY <1>4, <1>5, <1>6, <1>7

-----------------------------------------------------------------------------
(* Pools whose slots change what they give out. *)

SameArena ==
  /\ pools' \in Seq(PoolRecord) /\ Len(pools') = Len(pools)
  /\ \A k \in 1..Len(pools) :
       /\ pools'[k].begin = pools[k].begin /\ pools'[k].end = pools[k].end
       /\ pools'[k].cursor = pools[k].cursor
       /\ Len(pools'[k].slots) = Len(pools[k].slots)
       /\ \A i \in 1..Len(pools[k].slots) :
            /\ pools'[k].slots[i].begin = pools[k].slots[i].begin
            /\ pools'[k].slots[i].extent = pools[k].slots[i].extent
            /\ pools'[k].slots[i].usable <= pools[k].slots[i].extent

LEMMA SameArenaInOrder ==
  ASSUME Typed, PoolsInOrder, SameArena
  PROVE  /\ PoolsInOrder'
         /\ \A k \in 1..Len(pools) : PoolPages(k)' = PoolPages(k)
         /\ \A k \in 1..Len(pools) : \A i \in 1..Len(pools[k].slots) :
              Whole(pools[k].slots[i])' = Whole(pools[k].slots[i])
<1>1. ASSUME NEW k \in 1..Len(pools)
      PROVE  PoolInv(pools[k])'
  <2>1. PoolInv(pools[k])
    BY DEF PoolsInOrder
  <2>2. /\ pools'[k].begin = pools[k].begin /\ pools'[k].end = pools[k].end
        /\ pools'[k].cursor = pools[k].cursor
        /\ Len(pools'[k].slots) = Len(pools[k].slots)
    BY DEF SameArena
  <2>3. \A i \in 1..Len(pools[k].slots) :
          /\ pools'[k].slots[i].begin = pools[k].slots[i].begin
          /\ pools'[k].slots[i].extent = pools[k].slots[i].extent
          /\ pools'[k].slots[i].usable <= pools[k].slots[i].extent
    BY DEF SameArena
  <2>4. QED
    BY <2>1, <2>2, <2>3 DEF PoolInv
<1>2. PoolsInOrder'
  BY <1>1 DEF PoolsInOrder, SameArena
<1>3. QED
  BY <1>2 DEF SameArena, PoolPages, Whole

\* One slot is rewritten where it is.
LEMMA SlotUpdate ==
  ASSUME Typed, NEW k \in 1..Len(pools), NEW i \in 1..Len(pools[k].slots),
         NEW t \in SlotRecord,
         t.begin = pools[k].slots[i].begin, t.extent = pools[k].slots[i].extent,
         t.usable <= t.extent, PoolsInOrder,
         pools' = [pools EXCEPT ![k] =
                     [pools[k] EXCEPT !.slots = [pools[k].slots EXCEPT ![i] = t]]]
  PROVE  /\ SameArena /\ pools'[k].slots[i] = t
         /\ \A l \in 1..Len(pools) : \A j \in 1..Len(pools[l].slots) :
              l # k \/ j # i => pools'[l].slots[j] = pools[l].slots[j]
<1> DEFINE new == [pools[k] EXCEPT !.slots = [pools[k].slots EXCEPT ![i] = t]]
<1>1. pools \in Seq(PoolRecord) /\ pools[k] \in PoolRecord /\ pools[k].slots \in Seq(SlotRecord)
  BY PoolTypes DEF Typed
<1>2. /\ [pools[k].slots EXCEPT ![i] = t] \in Seq(SlotRecord)
      /\ Len([pools[k].slots EXCEPT ![i] = t]) = Len(pools[k].slots)
  BY <1>1
<1>3. /\ new \in PoolRecord
      /\ new.begin = pools[k].begin /\ new.end = pools[k].end /\ new.cursor = pools[k].cursor
      /\ new.slots = [pools[k].slots EXCEPT ![i] = t]
  BY <1>1, <1>2 DEF PoolRecord
<1>4. pools' = [pools EXCEPT ![k] = new]
  OBVIOUS
<1> HIDE DEF new
<1>5. /\ pools' \in Seq(PoolRecord) /\ Len(pools') = Len(pools)
      /\ pools'[k] = new /\ \A l \in 1..Len(pools) : l # k => pools'[l] = pools[l]
  <2>1. [pools EXCEPT ![k] = new] \in Seq(PoolRecord) /\ Len([pools EXCEPT ![k] = new]) = Len(pools)
    BY <1>1, <1>3, ExceptSeq
  <2>2. \A l \in 1..Len(pools) : [pools EXCEPT ![k] = new][l] = IF l = k THEN new ELSE pools[l]
    BY <1>1
  <2>3. QED
    BY <1>4, <2>1, <2>2
<1>6. /\ Len(new.slots) = Len(pools[k].slots) /\ new.slots[i] = t
      /\ \A j \in 1..Len(pools[k].slots) : j # i => new.slots[j] = pools[k].slots[j]
  BY <1>1, <1>2, <1>3
<1>7. \A l \in 1..Len(pools) : \A j \in 1..Len(pools[l].slots) :
        pools[l].slots[j].usable <= pools[l].slots[j].extent
  BY DEF PoolsInOrder, PoolInv
<1>8. SameArena
  <2> SUFFICES ASSUME NEW l \in 1..Len(pools)
               PROVE  /\ pools'[l].begin = pools[l].begin /\ pools'[l].end = pools[l].end
                      /\ pools'[l].cursor = pools[l].cursor
                      /\ Len(pools'[l].slots) = Len(pools[l].slots)
                      /\ \A j \in 1..Len(pools[l].slots) :
                           /\ pools'[l].slots[j].begin = pools[l].slots[j].begin
                           /\ pools'[l].slots[j].extent = pools[l].slots[j].extent
                           /\ pools'[l].slots[j].usable <= pools[l].slots[j].extent
    BY <1>5 DEF SameArena
  <2>1. CASE l # k
    BY <2>1, <1>5, <1>7
  <2>2. CASE l = k
    <3>1. /\ pools'[k].begin = pools[k].begin /\ pools'[k].end = pools[k].end
          /\ pools'[k].cursor = pools[k].cursor
          /\ Len(pools'[k].slots) = Len(pools[k].slots)
      BY <1>3, <1>5, <1>6
    <3>2. ASSUME NEW j \in 1..Len(pools[k].slots)
          PROVE  /\ pools'[k].slots[j].begin = pools[k].slots[j].begin
                 /\ pools'[k].slots[j].extent = pools[k].slots[j].extent
                 /\ pools'[k].slots[j].usable <= pools[k].slots[j].extent
      <4>1. pools'[k].slots[j] = (IF j = i THEN t ELSE pools[k].slots[j])
        BY <1>5, <1>6
      <4>2. QED
        BY <4>1, <1>7
    <3>3. QED
      BY <2>2, <3>1, <3>2
  <2>3. QED
    BY <2>1, <2>2
<1>9. QED
  BY <1>5, <1>6, <1>8

\* A step that touches what one slot gives out, and nothing else.
LEMMA SlotWrite ==
  ASSUME Typed, ArenaInv, SameArena, UNCHANGED platform,
         NEW k \in 1..Len(pools), NEW i \in 1..Len(pools[k].slots),
         \A l \in 1..Len(pools) : \A j \in 1..Len(pools[l].slots) :
           l # k \/ j # i => pools'[l].slots[j] = pools[l].slots[j],
         pools'[k].slots[i].active, pools'[k].slots[i].usable \in Nat,
         NEW region,
         region = Span(pools'[k].slots[i].begin, pools'[k].slots[i].usable),
         \A p \in Pages \ region : prot'[p] = prot[p] /\ content'[p] = content[p],
         \A p \in region : prot'[p] \notin {"free", "none"},
         \A p \in Guards(pools[k].slots[i])' : pools'[k].slots[i].kept \/ prot[p] = "none"
  PROVE  ArenaInv'
<1> USE DEF ArenaInv
<1>1. /\ PoolsInOrder'
      /\ \A l \in 1..Len(pools) : PoolPages(l)' = PoolPages(l)
      /\ \A l \in 1..Len(pools) : \A j \in 1..Len(pools[l].slots) :
           Whole(pools[l].slots[j])' = Whole(pools[l].slots[j])
      /\ Len(pools') = Len(pools)
      /\ \A l \in 1..Len(pools) : Len(pools'[l].slots) = Len(pools[l].slots)
  BY SameArenaInOrder DEF SameArena
<1>2. region \subseteq Whole(pools[k].slots[i])
  <2> DEFINE b == pools[k].slots[i].begin
             u == pools'[k].slots[i].usable
             x == pools[k].slots[i].extent
  <2>1. b \in Nat /\ u \in Nat /\ x \in Nat
    BY PoolTypes
  <2>2. u <= x /\ region = Span(b, u) /\ Whole(pools[k].slots[i]) = Span(b, x)
    BY DEF SameArena, Whole
  <2> HIDE DEF b, u, x
  <2>3. Span(b, u) \subseteq Span(b, x)
    BY <2>1, <2>2 DEF Span
  <2>4. QED
    BY <2>2, <2>3
<1>3. \A l \in 1..Len(pools) : \A p \in PoolPages(l) : p \in Pages /\ p \notin ProgramPages
  BY DEF PoolsAreApart
<1>4. region \subseteq PoolPages(k)
  BY <1>2, SlotsInPools
<1>5. PoolsAreApart'
  <2>1. \A l \in 1..Len(pools) : \A p \in PoolPages(l) : prot'[p] # "free"
    BY <1>3 DEF PoolsAreApart
  <2>2. ProgramPages' = ProgramPages /\ Pages' = Pages
    BY DEF ProgramPages, Pages
  <2>3. QED
    BY <1>1, <1>3, <2>1, <2>2 DEF PoolsAreApart
<1>6. TailsAreBare'
  <2> SUFFICES ASSUME NEW l \in 1..Len(pools),
                      NEW p \in Span(pools[l].cursor, pools[l].end - pools[l].cursor)
               PROVE  prot'[p] = "none"
    BY <1>1 DEF TailsAreBare, SameArena
  <2>1. p \in PoolPages(l) /\ prot[p] = "none"
    BY TailInPool DEF TailsAreBare
  <2>2. p \notin region
    <3>1. CASE l = k
      <4>1. p >= pools[k].cursor
        BY <3>1, PoolTypes DEF Span
      <4>2. \A q \in region : q < pools[k].cursor
        BY <1>2, SlotsInPools
      <4>3. pools[k].cursor \in Nat /\ (p \in Pages => p \in Nat)
        BY PoolTypes, BoundsAreNaturals DEF Pages
      <4>4. QED
        BY <4>1, <4>2, <4>3, <2>1, <1>3
    <3>2. CASE l # k
      BY <3>2, <1>4, <2>1 DEF PoolsAreApart
    <3>3. QED
      BY <3>1, <3>2
  <2>3. QED
    BY <2>1, <2>2, <1>3
<1>7. SlotsAreGuarded'
  <2> SUFFICES ASSUME NEW l \in 1..Len(pools), NEW j \in 1..Len(pools[l].slots)
               PROVE  /\ ~pools'[l].slots[j].active =>
                           pools'[l].slots[j].usable = 0 /\ ~pools'[l].slots[j].kept
                      /\ \A p \in Guards(pools[l].slots[j])' :
                           pools'[l].slots[j].kept \/ prot'[p] = "none"
    BY <1>1 DEF SlotsAreGuarded
  <2>1. CASE l = k /\ j = i
    <3>1. ASSUME NEW p \in Guards(pools[k].slots[i])'
          PROVE  p \notin region /\ p \in Pages
      <4>1. p \in Whole(pools[k].slots[i]) /\ p \notin region
        BY <1>1, <3>1 DEF Guards
      <4>2. QED
        BY <4>1, <1>3, SlotsInPools
    <3>2. QED
      BY <2>1, <3>1
  <2>2. CASE l # k \/ j # i
    <3>1. pools'[l].slots[j] = pools[l].slots[j]
      BY <2>2
    <3>2. Guards(pools[l].slots[j])' = Guards(pools[l].slots[j])
      BY <3>1 DEF Guards, Whole
    <3>3. Guards(pools[l].slots[j]) \subseteq Whole(pools[l].slots[j])
      BY DEF Guards
    <3>4. Whole(pools[l].slots[j]) \cap region = {}
      BY <2>2, <1>2, SlotsAreDisjoint
    <3>5. Whole(pools[l].slots[j]) \subseteq Pages
      BY <1>3, SlotsInPools
    <3>6. \A p \in Guards(pools[l].slots[j])' : p \in Pages \ region
      BY <3>2, <3>3, <3>4, <3>5
    <3>7. /\ ~pools[l].slots[j].active =>
               pools[l].slots[j].usable = 0 /\ ~pools[l].slots[j].kept
          /\ \A p \in Guards(pools[l].slots[j]) :
               pools[l].slots[j].kept \/ prot[p] = "none"
      BY DEF SlotsAreGuarded
    <3>8. \A p \in Guards(pools[l].slots[j])' : pools'[l].slots[j].kept \/ prot'[p] = "none"
      BY <3>1, <3>2, <3>6, <3>7
    <3>9. QED
      BY <3>1, <3>7, <3>8
  <2>3. QED
    BY <2>1, <2>2
<1>8. ProgramIsKept'
  <2>1. \A p \in ProgramPages : p \in Pages /\ p \notin region
    BY <1>3, <1>4 DEF ProgramPages
  <2>2. QED
    BY <2>1 DEF ProgramIsKept, ProgramPages, Pages
<1>9. QED
  BY <1>1, <1>5, <1>6, <1>7, <1>8

\* The slot of what is held is the active slot at its address.
LEMMA SlotOfHeld ==
  ASSUME Typed, PoolsInOrder, PoolsAreApart, NEW h \in Handles, InSlot(h),
         NEW k \in 1..Len(pools), NEW i \in 1..Len(pools[k].slots),
         pools[k].slots[i].begin = handles[h].begin
  PROVE  /\ pools[k].slots[i].active /\ pools[k].slots[i].usable = handles[h].span
         /\ Memory(h) = Span(pools[k].slots[i].begin, pools[k].slots[i].usable)
         /\ Memory(h) \subseteq Whole(pools[k].slots[i])
<1>1. PICK l \in 1..Len(pools) : \E j \in 1..Len(pools[l].slots) :
        /\ pools[l].slots[j].active
        /\ pools[l].slots[j].begin = handles[h].begin
        /\ pools[l].slots[j].usable = handles[h].span
  BY DEF InSlot
<1>2. PICK j \in 1..Len(pools[l].slots) :
        /\ pools[l].slots[j].active
        /\ pools[l].slots[j].begin = handles[h].begin
        /\ pools[l].slots[j].usable = handles[h].span
  BY <1>1
<1>3. /\ handles[h].begin \in Whole(pools[k].slots[i])
      /\ handles[h].begin \in Whole(pools[l].slots[j])
  BY <1>2, SlotsInPools
<1>4. k = l /\ i = j
  BY <1>3, SlotsAreDisjoint
<1>5. Memory(h) = Span(pools[k].slots[i].begin, pools[k].slots[i].usable)
  BY <1>2, <1>4 DEF Memory
<1>6. QED
  BY <1>2, <1>4, <1>5, SlotsInPools

\* A handle that is held has such a slot.
LEMMA HeldSlot ==
  ASSUME Typed, PoolsInOrder, PoolsAreApart, NEW h \in Handles, InSlot(h)
  PROVE  \E k \in 1..Len(pools) : \E i \in 1..Len(pools[k].slots) :
           /\ pools[k].slots[i].active /\ pools[k].slots[i].begin = handles[h].begin
           /\ pools[k].slots[i].usable = handles[h].span
           /\ Memory(h) = Span(pools[k].slots[i].begin, pools[k].slots[i].usable)
           /\ Memory(h) \subseteq Whole(pools[k].slots[i])
           /\ Memory(h) \subseteq PoolPages(k)
<1>1. PICK k \in 1..Len(pools) : \E i \in 1..Len(pools[k].slots) :
        pools[k].slots[i].active /\ pools[k].slots[i].begin = handles[h].begin
  BY DEF InSlot
<1>2. PICK i \in 1..Len(pools[k].slots) :
        pools[k].slots[i].active /\ pools[k].slots[i].begin = handles[h].begin
  BY <1>1
<1>3. QED
  BY <1>2, SlotOfHeld, SlotsInPools

\* What is held or was left by earlier sessions is apart.
LEMMA MemoryIsApart ==
  ASSUME NEW g \in Handles, NEW h \in Handles, MemoryKept(g), MemoryKept(h), g # h
  PROVE  Memory(g) \cap Memory(h) = {}
BY DEF MemoryKept, Holds, Memory

LEMMA HandleTypes ==
  ASSUME Typed, NEW h \in Handles
  PROVE  /\ handles[h] \in Handle /\ h \in Nat /\ h # 0 /\ h \in 0..MaxHandles
         /\ handles[h].begin \in Pages /\ handles[h].begin \in Nat /\ handles[h].span \in Nat
         /\ handles[h].kind \in {"code", "state"} /\ handles[h].phase \in Phases
<1>1. handles[h] \in Handle
  BY DEF Typed
<1>2. h \in Nat /\ h # 0 /\ h \in 0..MaxHandles
  BY BoundsAreNaturals DEF Handles
<1>3. \A p \in Pages : p \in Nat
  BY BoundsAreNaturals DEF Pages
<1>4. QED
  BY <1>1, <1>2, <1>3 DEF Handle

LEMMA RewriteReservationStep ==
  ASSUME IInv, NEW h \in Handles, NEW p \in Memory(h), RewriteReservation(h, p)
  PROVE  IInv'
<1> USE DEF IInv
<1>1. /\ UNCHANGED <<platform, content, pools, handles, target, saved, unwind>>
      /\ handles[h].phase = "committed" /\ h \in Held /\ h \in Linkable
      /\ prot' = [prot EXCEPT ![p] = "rwx"]
  BY DEF RewriteReservation, Held, Linkable
<1>2. MemoryKept(h) /\ InSlot(h)
  BY <1>1 DEF HandlesInv
<1>3. p \in Pages /\ prot' \in [Pages -> Protections] /\ prot'[p] = "rwx"
      /\ \A q \in Pages : q # p => prot'[q] = prot[q]
  BY <1>1, <1>2 DEF MemoryKept, Typed, Protections
<1>4. Typed'
  BY <1>1, <1>3 DEF Typed, Platforms, Pages, Protections, Handles, Handle, PoolRecord, SlotRecord
<1>5. SameArena
  <2>1. \A k \in 1..Len(pools) : \A i \in 1..Len(pools[k].slots) :
          pools[k].slots[i].usable <= pools[k].slots[i].extent
    BY DEF ArenaInv, PoolsInOrder, PoolInv
  <2>2. QED
    BY <1>1, <2>1 DEF SameArena, Typed
<1>6. ArenaInv'
  <2>1. PICK k \in 1..Len(pools) : \E i \in 1..Len(pools[k].slots) :
          /\ pools[k].slots[i].active
          /\ Memory(h) = Span(pools[k].slots[i].begin, pools[k].slots[i].usable)
    BY <1>2, HeldSlot DEF ArenaInv
  <2>2. PICK i \in 1..Len(pools[k].slots) :
          /\ pools[k].slots[i].active
          /\ Memory(h) = Span(pools[k].slots[i].begin, pools[k].slots[i].usable)
    BY <2>1
  <2>3. \A q \in Memory(h) : q \in Pages /\ prot'[q] \notin {"free", "none"}
    BY <1>2, <1>3 DEF MemoryKept
  <2>4. Guards(pools[k].slots[i])' = Guards(pools[k].slots[i])
    BY <1>1 DEF Guards, Whole
  <2>5. \A q \in Guards(pools[k].slots[i])' : pools'[k].slots[i].kept \/ prot[q] = "none"
    BY <1>1, <2>4 DEF ArenaInv, SlotsAreGuarded
  <2>6. pools[k].slots[i].usable \in Nat
    BY PoolTypes
  <2>7. \A q \in Pages \ Memory(h) : prot'[q] = prot[q] /\ content'[q] = content[q]
    BY <1>1, <1>3
  <2>8. QED
    BY <1>1, <1>5, <2>2, <2>3, <2>5, <2>6, <2>7, SlotWrite
<1>7. HandlesInv'
  <2>1. ASSUME NEW g \in Handles, MemoryKept(g)
        PROVE  MemoryKept(g)'
    <3>1. CASE g # h
      <4>1. \A q \in Memory(g) : prot'[q] = prot[q]
        BY <3>1, <1>2, <1>3, <2>1, MemoryIsApart DEF MemoryKept
      <4>2. QED
        BY <1>1, <2>1, <4>1, MemoryFrame DEF Linkable
    <3>2. CASE g = h
      <4>1. handles[h].kind = "code"
        BY <1>1, <1>2 DEF MemoryKept
      <4>2. \A q \in Memory(h) : prot'[q] \in Executable
        BY <1>1, <1>2, <1>3, <4>1 DEF MemoryKept, Executable
      <4>3. QED
        BY <1>1, <1>2, <3>2, <4>1, <4>2 DEF MemoryKept, Memory, Holds, Executable, Pages, Linkable
    <3>3. QED
      BY <3>1, <3>2
  <2>2. Held' = Held /\ Ended' = Ended /\ Held \subseteq Handles /\ Ended \subseteq Handles
    BY <1>1 DEF Held, Ended
  <2>3. QED
    BY <1>1, <2>1, <2>2, HandlesFrame DEF HandlesInv
<1>8. EntriesInv'
  BY <1>1 DEF EntriesInv, EntriesLand, SavedLand, UnwindLands, Stays, IsCode, Linkable
<1>9. QED
  BY <1>4, <1>6, <1>7, <1>8

LEMMA CommitCodeStep ==
  ASSUME IInv, NEW h \in Handles, CommitCode(h)
  PROVE  IInv'
<1> USE DEF IInv
<1>1. PICK place \in Found(handles[h].begin) :
        /\ prot' = WithPages(Span(SlotAt(place).begin, SlotAt(place).usable), "rx")
        /\ pools' = [pools EXCEPT ![place[1]].slots[place[2]].executable = TRUE]
  BY DEF CommitCode
<1>2. /\ UNCHANGED <<platform, content, target, saved>> /\ DOMAIN saved = {}
      /\ handles[h].phase = "candidate" /\ handles[h].kind = "code" /\ h \in Held
      /\ handles' = [handles EXCEPT ![h].phase = "committed"]
      /\ unwind' \subseteq unwind \cup {h}
  BY DEF CommitCode, Held, Preparing
<1>3. PICK k \in 1..Len(pools) : \E i \in 1..Len(pools[k].slots) :
        place = <<k, i>> /\ SlotAt(place) = pools[k].slots[i]
  BY SlotPlaces DEF Found
<1>4. PICK i \in 1..Len(pools[k].slots) : place = <<k, i>> /\ SlotAt(place) = pools[k].slots[i]
  BY <1>3
<1> DEFINE t == [pools[k].slots[i] EXCEPT !.executable = TRUE]
<1>5. /\ t \in SlotRecord /\ t.begin = pools[k].slots[i].begin
      /\ t.extent = pools[k].slots[i].extent /\ t.usable = pools[k].slots[i].usable
      /\ t.active = pools[k].slots[i].active /\ t.kept = pools[k].slots[i].kept
  <2>1. pools[k].slots[i] \in SlotRecord
    BY PoolTypes
  <2>2. QED
    BY <2>1 DEF SlotRecord
<1>6. pools' = [pools EXCEPT ![k] = [pools[k] EXCEPT !.slots = [pools[k].slots EXCEPT ![i] = t]]]
  BY <1>1, <1>4
<1> HIDE DEF t
<1>7. t.usable <= t.extent
  BY <1>5 DEF ArenaInv, PoolsInOrder, PoolInv
<1>8. /\ SameArena /\ pools'[k].slots[i] = t
      /\ \A l \in 1..Len(pools) : \A j \in 1..Len(pools[l].slots) :
           l # k \/ j # i => pools'[l].slots[j] = pools[l].slots[j]
  BY <1>5, <1>6, <1>7, SlotUpdate DEF ArenaInv
<1>9. MemoryKept(h) /\ InSlot(h)
  BY <1>2 DEF HandlesInv
<1>10. /\ pools[k].slots[i].active /\ pools[k].slots[i].begin = handles[h].begin
       /\ Memory(h) = Span(pools[k].slots[i].begin, pools[k].slots[i].usable)
  BY <1>4, <1>9, SlotOfHeld DEF Found, ArenaInv
<1>11. /\ prot' \in [Pages -> Protections]
       /\ \A p \in Pages : prot'[p] = IF p \in Memory(h) THEN "rx" ELSE prot[p]
  BY <1>1, <1>4, <1>10 DEF WithPages, Typed, Protections
<1>12. handles' \in [Handles -> Handle]
       /\ \A g \in Handles :
            /\ handles'[g].begin = handles[g].begin /\ handles'[g].span = handles[g].span
            /\ handles'[g].kind = handles[g].kind
            /\ handles'[g].phase = IF g = h THEN "committed" ELSE handles[g].phase
  <2>1. handles \in [Handles -> Handle]
    BY DEF Typed
  <2>2. [handles[h] EXCEPT !.phase = "committed"] \in Handle
    BY <2>1 DEF Handle, Phases
  <2>3. QED
    BY <1>2, <2>1, <2>2 DEF Handle
<1>13. Typed'
  BY <1>2, <1>8, <1>11, <1>12
     DEF Typed, SameArena, Platforms, Pages, Protections, Handles, Handle, PoolRecord, SlotRecord
<1>14. ArenaInv'
  <2>1. \A p \in Memory(h) : p \in Pages /\ prot'[p] \notin {"free", "none"}
    BY <1>9, <1>11 DEF MemoryKept
  <2>2. Guards(pools[k].slots[i])' = Guards(pools[k].slots[i])
    BY <1>2, <1>5, <1>8 DEF Guards, Whole
  <2>3. \A p \in Guards(pools[k].slots[i])' : pools'[k].slots[i].kept \/ prot[p] = "none"
    BY <1>5, <1>8, <2>2 DEF ArenaInv, SlotsAreGuarded
  <2>4. pools'[k].slots[i].usable \in Nat
    BY <1>5, <1>8, PoolTypes
  <2>5. \A p \in Pages \ Memory(h) : prot'[p] = prot[p] /\ content'[p] = content[p]
    BY <1>2, <1>11
  <2>6. Memory(h) = Span(pools'[k].slots[i].begin, pools'[k].slots[i].usable)
    BY <1>5, <1>8, <1>10
  <2>7. QED
    BY <1>2, <1>5, <1>8, <1>10, <2>1, <2>3, <2>4, <2>5, <2>6, SlotWrite
<1>15. HandlesInv'
  <2>1. ASSUME NEW g \in Handles, MemoryKept(g)
        PROVE  MemoryKept(g)'
    <3>1. CASE g # h
      <4>1. \A p \in Memory(g) : prot'[p] = prot[p]
        BY <3>1, <1>9, <1>11, <2>1, MemoryIsApart DEF MemoryKept
      <4>2. QED
        BY <1>2, <1>12, <2>1, <3>1, <4>1, MemoryFrame DEF Linkable
    <3>2. CASE g = h
      <4>1. \A p \in Memory(h) : prot'[p] = "rx"
        BY <1>9, <1>11 DEF MemoryKept
      <4>2. Memory(h)' = Memory(h)
        BY <1>12 DEF Memory
      <4>3. QED
        BY <1>2, <1>9, <1>12, <3>2, <4>1, <4>2 DEF MemoryKept, Memory, Holds, Executable, Pages, Linkable
    <3>3. QED
      BY <3>1, <3>2
  <2>2. Held' = Held /\ Ended' = Ended /\ Held \subseteq Handles /\ Ended \subseteq Handles
    BY <1>2, <1>12 DEF Held, Ended
  <2>3. ASSUME NEW g \in Held
        PROVE  InSlot(g)'
    <3>1. PICK l \in 1..Len(pools) : \E j \in 1..Len(pools[l].slots) :
            /\ pools[l].slots[j].active
            /\ pools[l].slots[j].begin = handles[g].begin
            /\ pools[l].slots[j].usable = handles[g].span
      BY DEF HandlesInv, InSlot
    <3>2. PICK j \in 1..Len(pools[l].slots) :
            /\ pools[l].slots[j].active
            /\ pools[l].slots[j].begin = handles[g].begin
            /\ pools[l].slots[j].usable = handles[g].span
      BY <3>1
    <3>3. /\ pools'[l].slots[j].active = pools[l].slots[j].active
          /\ pools'[l].slots[j].begin = pools[l].slots[j].begin
          /\ pools'[l].slots[j].usable = pools[l].slots[j].usable
      BY <1>5, <1>8
    <3>4. g \in Handles /\ l \in 1..Len(pools') /\ j \in 1..Len(pools'[l].slots)
      BY <1>8 DEF SameArena, Held
    <3>5. QED
      BY <1>12, <3>2, <3>3, <3>4 DEF InSlot
  <2>4. ASSUME NEW g \in Ended
        PROVE  OutsidePools(g)'
    BY <1>8, <1>12, SameArenaInOrder DEF HandlesInv, OutsidePools, Memory, Ended, ArenaInv, SameArena
  <2>5. QED
    BY <2>1, <2>2, <2>3, <2>4 DEF HandlesInv
<1>16. EntriesInv'
  <2>1. ASSUME NEW g, IsCode(g)
        PROVE  IsCode(g)' /\ (Stays(g) => Stays(g)')
    BY <1>2, <1>12, <2>1 DEF IsCode, Stays, Linkable
  <2>2. IsCode(h)'
    BY <1>2, <1>12 DEF IsCode, Linkable
  <2>3. QED
    BY <1>2, <2>1, <2>2 DEF EntriesInv, EntriesLand, SavedLand, UnwindLands, Stays
<1>17. QED
  BY <1>13, <1>14, <1>15, <1>16

\* A generation that is kept, whatever its entries lead to.
LEMMA KeepStep ==
  ASSUME IInv, Linked, handles' = KeptBySession, saved' = <<>>,
         UNCHANGED <<platform, pools, content, unwind>>, ProgramWritten(prot'),
         target' \in [Entries -> 0..MaxHandles],
         \A e \in Entries : target'[e] = target[e] \/ (e \in DOMAIN saved /\ target'[e] = saved[e])
  PROVE  IInv'
<1> USE DEF IInv
<1>1. DOMAIN saved' = {}
  OBVIOUS
<1>2. /\ handles' \in [Handles -> Handle]
      /\ \A h \in Handles :
           /\ handles'[h].begin = handles[h].begin /\ handles'[h].span = handles[h].span
           /\ handles'[h].kind = handles[h].kind
           /\ handles'[h].phase = IF h \in Owned THEN "session" ELSE handles[h].phase
  <2>1. handles \in [Handles -> Handle]
    BY DEF Typed
  <2>2. \A h \in Handles : [handles[h] EXCEPT !.phase = "session"] \in Handle
    BY <2>1 DEF Handle, Phases
  <2>3. QED
    BY <2>1, <2>2 DEF Handle, KeptBySession
<1>3. Typed'
  BY <1>1, <1>2 DEF Typed, ProgramWritten, Platforms, Pages, Protections, Handles, Handle,
     PoolRecord, SlotRecord
<1>4. ArenaInv'
  BY ProgramWrite
<1>5. HandlesInv'
  <2>1. ASSUME NEW h \in Handles, MemoryKept(h)
        PROVE  MemoryKept(h)'
    <3>1. \A p \in Memory(h) : prot'[p] = prot[p] /\ content'[p] = content[p]
      BY <2>1, MemoryIsNoProgram DEF ArenaInv, ProgramWritten
    <3>2. handles[h].kind = "code" /\ h \in Linkable' => h \in Linkable
      BY <1>2 DEF Linkable, Linked, Owned
    <3>3. handles'[h].phase = "committed" => handles[h].phase = "committed"
      BY <1>2
    <3>4. QED
      BY <1>2, <2>1, <3>1, <3>2, <3>3, MemoryFrame
  <2>2. Held' = Held /\ Ended' = Ended /\ Held \subseteq Handles /\ Ended \subseteq Handles
    BY <1>2 DEF Held, Ended, Owned
  <2>3. QED
    BY <1>2, <2>1, <2>2, HandlesFrame DEF HandlesInv
<1>6. EntriesInv'
  <2>1. ASSUME NEW g, IsCode(g)
        PROVE  Stays(g)'
    BY <1>2, <2>1 DEF IsCode, Stays, Linkable, Owned
  <2>2. QED
    BY <1>1, <2>1 DEF EntriesInv, EntriesLand, SavedLand, UnwindLands, Stays
<1>7. QED
  BY <1>3, <1>4, <1>5, <1>6

LEMMA PublishStep ==
  ASSUME IInv, Publish
  PROVE  IInv'
<1>1. /\ Linked /\ handles' = KeptBySession /\ saved' = <<>>
      /\ UNCHANGED <<platform, pools, content, unwind>>
      /\ prot' = prot /\ target' = target
  BY DEF Publish, memory
<1>2. ProgramWritten(prot')
  BY <1>1 DEF ProgramWritten, IInv, Typed, ArenaInv, ProgramIsKept
<1>3. QED
  BY <1>1, <1>2, KeepStep DEF IInv, Typed

-----------------------------------------------------------------------------
(* Giving memory back. *)

\* No slot of a candidate is that of a handle the session keeps.
LEMMA OwnedPlaces ==
  ASSUME IInv, NEW h \in Held, h \notin Owned,
         NEW k \in 1..Len(pools), NEW i \in 1..Len(pools[k].slots),
         pools[k].slots[i].begin = handles[h].begin
  PROVE  <<k, i>> \notin PlacesOf(Owned)
<1> USE DEF IInv
<1>1. SUFFICES ASSUME NEW g \in Owned, <<k, i>> \in Found(handles[g].begin)
               PROVE  FALSE
  BY DEF PlacesOf
<1>2. pools[k].slots[i].begin = handles[g].begin
  BY <1>1, SlotPlaces DEF Found
<1>3. g \in Held /\ g \in Handles /\ h \in Handles /\ g # h
  BY DEF Owned, Held
<1>4. MemoryKept(g) /\ MemoryKept(h)
  BY <1>3 DEF HandlesInv
<1>5. handles[h].begin \in Memory(h) /\ handles[h].begin \in Memory(g)
  <2>1. ASSUME NEW x \in Handles, MemoryKept(x)
        PROVE  handles[x].begin \in Memory(x)
    <3>1. handles[x].begin \in Nat /\ handles[x].span \in Nat /\ 0 < handles[x].span
      BY <2>1, HandleTypes DEF MemoryKept
    <3>2. QED
      BY <3>1 DEF Memory, Span
  <2>2. QED
    BY <1>2, <1>3, <1>4, <2>1
<1>6. QED
  BY <1>3, <1>4, <1>5, MemoryIsApart

\* The slots of candidates are slots in use.
LEMMA OwnedSlots ==
  ASSUME IInv, NEW place \in PlacesOf(Owned)
  PROVE  \E k \in 1..Len(pools) : \E i \in 1..Len(pools[k].slots) :
           /\ place = <<k, i>> /\ SlotAt(place) = pools[k].slots[i]
           /\ pools[k].slots[i].active
<1>1. place \in Slots /\ SlotAt(place).active
  BY DEF PlacesOf, Found
<1>2. QED
  BY <1>1, SlotPlaces DEF IInv

\* What reclaim() makes of the slots.
LEMMA ReclaimedSlots ==
  ASSUME IInv, NEW gone, NEW stuck, stuck \subseteq PlacesOf(Owned),
         pools' = AfterReclaim(gone, stuck)
  PROVE  /\ SameArena
         /\ \A k \in 1..Len(pools) : \A i \in 1..Len(pools[k].slots) :
              LET s == pools'[k].slots[i]
              IN /\ <<k, i>> \in stuck => s.active /\ s.kept
                 /\ <<k, i>> \in gone /\ <<k, i>> \notin stuck => ~s.active /\ ~s.kept /\ s.usable = 0
                 /\ <<k, i>> \notin gone \cup stuck => s = pools[k].slots[i]
<1> USE DEF IInv
<1> DEFINE After(k, i) ==
             IF <<k, i>> \in stuck THEN [pools[k].slots[i] EXCEPT !.kept = TRUE] ELSE
             IF <<k, i>> \in gone
             THEN [pools[k].slots[i] EXCEPT !.active = FALSE, !.kept = FALSE,
                                            !.executable = FALSE, !.usable = 0]
             ELSE pools[k].slots[i]
           Slots1(k) == [i \in 1..Len(pools[k].slots) |-> After(k, i)]
           Pool1(k) == [pools[k] EXCEPT !.slots = Slots1(k)]
<1>1. pools' = [k \in 1..Len(pools) |-> Pool1(k)]
  BY DEF AfterReclaim
<1>2. ASSUME NEW k \in 1..Len(pools), NEW i \in 1..Len(pools[k].slots)
      PROVE  /\ After(k, i) \in SlotRecord
             /\ After(k, i).begin = pools[k].slots[i].begin
             /\ After(k, i).extent = pools[k].slots[i].extent
             /\ After(k, i).usable = pools[k].slots[i].usable \/ After(k, i).usable = 0
             /\ <<k, i>> \in stuck => After(k, i).active = pools[k].slots[i].active /\ After(k, i).kept
             /\ <<k, i>> \in gone /\ <<k, i>> \notin stuck =>
                  ~After(k, i).active /\ ~After(k, i).kept /\ After(k, i).usable = 0
             /\ <<k, i>> \notin gone \cup stuck => After(k, i) = pools[k].slots[i]
  <2>1. pools[k].slots[i] \in SlotRecord
    BY PoolTypes
  <2>2. CASE <<k, i>> \in stuck
    BY <2>1, <2>2 DEF SlotRecord
  <2>3. CASE <<k, i>> \notin stuck /\ <<k, i>> \in gone
    BY <2>1, <2>3 DEF SlotRecord
  <2>4. CASE <<k, i>> \notin stuck /\ <<k, i>> \notin gone
    BY <2>1, <2>4 DEF SlotRecord
  <2>5. QED
    BY <2>2, <2>3, <2>4
<1> HIDE DEF After
<1>3. ASSUME NEW k \in 1..Len(pools)
      PROVE  /\ Slots1(k) \in Seq(SlotRecord) /\ Len(Slots1(k)) = Len(pools[k].slots)
             /\ \A i \in 1..Len(pools[k].slots) : Slots1(k)[i] = After(k, i)
  <2>1. Len(pools[k].slots) \in Nat
    BY PoolTypes
  <2>2. \A i \in 1..Len(pools[k].slots) : After(k, i) \in SlotRecord
    BY <1>2
  <2>3. QED
    BY <2>1, <2>2
<1> HIDE DEF Slots1
<1>4. ASSUME NEW k \in 1..Len(pools)
      PROVE  /\ Pool1(k) \in PoolRecord
             /\ Pool1(k).begin = pools[k].begin /\ Pool1(k).end = pools[k].end
             /\ Pool1(k).cursor = pools[k].cursor /\ Pool1(k).slots = Slots1(k)
  BY <1>3, PoolTypes DEF PoolRecord
<1> HIDE DEF Pool1
<1>5. /\ pools' \in Seq(PoolRecord) /\ Len(pools') = Len(pools)
      /\ \A k \in 1..Len(pools) : pools'[k] = Pool1(k)
  <2>1. Len(pools) \in Nat
    BY DEF Typed
  <2>2. \A k \in 1..Len(pools) : Pool1(k) \in PoolRecord
    BY <1>4
  <2>3. QED
    BY <1>1, <2>1, <2>2
<1>6. ASSUME NEW k \in 1..Len(pools), NEW i \in 1..Len(pools[k].slots)
      PROVE  pools'[k].slots[i] = After(k, i) /\ After(k, i).usable <= pools[k].slots[i].extent
  <2>1. pools'[k].slots[i] = After(k, i)
    BY <1>3, <1>4, <1>5
  <2>2. pools[k].slots[i].usable <= pools[k].slots[i].extent /\ pools[k].slots[i].extent \in Nat
    BY PoolTypes DEF ArenaInv, PoolsInOrder, PoolInv
  <2>3. 0 <= pools[k].slots[i].extent
    BY <2>2
  <2>4. After(k, i).usable = pools[k].slots[i].usable \/ After(k, i).usable = 0
    BY <1>2
  <2>5. QED
    BY <2>1, <2>2, <2>3, <2>4
<1>7. ASSUME NEW k \in 1..Len(pools)
      PROVE  /\ pools'[k].begin = pools[k].begin /\ pools'[k].end = pools[k].end
             /\ pools'[k].cursor = pools[k].cursor
             /\ Len(pools'[k].slots) = Len(pools[k].slots)
  BY <1>3, <1>4, <1>5
<1>8. SameArena
  <2>1. ASSUME NEW k \in 1..Len(pools), NEW i \in 1..Len(pools[k].slots)
        PROVE  /\ pools'[k].slots[i].begin = pools[k].slots[i].begin
               /\ pools'[k].slots[i].extent = pools[k].slots[i].extent
               /\ pools'[k].slots[i].usable <= pools[k].slots[i].extent
    <3>1. pools'[k].slots[i] = After(k, i) /\ After(k, i).usable <= pools[k].slots[i].extent
      BY <1>6
    <3>2. /\ After(k, i).begin = pools[k].slots[i].begin
          /\ After(k, i).extent = pools[k].slots[i].extent
      BY <1>2
    <3>3. QED
      BY <3>1, <3>2, Zenon
  <2>2. QED
    BY <1>5, <1>7, <2>1, Zenon DEF SameArena
<1>9. ASSUME NEW k \in 1..Len(pools), NEW i \in 1..Len(pools[k].slots), <<k, i>> \in stuck
      PROVE  pools[k].slots[i].active
  <2>1. SlotAt(<<k, i>>).active
    BY <1>9 DEF PlacesOf, Found
  <2>2. QED
    BY <2>1 DEF SlotAt
<1>10. QED
  BY <1>2, <1>6, <1>8, <1>9

\* The candidates are gone, the entries lead to what stays.
LEMMA DroppedStep ==
  ASSUME IInv, NEW base, ProgramWritten(base), NEW stuck, stuck \subseteq PlacesOf(Owned),
         Dropped(base, stuck), DOMAIN saved' = {}, UNCHANGED platform,
         target' \in [Entries -> 0..MaxHandles],
         \A e \in Entries : target'[e] = IF e \in DOMAIN saved THEN saved[e] ELSE target[e]
  PROVE  IInv'
<1> USE DEF IInv
<1> DEFINE back == PlacesOf(Owned) \ stuck
<1>1. /\ pools' = AfterReclaim(back, stuck)
      /\ prot' = [p \in Pages |-> IF p \in PagesOf(back) THEN "none" ELSE base[p]]
      /\ content' = [p \in Pages |-> IF p \in PagesOf(back) THEN 0 ELSE content[p]]
      /\ handles' = [h \in Handles |->
                       IF h \in Owned THEN [handles[h] EXCEPT !.phase = "dropped"]
                       ELSE handles[h]]
      /\ unwind' = unwind \ Owned
  BY DEF Dropped
<1>2. /\ back \subseteq PlacesOf(Owned)
      /\ \A place : place \in PlacesOf(Owned) => place \in back \cup stuck
      /\ \A place \in stuck : place \notin back
  OBVIOUS
<1> HIDE DEF back
<1>3. /\ SameArena
      /\ \A k \in 1..Len(pools) : \A i \in 1..Len(pools[k].slots) :
           LET s == pools'[k].slots[i]
           IN /\ <<k, i>> \in stuck => s.active /\ s.kept
              /\ <<k, i>> \in back /\ <<k, i>> \notin stuck => ~s.active /\ ~s.kept /\ s.usable = 0
              /\ <<k, i>> \notin back \cup stuck => s = pools[k].slots[i]
  BY <1>1, ReclaimedSlots
<1>4. /\ PoolsInOrder'
      /\ Len(pools') = Len(pools)
      /\ \A k \in 1..Len(pools) : PoolPages(k)' = PoolPages(k) /\ Len(pools'[k].slots) = Len(pools[k].slots)
      /\ \A k \in 1..Len(pools) : \A i \in 1..Len(pools[k].slots) :
           Whole(pools[k].slots[i])' = Whole(pools[k].slots[i])
  BY <1>3, SameArenaInOrder DEF SameArena, ArenaInv
<1>5. ASSUME NEW p \in PagesOf(back)
      PROVE  \E k \in 1..Len(pools) : p \in PoolPages(k)
  <2>1. PICK place \in back : p \in Whole(SlotAt(place))
    BY <1>5 DEF PagesOf
  <2>2. PICK k \in 1..Len(pools) : \E i \in 1..Len(pools[k].slots) :
          place = <<k, i>> /\ SlotAt(place) = pools[k].slots[i]
    BY <1>2, <2>1, OwnedSlots
  <2>3. QED
    BY <2>1, <2>2, SlotsInPools DEF ArenaInv
<1>6. \A k \in 1..Len(pools) : \A p \in PoolPages(k) : p \in Pages /\ p \notin ProgramPages
  BY DEF ArenaInv, PoolsAreApart
<1>7. /\ prot' \in [Pages -> Protections] /\ content' \in [Pages -> 0..MaxHandles]
      /\ \A p \in Pages : /\ prot'[p] = IF p \in PagesOf(back) THEN "none" ELSE base[p]
                          /\ content'[p] = IF p \in PagesOf(back) THEN 0 ELSE content[p]
  <2>1. "none" \in Protections /\ 0 \in 0..MaxHandles
    BY BoundsAreNaturals DEF Protections
  <2>2. QED
    BY <1>1, <2>1 DEF ProgramWritten, Typed
<1>8. \A p \in Pages : p \notin ProgramPages => prot'[p] = "none" \/ prot'[p] = prot[p]
  BY <1>7 DEF ProgramWritten
<1>9. /\ handles' \in [Handles -> Handle]
      /\ \A h \in Handles :
           /\ handles'[h].begin = handles[h].begin /\ handles'[h].span = handles[h].span
           /\ handles'[h].kind = handles[h].kind
           /\ handles'[h].phase = IF h \in Owned THEN "dropped" ELSE handles[h].phase
  <2>1. handles \in [Handles -> Handle]
    BY DEF Typed
  <2>2. \A h \in Handles : [handles[h] EXCEPT !.phase = "dropped"] \in Handle
    BY <2>1 DEF Handle, Phases
  <2>3. QED
    BY <1>1, <2>1, <2>2 DEF Handle
<1>10. Typed'
  BY <1>1, <1>3, <1>7, <1>9
     DEF Typed, SameArena, Platforms, Pages, Protections, Handles, Handle, PoolRecord, SlotRecord
<1>11. ArenaInv'
  <2>1. PoolsAreApart'
    <3>1. \A k \in 1..Len(pools) : \A p \in PoolPages(k) : prot'[p] # "free"
      BY <1>6, <1>8 DEF ArenaInv, PoolsAreApart
    <3>2. ProgramPages' = ProgramPages /\ Pages' = Pages
      BY DEF ProgramPages, Pages
    <3>3. QED
      BY <1>4, <1>6, <3>1, <3>2 DEF ArenaInv, PoolsAreApart
  <2>2. TailsAreBare'
    <3> SUFFICES ASSUME NEW k \in 1..Len(pools),
                        NEW p \in Span(pools[k].cursor, pools[k].end - pools[k].cursor)
                 PROVE  prot'[p] = "none"
      BY <1>3, <1>4 DEF TailsAreBare, SameArena
    <3>1. p \in PoolPages(k) /\ prot[p] = "none"
      BY TailInPool DEF ArenaInv, TailsAreBare
    <3>2. QED
      BY <1>6, <1>8, <3>1
  <2>3. SlotsAreGuarded'
    <3> SUFFICES ASSUME NEW k \in 1..Len(pools), NEW i \in 1..Len(pools[k].slots)
                 PROVE  /\ ~pools'[k].slots[i].active =>
                             pools'[k].slots[i].usable = 0 /\ ~pools'[k].slots[i].kept
                        /\ \A p \in Guards(pools[k].slots[i])' :
                             pools'[k].slots[i].kept \/ prot'[p] = "none"
      BY <1>4 DEF SlotsAreGuarded
    <3>1. CASE <<k, i>> \in stuck
      BY <1>3, <3>1
    <3>2. CASE <<k, i>> \in back
      <4>1. ~pools'[k].slots[i].active /\ ~pools'[k].slots[i].kept /\ pools'[k].slots[i].usable = 0
        BY <1>2, <1>3, <3>2
      <4>2. \A p \in Guards(pools[k].slots[i])' : p \in Whole(pools[k].slots[i])
        BY <1>4 DEF Guards
      <4>3. \A p \in Whole(pools[k].slots[i]) : p \in PagesOf(back) /\ p \in Pages
        <5>1. SlotAt(<<k, i>>) = pools[k].slots[i]
          BY DEF SlotAt
        <5>2. Whole(pools[k].slots[i]) \subseteq PagesOf(back)
          BY <3>2, <5>1 DEF PagesOf
        <5>3. QED
          BY <5>2, <1>6, SlotsInPools DEF ArenaInv
      <4>4. QED
        BY <1>7, <4>1, <4>2, <4>3
    <3>3. CASE <<k, i>> \notin back \cup stuck
      <4>1. pools'[k].slots[i] = pools[k].slots[i]
        BY <1>3, <3>3
      <4>2. Guards(pools[k].slots[i])' = Guards(pools[k].slots[i])
        BY <4>1 DEF Guards, Whole
      <4>3. \A p \in Guards(pools[k].slots[i]) : p \in Pages /\ p \notin ProgramPages
        BY <1>6, SlotsInPools DEF Guards, ArenaInv
      <4>4. /\ ~pools[k].slots[i].active =>
                 pools[k].slots[i].usable = 0 /\ ~pools[k].slots[i].kept
            /\ \A p \in Guards(pools[k].slots[i]) :
                 pools[k].slots[i].kept \/ prot[p] = "none"
        BY DEF ArenaInv, SlotsAreGuarded
      <4>5. \A p \in Guards(pools[k].slots[i])' : pools'[k].slots[i].kept \/ prot'[p] = "none"
        BY <1>8, <4>1, <4>2, <4>3, <4>4
      <4>6. QED
        BY <4>1, <4>4, <4>5
    <3>4. QED
      BY <3>1, <3>2, <3>3
  <2>4. ProgramIsKept'
    <3>1. \A p \in ProgramPages : p \in Pages /\ p \notin PagesOf(back)
      BY <1>5, <1>6 DEF ProgramPages
    <3>2. ProgramPages' = ProgramPages
      BY DEF ProgramPages, Pages
    <3>3. QED
      BY <1>7, <3>1, <3>2 DEF ArenaInv, ProgramIsKept, ProgramWritten
  <2>5. QED
    BY <1>4, <2>1, <2>2, <2>3, <2>4 DEF ArenaInv
<1>12. HandlesInv'
  <2>1. /\ Held' = Held \ Owned /\ Ended' = Ended
        /\ Held \subseteq Handles /\ Ended \subseteq Handles /\ Owned \cap Ended = {}
    BY <1>9 DEF Held, Ended, Owned
  <2>2. ASSUME NEW h \in Handles, MemoryKept(h), h \notin Owned, Memory(h) \cap PagesOf(back) = {}
        PROVE  MemoryKept(h)'
    <3>1. \A p \in Memory(h) : p \in Pages /\ p \notin ProgramPages
      BY <2>2, MemoryIsNoProgram DEF ArenaInv
    <3>2. \A p \in Memory(h) : prot'[p] = prot[p] /\ content'[p] = content[p]
      BY <1>7, <2>2, <3>1 DEF ProgramWritten
    <3>3. QED
      BY <1>9, <2>2, <3>2, MemoryFrame DEF Linkable
  <2>3. ASSUME NEW h \in Held, h \notin Owned
        PROVE  MemoryKept(h)' /\ InSlot(h)'
    <3>1. h \in Handles /\ MemoryKept(h) /\ InSlot(h)
      BY <2>1 DEF HandlesInv
    <3>2. PICK k \in 1..Len(pools) : \E i \in 1..Len(pools[k].slots) :
            /\ pools[k].slots[i].active /\ pools[k].slots[i].begin = handles[h].begin
            /\ pools[k].slots[i].usable = handles[h].span
            /\ Memory(h) \subseteq Whole(pools[k].slots[i])
      BY <3>1, HeldSlot DEF ArenaInv
    <3>3. PICK i \in 1..Len(pools[k].slots) :
            /\ pools[k].slots[i].active /\ pools[k].slots[i].begin = handles[h].begin
            /\ pools[k].slots[i].usable = handles[h].span
            /\ Memory(h) \subseteq Whole(pools[k].slots[i])
      BY <3>2
    <3>4. <<k, i>> \notin PlacesOf(Owned)
      BY <2>3, <3>3, OwnedPlaces
    <3>5. pools'[k].slots[i] = pools[k].slots[i]
      BY <1>2, <1>3, <3>4
    <3>6. Memory(h) \cap PagesOf(back) = {}
      <4>1. SUFFICES ASSUME NEW place \in back, NEW p \in Memory(h), p \in Whole(SlotAt(place))
                     PROVE  FALSE
        BY DEF PagesOf
      <4>2. PICK l \in 1..Len(pools) : \E j \in 1..Len(pools[l].slots) :
              place = <<l, j>> /\ SlotAt(place) = pools[l].slots[j]
        BY <1>2, OwnedSlots
      <4>3. PICK j \in 1..Len(pools[l].slots) :
              place = <<l, j>> /\ SlotAt(place) = pools[l].slots[j]
        BY <4>2
      <4>4. k # l \/ i # j
        BY <1>2, <3>4, <4>3
      <4>5. QED
        BY <3>3, <4>1, <4>3, <4>4, SlotsAreDisjoint DEF ArenaInv
    <3>7. k \in 1..Len(pools') /\ i \in 1..Len(pools'[k].slots)
      BY <1>4
    <3>8. MemoryKept(h)'
      BY <2>2, <2>3, <3>1, <3>6
    <3>9. InSlot(h)'
      <4>1. /\ pools'[k].slots[i].active
            /\ pools'[k].slots[i].begin = handles'[h].begin
            /\ pools'[k].slots[i].usable = handles'[h].span
        BY <1>9, <3>1, <3>3, <3>5
      <4>2. QED
        BY <3>7, <4>1 DEF InSlot
    <3>10. QED
      BY <3>8, <3>9
  <2>4. ASSUME NEW h \in Ended
        PROVE  MemoryKept(h)' /\ OutsidePools(h)'
    <3>1. h \in Handles /\ h \notin Owned /\ MemoryKept(h) /\ OutsidePools(h)
      BY <2>1 DEF HandlesInv
    <3>2. Memory(h) \cap PagesOf(back) = {}
      BY <1>5, <3>1 DEF OutsidePools
    <3>3. QED
      BY <1>4, <1>9, <2>2, <3>1, <3>2 DEF OutsidePools, Memory
  <2>5. QED
    BY <2>1, <2>3, <2>4 DEF HandlesInv
<1>13. EntriesInv'
  <2>1. ASSUME NEW g, Stays(g)
        PROVE  Stays(g)'
    BY <1>9, <2>1 DEF IsCode, Stays, Linkable, Owned
  <2>2. ASSUME NEW g \in unwind'
        PROVE  IsCode(g)'
    <3>1. IsCode(g) /\ g \notin Owned
      BY <1>1, <2>2 DEF EntriesInv, UnwindLands
    <3>2. QED
      BY <1>9, <3>1 DEF IsCode, Linkable
  <2>3. ASSUME NEW e \in Entries, target'[e] # 0
        PROVE  Stays(target[e])'
    <3>1. CASE e \in DOMAIN saved
      <4>1. target'[e] = saved[e] /\ Stays(saved[e])
        BY <2>3, <3>1 DEF EntriesInv, SavedLand
      <4>2. Stays(target'[e])
        BY <4>1
      <4>3. QED
        BY <4>2, <2>1
    <3>2. CASE e \notin DOMAIN saved
      <4>1. target'[e] = target[e] /\ Stays(target[e])
        BY <2>3, <3>2 DEF EntriesInv, EntriesLand
      <4>2. Stays(target'[e])
        BY <4>1
      <4>3. QED
        BY <4>2, <2>1
    <3>3. QED
      BY <3>1, <3>2
  <2>4. QED
    BY <2>2, <2>3 DEF EntriesInv, EntriesLand, SavedLand, UnwindLands
<1>14. QED
  BY <1>10, <1>11, <1>12, <1>13

LEMMA DropStep ==
  ASSUME IInv, Drop
  PROVE  IInv'
<1>1. PICK stuck \in SUBSET PlacesOf(Owned) : Dropped(prot, stuck)
  BY DEF Drop
<1>2. /\ UNCHANGED <<platform, target, saved>> /\ DOMAIN saved = {}
  BY DEF Drop, Preparing
<1>3. ProgramWritten(prot)
  BY DEF ProgramWritten, IInv, Typed, ArenaInv, ProgramIsKept
<1>4. QED
  BY <1>1, <1>2, <1>3, DroppedStep DEF IInv, Typed

LEMMA RollBackStep ==
  ASSUME IInv, NEW e \in Entries, NEW p \in WrittenPages(e), NEW lost \in SUBSET DOMAIN saved,
         RollBack(e, p, lost)
  PROVE  IInv'
<1> USE DEF IInv
<1> DEFINE left == WithPages({q \in WrittenPages(e) : q < p}, "rwx")
           text == UNION {WrittenPages(w) : w \in DOMAIN saved \ lost}
<1>1. /\ Linked /\ saved' = <<>> /\ UNCHANGED platform
      /\ target' = [w \in Entries |-> IF w \in DOMAIN saved \ lost THEN saved[w] ELSE target[w]]
      /\ \/ lost = {} /\ Dropped(Restored(left, text), {})
         \/ /\ prot' = Restored(left, text)
            /\ handles' = KeptBySession
            /\ UNCHANGED <<content, pools, unwind>>
  BY DEF RollBack
<1>2. ProgramWritten(Restored(left, text))
  <2>1. ProgramWritten(left)
    BY EntryPagesAreProgram, ProgramWrites DEF ArenaInv
  <2>2. \A q \in text : q \in Pages => q \in ProgramPages
    BY EntryPagesAreProgram DEF Typed
  <2>3. QED
    BY <2>1, <2>2, ProgramWrites DEF ArenaInv
<1> HIDE DEF left, text
<1>3. target' \in [Entries -> 0..MaxHandles]
  BY <1>1 DEF EntriesInv, SavedLand, Typed
<1>4. CASE lost = {} /\ Dropped(Restored(left, text), {})
  <2>1. \A w \in Entries : target'[w] = IF w \in DOMAIN saved THEN saved[w] ELSE target[w]
    BY <1>1, <1>4
  <2>2. DOMAIN saved' = {}
    BY <1>1
  <2>3. QED
    BY <1>1, <1>2, <1>3, <1>4, <2>1, <2>2, DroppedStep
<1>5. CASE /\ prot' = Restored(left, text)
           /\ handles' = KeptBySession
           /\ UNCHANGED <<content, pools, unwind>>
  BY <1>1, <1>2, <1>3, <1>5, KeepStep
<1>6. QED
  BY <1>1, <1>4, <1>5

-----------------------------------------------------------------------------
(* The end of a session. *)

\* The arena takes only its own pages away.
LEMMA AtEndOutside ==
  ASSUME IInv, NEW p \in Pages, \A k \in 1..Len(pools) : p \notin PoolPages(k)
  PROVE  AtEnd(p) = prot[p]
<1>1. p \notin UnmappedAtEnd
  BY DEF UnmappedAtEnd
<1>2. p \notin ReleasedAtEnd
  BY DEF ReleasedAtEnd
<1>3. p \notin DecommittedAtEnd
  BY SlotsInPools DEF DecommittedAtEnd, IInv, ArenaInv
<1>4. QED
  BY <1>1, <1>2, <1>3 DEF AtEnd

\* What the session holds is released to the process.
LEMMA AtEndKept ==
  ASSUME IInv, NEW h \in Handles, handles[h].phase = "session", NEW p \in Memory(h)
  PROVE  AtEnd(p) = prot[p]
<1> USE DEF IInv, ArenaInv
<1>1. h \in Held /\ InSlot(h) /\ Memory(h) \subseteq Pages
  BY DEF Held, HandlesInv, MemoryKept
<1>2. PICK k \in 1..Len(pools) : \E i \in 1..Len(pools[k].slots) :
        /\ pools[k].slots[i].active /\ pools[k].slots[i].begin = handles[h].begin
        /\ Memory(h) \subseteq Whole(pools[k].slots[i])
        /\ Memory(h) \subseteq PoolPages(k)
  BY <1>1, HeldSlot
<1>3. PICK i \in 1..Len(pools[k].slots) :
        /\ pools[k].slots[i].active /\ pools[k].slots[i].begin = handles[h].begin
        /\ Memory(h) \subseteq Whole(pools[k].slots[i])
        /\ Memory(h) \subseteq PoolPages(k)
  BY <1>2
<1>4. i \in KeptAtEnd[k]
  BY <1>3 DEF KeptAtEnd
<1>5. \A l \in 1..Len(pools) : l # k => p \notin PoolPages(l)
  BY <1>3 DEF PoolsAreApart
<1>6. p \notin UnmappedAtEnd
  <2>1. p \in UNION {Whole(pools[k].slots[j]) : j \in KeptAtEnd[k]}
    BY <1>3, <1>4
  <2>2. p \in Pages /\ p <= p
    BY <1>1, BoundsAreNaturals DEF Pages
  <2>3. p \in Hull(k)
    BY <2>1, <2>2 DEF Hull
  <2>4. QED
    BY <1>5, <2>3 DEF UnmappedAtEnd
<1>7. p \notin ReleasedAtEnd
  BY <1>4, <1>5 DEF ReleasedAtEnd
<1>8. p \notin DecommittedAtEnd
  <2>1. SUFFICES ASSUME NEW l \in 1..Len(pools),
                        NEW j \in {m \in 1..Len(pools[l].slots) : pools[l].slots[m].active} \ KeptAtEnd[l],
                        p \in Whole(pools[l].slots[j])
                 PROVE  FALSE
    BY DEF DecommittedAtEnd
  <2>2. l # k \/ j # i
    BY <1>4
  <2>3. QED
    BY <1>3, <2>1, <2>2, SlotsAreDisjoint
<1>9. QED
  BY <1>6, <1>7, <1>8 DEF AtEnd

LEMMA EndSessionStep ==
  ASSUME IInv, EndSession
  PROVE  IInv'
<1> USE DEF IInv
<1>1. /\ Owned = {} /\ DOMAIN saved = {} /\ pools' = <<>>
      /\ prot' = [p \in Pages |-> AtEnd(p)]
      /\ content' = [p \in Pages |-> IF AtEnd(p) \in {"free", "none"} THEN 0 ELSE content[p]]
      /\ handles' = [h \in Handles |-> IF handles[h].phase = "session"
                                       THEN [handles[h] EXCEPT !.phase = "process"]
                                       ELSE handles[h]]
      /\ UNCHANGED <<platform, target, saved, unwind>>
  BY DEF EndSession, Preparing
<1>2. /\ handles' \in [Handles -> Handle]
      /\ \A h \in Handles :
           /\ handles'[h].begin = handles[h].begin /\ handles'[h].span = handles[h].span
           /\ handles'[h].kind = handles[h].kind
           /\ handles'[h].phase = IF handles[h].phase = "session" THEN "process" ELSE handles[h].phase
  <2>1. handles \in [Handles -> Handle]
    BY DEF Typed
  <2>2. \A h \in Handles : [handles[h] EXCEPT !.phase = "process"] \in Handle
    BY <2>1 DEF Handle, Phases
  <2>3. QED
    BY <1>1, <2>1, <2>2 DEF Handle
<1>3. pools' \in Seq(PoolRecord) /\ Len(pools') = 0 /\ 1..Len(pools') = {}
  BY <1>1
<1>4. Typed'
  <2>1. \A p \in Pages : AtEnd(p) \in Protections
    BY DEF AtEnd, Typed, Protections
  <2>2. 0 \in 0..MaxHandles
    BY BoundsAreNaturals
  <2>3. prot' \in [Pages -> Protections] /\ content' \in [Pages -> 0..MaxHandles]
    BY <1>1, <2>1, <2>2 DEF Typed
  <2>4. QED
    BY <1>1, <1>2, <1>3, <2>3
       DEF Typed, Platforms, Pages, Protections, Handles, Handle, PoolRecord, SlotRecord
<1>5. ArenaInv'
  <2>1. ASSUME NEW p \in ProgramPages
        PROVE  content'[p] = 0 /\ prot'[p] \notin {"free", "none"}
    <3>1. p \in Pages /\ \A k \in 1..Len(pools) : p \notin PoolPages(k)
      BY DEF ArenaInv, PoolsAreApart, ProgramPages
    <3>2. AtEnd(p) = prot[p]
      BY <3>1, AtEndOutside
    <3>3. QED
      BY <1>1, <3>1, <3>2 DEF ArenaInv, ProgramIsKept
  <2>2. ProgramIsKept'
    BY <2>1 DEF ProgramIsKept, ProgramPages, Pages
  <2>3. PoolsInOrder' /\ PoolsAreApart' /\ TailsAreBare' /\ SlotsAreGuarded'
    BY <1>3 DEF PoolsInOrder, PoolsAreApart, TailsAreBare, SlotsAreGuarded
  <2>4. QED
    BY <2>2, <2>3 DEF ArenaInv
<1>6. HandlesInv'
  <2>1. /\ Held' = {} /\ Ended' = Held \cup Ended
        /\ \A h \in Held : h \in Handles /\ handles[h].phase = "session"
        /\ Ended \subseteq Handles
    BY <1>1, <1>2 DEF Held, Ended, Owned
  <2>2. ASSUME NEW h \in Handles, MemoryKept(h), h \in Linkable,
               handles[h].phase # "committed", \A p \in Memory(h) : AtEnd(p) = prot[p]
        PROVE  MemoryKept(h)'
    <3>1. \A p \in Memory(h) : prot'[p] = prot[p] /\ content'[p] = content[p]
      BY <1>1, <2>2 DEF MemoryKept
    <3>2. QED
      BY <1>2, <2>2, <3>1, MemoryFrame
  <2>3. ASSUME NEW h \in Held
        PROVE  MemoryKept(h)'
    BY <2>1, <2>2, AtEndKept DEF HandlesInv, Linkable
  <2>4. ASSUME NEW h \in Ended
        PROVE  MemoryKept(h)'
    <3>1. \A p \in Memory(h) : AtEnd(p) = prot[p]
      BY AtEndOutside DEF HandlesInv, OutsidePools, MemoryKept
    <3>2. QED
      BY <2>2, <3>1 DEF HandlesInv, Linkable, Ended
  <2>5. \A h : OutsidePools(h)'
    BY <1>3 DEF OutsidePools
  <2>6. QED
    BY <2>1, <2>3, <2>4, <2>5 DEF HandlesInv
<1>7. EntriesInv'
  <2>1. ASSUME NEW g, IsCode(g)
        PROVE  IsCode(g)' /\ Stays(g)'
    BY <1>1, <1>2, <2>1 DEF IsCode, Stays, Linkable, Owned
  <2>2. QED
    BY <1>1, <2>1 DEF EntriesInv, EntriesLand, SavedLand, UnwindLands, Stays
<1>8. QED
  BY <1>4, <1>5, <1>6, <1>7

-----------------------------------------------------------------------------
(* Where a new pool may be. *)

LEMMA AlignBounds ==
  ASSUME NEW p \in Nat, NEW u \in Nat \ {0}
  PROVE  /\ AlignUp(p, u) \in Nat /\ p <= AlignUp(p, u)
         /\ AlignDown(p, u) \in Nat /\ AlignDown(p, u) <= p
<1>1. ASSUME NEW x \in Nat
      PROVE  /\ x \div u \in Nat /\ (x \div u) * u \in Nat
             /\ (x \div u) * u <= x /\ x < (x \div u) * u + u
  OBVIOUS
<1>2. AlignDown(p, u) \in Nat /\ AlignDown(p, u) <= p
  BY <1>1 DEF AlignDown
<1>3. AlignUp(p, u) \in Nat /\ p <= AlignUp(p, u)
  <2> DEFINE x == p + u - 1
             a == (x \div u) * u
  <2>1. x \in Nat
    OBVIOUS
  <2>2. a \in Nat /\ x < a + u
    BY <2>1, <1>1
  <2>3. AlignUp(p, u) = a
    BY DEF AlignUp
  <2> HIDE DEF a
  <2>4. QED
    BY <2>2, <2>3
<1>4. QED
  BY <1>2, <1>3

LEMMA CandidateInGap ==
  ASSUME NEW hint \in Nat, NEW gap, gap[1] \in Nat, gap[2] \in Nat,
         NEW size \in Nat, size <= gap[2] - gap[1], gap[1] < gap[2]
  PROVE  LET c == Candidate(hint, gap, size)
         IN /\ c.begin \in Nat /\ gap[1] <= c.begin /\ c.begin + size <= gap[2]
            /\ c.size = size
<1> DEFINE low == gap[1]
           high == gap[2]
           near == AlignDown(hint - size \div 2, Unit)
           ideal == IF hint > size \div 2 THEN near ELSE low
<1>1. Candidate(hint, gap, size).begin = Clamp(ideal, low, high - size)
      /\ Candidate(hint, gap, size).size = size
  BY DEF Candidate
<1>2. size \div 2 \in Nat
  OBVIOUS
<1>3. hint > size \div 2 => near \in Nat
  <2>1. hint > size \div 2 => hint - size \div 2 \in Nat
    BY <1>2
  <2>2. QED
    BY <2>1, AlignBounds, UnitIsPositive
<1> HIDE DEF near
<1>4. ideal \in Nat
  BY <1>3
<1>5. low \in Nat /\ high \in Nat /\ low < high /\ size <= high - low
  OBVIOUS
<1> HIDE DEF low, high, ideal
<1>6. /\ Clamp(ideal, low, high - size) \in Nat /\ low <= Clamp(ideal, low, high - size)
      /\ Clamp(ideal, low, high - size) + size <= high
  BY <1>4, <1>5 DEF Clamp, Least, Most
<1>7. QED
  BY <1>1, <1>6 DEF low, high

\* A run of pages that is open up to the end of the address space or to the
\* first page that is not.
LEMMA RunEnds ==
  ASSUME NEW open, open \subseteq Pages, NEW b \in open
  PROVE  \E e \in b..(LastPage + 1) : e \notin open /\ b..(e - 1) \subseteq open
<1>1. LastPage \in Nat /\ b \in Nat /\ b <= LastPage /\ \A x \in open : x \in Nat /\ x <= LastPage
  BY BoundsAreNaturals DEF Pages
<1> DEFINE T == {e \in b..(LastPage + 1) : e \notin open}
<1>2. T \subseteq Nat /\ LastPage + 1 \in T
  BY <1>1
<1>3. PICK e \in T : \A x \in T : ~(<<x, e>> \in OpToRel(<, Nat))
  BY <1>2, WFMin, NatLessThanWellFounded
<1>4. \A x \in T : ~(x < e)
  BY <1>2, <1>3 DEF OpToRel
<1>5. b..(e - 1) \subseteq open
  BY <1>1, <1>4
<1>6. QED
  BY <1>5

LEMMA GapIsFree ==
  ASSUME NEW hint \in Nat, NEW gap \in Gaps(hint)
  PROVE  /\ gap[1] \in Nat /\ gap[2] \in Nat
         /\ \A p \in gap[1]..(gap[2] - 1) : p \in Pages /\ prot[p] = "free"
<1> DEFINE open == {p \in Window(hint) : prot[p] = "free"}
           Stop(b) == CHOOSE e \in b..(LastPage + 1) : e \notin open /\ b..(e - 1) \subseteq open
<1>1. open \subseteq Pages
  BY DEF Window
<1>2. PICK b \in open : gap = <<AlignUp(b, Unit), AlignDown(Stop(b), Unit)>>
  BY DEF Gaps
<1>3. Stop(b) \in b..(LastPage + 1) /\ b..(Stop(b) - 1) \subseteq open
  BY <1>1, RunEnds
<1>4. b \in Nat /\ Stop(b) \in Nat
  BY <1>1, <1>3, BoundsAreNaturals DEF Pages
<1>5. \A p \in open : p \in Pages /\ prot[p] = "free"
  BY <1>1
<1> HIDE DEF open, Stop
<1>6. /\ AlignUp(b, Unit) \in Nat /\ b <= AlignUp(b, Unit)
      /\ AlignDown(Stop(b), Unit) \in Nat /\ AlignDown(Stop(b), Unit) <= Stop(b)
  BY <1>4, AlignBounds, UnitIsPositive
<1>7. gap[1] = AlignUp(b, Unit) /\ gap[2] = AlignDown(Stop(b), Unit)
  BY <1>2
<1>8. AlignUp(b, Unit)..(AlignDown(Stop(b), Unit) - 1) \subseteq b..(Stop(b) - 1)
  BY <1>4, <1>6
<1>9. QED
  BY <1>3, <1>5, <1>6, <1>7, <1>8

-----------------------------------------------------------------------------
(* Reservations. *)

\* A span becomes the memory of a handle and has a slot; all other memory and
\* all other slots in use stay as they are.
GivenApart(h, begin, span) ==
  /\ begin \in Nat /\ span \in Nat \ {0} /\ Span(begin, span) \subseteq Pages
  /\ \A p \in Span(begin, span) : prot'[p] = "rw" /\ content'[p] = h
  /\ \A g \in Held \cup Ended : \A p \in Memory(g) :
       prot'[p] = prot[p] /\ content'[p] = content[p]
  /\ \E k \in 1..Len(pools') : \E i \in 1..Len(pools'[k].slots) :
       /\ pools'[k].slots[i].active /\ pools'[k].slots[i].begin = begin
       /\ pools'[k].slots[i].usable = span
  /\ \A k \in 1..Len(pools) : \A i \in 1..Len(pools[k].slots) :
       pools[k].slots[i].active =>
         /\ k \in 1..Len(pools') /\ i \in 1..Len(pools'[k].slots)
         /\ pools'[k].slots[i] = pools[k].slots[i]
  /\ \A g \in Ended : \A k \in 1..Len(pools') :
       Memory(g) \cap Span(pools'[k].begin, pools'[k].end - pools'[k].begin) = {}

LEMMA GivenHandle ==
  ASSUME IInv, NEW h \in NextHandle, NEW kind \in {"code", "state"}, NEW begin, NEW span,
         GivenApart(h, begin, span), Give(h, kind, begin, span),
         UNCHANGED <<target, saved, unwind>>
  PROVE  handles' \in [Handles -> Handle] /\ HandlesInv' /\ EntriesInv'
<1> USE DEF IInv
<1>1. h \in Handles /\ handles[h].phase = "unused"
  BY DEF NextHandle
<1> DEFINE new == [kind |-> kind, begin |-> begin, span |-> span, phase |-> "candidate"]
<1>2. begin \in Pages
  <2>1. begin \in Nat /\ span \in Nat \ {0} /\ Span(begin, span) \subseteq Pages
    BY DEF GivenApart
  <2>2. begin \in Span(begin, span)
    BY <2>1 DEF Span
  <2>3. QED
    BY <2>1, <2>2
<1>3. new \in Handle
  BY <1>2 DEF Handle, Phases, GivenApart
<1>4. handles' = [handles EXCEPT ![h] = new]
  BY DEF Give
<1>5. /\ handles' \in [Handles -> Handle] /\ handles'[h] = new
      /\ \A g \in Handles : g # h => handles'[g] = handles[g]
  BY <1>1, <1>3, <1>4 DEF Typed
<1>6. /\ handles'[h].kind = kind /\ handles'[h].begin = begin /\ handles'[h].span = span
      /\ handles'[h].phase = "candidate"
  BY <1>5
<1> HIDE DEF new
<1>7. /\ Held' = Held \cup {h} /\ Ended' = Ended
      /\ Held \subseteq Handles /\ Ended \subseteq Handles /\ h \notin Held \cup Ended
  BY <1>1, <1>5, <1>6 DEF Held, Ended
<1>8. ASSUME NEW g \in Held \cup Ended
      PROVE  MemoryKept(g)' /\ Memory(g)' = Memory(g)
  <2>1. g \in Handles /\ g # h /\ MemoryKept(g)
    BY <1>7 DEF HandlesInv
  <2>2. QED
    BY <1>5, <2>1, MemoryFrame DEF Linkable, GivenApart
<1>9. MemoryKept(h)'
  <2>1. Memory(h)' = Span(begin, span)
    BY <1>6 DEF Memory
  <2>2. Holds(h)'
    BY <1>6 DEF Holds, GivenApart
  <2>3. 0 < handles'[h].span
    BY <1>6 DEF GivenApart
  <2>4. h \notin Linkable'
    BY <1>6 DEF Linkable
  <2>5. Pages' = Pages
    BY DEF Pages
  <2>6. QED
    BY <1>6, <2>1, <2>2, <2>3, <2>4, <2>5 DEF MemoryKept, GivenApart
<1>10. InSlot(h)'
  BY <1>6 DEF InSlot, GivenApart
<1>11. ASSUME NEW g \in Held
       PROVE  InSlot(g)'
  <2>1. g \in Handles /\ g # h /\ InSlot(g)
    BY <1>7 DEF HandlesInv
  <2>2. PICK k \in 1..Len(pools) : \E i \in 1..Len(pools[k].slots) :
          /\ pools[k].slots[i].active
          /\ pools[k].slots[i].begin = handles[g].begin
          /\ pools[k].slots[i].usable = handles[g].span
    BY <2>1 DEF InSlot
  <2>3. PICK i \in 1..Len(pools[k].slots) :
          /\ pools[k].slots[i].active
          /\ pools[k].slots[i].begin = handles[g].begin
          /\ pools[k].slots[i].usable = handles[g].span
    BY <2>2
  <2>4. /\ k \in 1..Len(pools') /\ i \in 1..Len(pools'[k].slots)
        /\ pools'[k].slots[i] = pools[k].slots[i]
    BY <2>3 DEF GivenApart
  <2>5. /\ pools'[k].slots[i].active
        /\ pools'[k].slots[i].begin = handles'[g].begin
        /\ pools'[k].slots[i].usable = handles'[g].span
    BY <1>5, <2>1, <2>3, <2>4
  <2>6. QED
    BY <2>4, <2>5 DEF InSlot
<1>12. ASSUME NEW g \in Ended
       PROVE  OutsidePools(g)'
  BY <1>8 DEF OutsidePools, PoolPages, GivenApart
<1>13. HandlesInv'
  BY <1>7, <1>8, <1>9, <1>10, <1>11, <1>12 DEF HandlesInv
<1>14. EntriesInv'
  <2>1. ASSUME NEW g, IsCode(g)
        PROVE  IsCode(g)' /\ (Stays(g) => Stays(g)')
    BY <1>1, <1>5, <2>1 DEF IsCode, Stays, Linkable
  <2>2. \A g : Stays(g) => IsCode(g)
    BY DEF Stays
  <2>3. EntriesLand'
    BY <2>1, <2>2 DEF EntriesInv, EntriesLand
  <2>4. SavedLand'
    BY <2>1, <2>2 DEF EntriesInv, SavedLand
  <2>5. UnwindLands'
    BY <2>1 DEF EntriesInv, UnwindLands
  <2>6. QED
    BY <2>3, <2>4, <2>5 DEF EntriesInv
<1>15. QED
  BY <1>5, <1>13, <1>14

\* A candidate for a pool is free and large enough.
LEMMA CandidateIsFree ==
  ASSUME IInv, NEW hint \in Nat, NEW span \in Nat \ {0},
         NEW c \in Candidates(hint, PoolNeed(span))
  PROVE  /\ c.begin \in Nat /\ c.size \in Nat /\ span + 1 <= c.size
         /\ c.begin + c.size <= LastPage + 1
         /\ \A p \in Span(c.begin, c.size) : p \in Pages /\ prot[p] = "free"
<1>1. PICK g \in Gaps(hint) :
        /\ g[1] < g[2] /\ g[2] - g[1] >= PoolNeed(span)
        /\ c = Candidate(hint, g, Least(Most(PoolSize, PoolNeed(span)), g[2] - g[1]))
  BY DEF Candidates
<1> DEFINE size == Least(Most(PoolSize, PoolNeed(span)), g[2] - g[1])
           low == g[1]
           high == g[2]
<1>2. low \in Nat /\ high \in Nat /\ low < high /\ high - low >= span + 1
      /\ \A p \in low..(high - 1) : p \in Pages /\ prot[p] = "free"
  BY <1>1, GapIsFree DEF PoolNeed
<1>3. size = Least(Most(PoolSize, span + 1), high - low)
  BY DEF PoolNeed
<1>4. c = Candidate(hint, g, size)
  BY <1>1
<1> HIDE DEF size
<1>5. size \in Nat /\ size <= high - low /\ span + 1 <= size
  <2> HIDE DEF low, high
  <2>1. PoolSize \in Nat
    BY SizesArePositive
  <2>2. QED
    BY <1>2, <1>3, <2>1 DEF Least, Most
<1>6. c.begin \in Nat /\ low <= c.begin /\ c.begin + size <= high /\ c.size = size
  BY <1>2, <1>4, <1>5, CandidateInGap
<1> DEFINE begin == c.begin
<1>7. begin \in Nat /\ low <= begin /\ begin + size <= high
  BY <1>6
<1> HIDE DEF low, high, begin
<1>8. Span(begin, size) \subseteq low..(high - 1)
  BY <1>2, <1>5, <1>7 DEF Span
<1>9. begin + size <= LastPage + 1
  <2>1. high - 1 \in low..(high - 1)
    BY <1>2
  <2>2. high - 1 <= LastPage /\ LastPage \in Nat
    BY <1>2, <2>1, BoundsAreNaturals DEF Pages
  <2>3. QED
    BY <1>2, <1>5, <1>7, <2>2
<1>10. QED
  BY <1>2, <1>5, <1>6, <1>7, <1>8, <1>9 DEF begin

LEMMA ReserveNewPoolStep ==
  ASSUME IInv, NEW kind \in {"code", "state"}, NEW e \in Entries, NEW span \in Nat \ {0},
         NEW h \in NextHandle, ReserveNewPool(h, kind, e, span),
         UNCHANGED <<platform, target, saved, unwind>>
  PROVE  IInv'
<1> USE DEF IInv
<1>1. EntryPage[e] \in Nat
  <2>1. EntryPage[e] \in TextPages /\ TextPages \subseteq 0..LastPage /\ LastPage \in Nat
    BY EntriesAreInText, SizesArePositive, BoundsAreNaturals
  <2>2. \A p \in 0..LastPage : p \in Nat
    BY <2>1
  <2>3. QED
    BY <2>1, <2>2
<1>2. PICK c \in Candidates(EntryPage[e], PoolNeed(span)) :
        /\ pools' = Append(pools, Opened(c, span))
        /\ prot' = [p \in Pages |-> IF p \in Span(c.begin, span) THEN "rw" ELSE
                                    IF p \in Span(c.begin, c.size) THEN "none" ELSE prot[p]]
        /\ content' = [p \in Pages |-> IF p \in Span(c.begin, span) THEN h ELSE content[p]]
        /\ Give(h, kind, c.begin, span)
  BY DEF ReserveNewPool
<1> DEFINE b == c.begin
           size == c.size
           x == Extent(span)
           n == Len(pools)
           s == [begin |-> b, usable |-> span, extent |-> x, active |-> TRUE,
                 kept |-> FALSE, executable |-> FALSE]
           new == [begin |-> b, end |-> b + size, cursor |-> b + x, slots |-> <<s>>]
<1>3. /\ b \in Nat /\ size \in Nat /\ span + 1 <= size /\ b + size <= LastPage + 1
      /\ \A p \in Span(b, size) : p \in Pages /\ prot[p] = "free"
  BY <1>1, CandidateIsFree
<1>4. x \in Nat /\ span <= x /\ x <= span + 1
  BY ExtentBounds
<1>5. /\ pools' = Append(pools, new)
      /\ prot' = [p \in Pages |-> IF p \in Span(b, span) THEN "rw" ELSE
                                  IF p \in Span(b, size) THEN "none" ELSE prot[p]]
      /\ content' = [p \in Pages |-> IF p \in Span(b, span) THEN h ELSE content[p]]
      /\ Give(h, kind, b, span)
  BY <1>2 DEF Opened, Slot
<1> HIDE DEF b, size, x
<1>6. /\ s \in SlotRecord /\ s.begin = b /\ s.usable = span /\ s.extent = x
      /\ s.active /\ ~s.kept
  BY <1>3, <1>4 DEF SlotRecord
<1> HIDE DEF s
<1>7. /\ new \in PoolRecord /\ new.begin = b /\ new.end = b + size /\ new.cursor = b + x
      /\ new.slots = <<s>> /\ Len(new.slots) = 1 /\ new.slots[1] = s /\ 1..Len(new.slots) = {1}
  BY <1>3, <1>4, <1>6 DEF PoolRecord
<1> HIDE DEF new
<1>8. /\ n \in Nat /\ pools' \in Seq(PoolRecord) /\ Len(pools') = n + 1
      /\ pools'[n + 1] = new /\ \A k \in 1..n : pools'[k] = pools[k]
      /\ 1..Len(pools') = 1..n \cup {n + 1} /\ n + 1 \notin 1..n
  BY <1>5, <1>7 DEF Typed
<1> HIDE DEF n
<1>9. /\ Span(b, span) \subseteq Span(b, size) /\ Span(b, x) \subseteq Span(b, size)
      /\ \A p \in Span(b + x, (b + size) - (b + x)) : p \in Span(b, size) /\ p \notin Span(b, span)
      /\ (b + size) - b = size
  BY <1>3, <1>4 DEF Span
<1>10. h \in 0..MaxHandles
  BY BoundsAreNaturals DEF NextHandle, Handles
<1>11. /\ prot' \in [Pages -> Protections] /\ content' \in [Pages -> 0..MaxHandles]
       /\ \A p \in Pages : p \notin Span(b, size) => prot'[p] = prot[p] /\ content'[p] = content[p]
       /\ \A p \in Span(b, span) : p \in Pages /\ prot'[p] = "rw" /\ content'[p] = h
       /\ \A p \in Span(b, size) : p \in Pages /\ prot'[p] # "free"
                                   /\ (p \notin Span(b, span) => prot'[p] = "none")
  <2>1. "rw" \in Protections /\ "none" \in Protections
    BY DEF Protections
  <2>2. QED
    BY <1>3, <1>5, <1>9, <1>10, <2>1 DEF Typed
<1> DEFINE Mapped(k) == Span(pools'[k].begin, pools'[k].end - pools'[k].begin)
<1>12. /\ \A k \in 1..n : Mapped(k) = PoolPages(k)
       /\ Mapped(n + 1) = Span(b, size)
  BY <1>7, <1>8, <1>9 DEF PoolPages
<1> HIDE DEF Mapped
<1>13. \A k \in 1..n : \A p \in PoolPages(k) :
         p \in Pages /\ p \notin ProgramPages /\ p \notin Span(b, size) /\ prot'[p] = prot[p]
  BY <1>3, <1>11 DEF ArenaInv, PoolsAreApart, n
<1>14. \A p \in ProgramPages : p \in Pages /\ p \notin Span(b, size)
  BY <1>3 DEF ArenaInv, ProgramIsKept, ProgramPages
<1>15. ArenaInv'
  <2>1. PoolsInOrder'
    <3>1. PoolInv(new)
      <4>1. b <= b + x /\ b + x <= b + size /\ 0 < x
        BY <1>3, <1>4
      <4>2. \A i, j \in {1} : ~(i < j)
        OBVIOUS
      <4>3. new.begin <= new.cursor /\ new.cursor <= new.end /\ new.end <= LastPage + 1
        BY <1>3, <1>7, <4>1
      <4>4. \A i \in 1..Len(new.slots) :
              /\ new.begin <= new.slots[i].begin
              /\ new.slots[i].begin + new.slots[i].extent <= new.cursor
              /\ 0 < new.slots[i].extent /\ new.slots[i].usable <= new.slots[i].extent
        BY <1>3, <1>4, <1>6, <1>7, <4>1
      <4>5. QED
        BY <1>7, <4>2, <4>3, <4>4 DEF PoolInv
    <3>2. \A k \in 1..n : PoolInv(pools[k])
      BY DEF ArenaInv, PoolsInOrder, n
    <3>3. \A q : PoolInv(q)' = PoolInv(q)
      BY DEF PoolInv
    <3>4. \A k \in 1..Len(pools') : PoolInv(pools'[k])
      BY <1>8, <3>1, <3>2
    <3>5. QED
      BY <3>4 DEF PoolsInOrder, PoolInv
  <2>2. PoolsAreApart'
    <3>1. \A k, l \in 1..n : k # l => PoolPages(k) \cap PoolPages(l) = {}
      BY DEF ArenaInv, PoolsAreApart, n
    <3>2. \A k, l \in 1..Len(pools') : k # l => Mapped(k) \cap Mapped(l) = {}
      BY <1>8, <1>12, <1>13, <3>1
    <3>3. \A k \in 1..n : \A p \in PoolPages(k) : prot[p] # "free"
      BY DEF ArenaInv, PoolsAreApart, n
    <3>4. \A k \in 1..Len(pools') : \A p \in Mapped(k) :
            p \in Pages /\ prot'[p] # "free" /\ p \notin ProgramPages
      BY <1>8, <1>11, <1>12, <1>13, <1>14, <3>3
    <3>5. ProgramPages' = ProgramPages /\ Pages' = Pages
      BY DEF ProgramPages, Pages
    <3>6. QED
      BY <3>2, <3>4, <3>5 DEF PoolsAreApart, PoolPages, Mapped
  <2>3. TailsAreBare'
    <3>1. ASSUME NEW k \in 1..n,
                 NEW p \in Span(pools[k].cursor, pools[k].end - pools[k].cursor)
          PROVE  prot'[p] = "none"
      <4>1. k \in 1..Len(pools)
        BY DEF n
      <4>2. p \in PoolPages(k) /\ prot[p] = "none"
        BY <4>1, TailInPool DEF ArenaInv, TailsAreBare
      <4>3. QED
        BY <1>13, <4>2
    <3>2. \A p \in Span(new.cursor, new.end - new.cursor) : prot'[p] = "none"
      BY <1>7, <1>9, <1>11
    <3>3. QED
      BY <1>8, <3>1, <3>2 DEF TailsAreBare
  <2>4. SlotsAreGuarded'
    <3>1. ASSUME NEW k \in 1..n, NEW i \in 1..Len(pools[k].slots)
          PROVE  /\ ~pools[k].slots[i].active =>
                      pools[k].slots[i].usable = 0 /\ ~pools[k].slots[i].kept
                 /\ \A p \in Guards(pools[k].slots[i]) :
                      pools[k].slots[i].kept \/ prot'[p] = "none"
      <4>1. k \in 1..Len(pools)
        BY DEF n
      <4>2. Guards(pools[k].slots[i]) \subseteq PoolPages(k)
        BY <4>1, SlotsInPools DEF Guards, ArenaInv
      <4>3. /\ ~pools[k].slots[i].active =>
                 pools[k].slots[i].usable = 0 /\ ~pools[k].slots[i].kept
            /\ \A p \in Guards(pools[k].slots[i]) :
                 pools[k].slots[i].kept \/ prot[p] = "none"
        BY <4>1 DEF ArenaInv, SlotsAreGuarded
      <4>4. QED
        BY <1>13, <4>2, <4>3
    <3>2. \A p \in Guards(s) : prot'[p] = "none"
      <4>1. \A p \in Guards(s) : p \in Span(b, x) /\ p \notin Span(b, span)
        BY <1>6 DEF Guards, Whole
      <4>2. QED
        BY <1>9, <1>11, <4>1
    <3>3. \A t : Guards(t)' = Guards(t)
      BY DEF Guards, Whole
    <3>4. ASSUME NEW k \in 1..Len(pools'), NEW i \in 1..Len(pools'[k].slots)
          PROVE  /\ ~pools'[k].slots[i].active =>
                      pools'[k].slots[i].usable = 0 /\ ~pools'[k].slots[i].kept
                 /\ \A p \in Guards(pools'[k].slots[i]) :
                      pools'[k].slots[i].kept \/ prot'[p] = "none"
      <4>1. CASE k \in 1..n
        BY <1>8, <3>1, <4>1
      <4>2. CASE k = n + 1
        <5>1. pools'[k].slots[i] = s
          BY <1>7, <1>8, <3>4, <4>2
        <5>2. QED
          BY <1>6, <3>2, <5>1
      <4>3. QED
        BY <1>8, <4>1, <4>2
    <3>5. QED
      BY <3>3, <3>4 DEF SlotsAreGuarded, Guards, Whole
  <2>5. ProgramIsKept'
    <3>1. ProgramPages' = ProgramPages
      BY DEF ProgramPages, Pages
    <3>2. QED
      BY <1>11, <1>14, <3>1 DEF ArenaInv, ProgramIsKept
  <2>6. QED
    BY <2>1, <2>2, <2>3, <2>4, <2>5 DEF ArenaInv
<1>16. handles' \in [Handles -> Handle] /\ HandlesInv' /\ EntriesInv'
  <2>1. \A g \in Held \cup Ended : \A p \in Memory(g) : p \in Pages /\ p \notin Span(b, size)
    BY <1>3 DEF HandlesInv, MemoryKept
  <2>2. \E k \in 1..Len(pools') : \E i \in 1..Len(pools'[k].slots) :
          /\ pools'[k].slots[i].active /\ pools'[k].slots[i].begin = b
          /\ pools'[k].slots[i].usable = span
    <3>1. n + 1 \in 1..Len(pools') /\ 1 \in 1..Len(pools'[n + 1].slots) /\ pools'[n + 1].slots[1] = s
      BY <1>7, <1>8
    <3>2. QED
      BY <1>6, <3>1
  <2>3. \A k \in 1..Len(pools) : \A i \in 1..Len(pools[k].slots) :
          /\ k \in 1..Len(pools') /\ i \in 1..Len(pools'[k].slots)
          /\ pools'[k].slots[i] = pools[k].slots[i]
    BY <1>8 DEF n
  <2>4. \A g \in Ended : \A k \in 1..Len(pools') : Memory(g) \cap Mapped(k) = {}
    <3>1. \A g \in Ended : \A k \in 1..n : Memory(g) \cap PoolPages(k) = {}
      BY DEF HandlesInv, OutsidePools, n
    <3>2. QED
      BY <1>8, <1>12, <2>1, <3>1
  <2>5. /\ Span(b, span) \subseteq Pages
        /\ \A p \in Span(b, span) : prot'[p] = "rw" /\ content'[p] = h
        /\ \A g \in Held \cup Ended : \A p \in Memory(g) :
             prot'[p] = prot[p] /\ content'[p] = content[p]
    BY <1>11, <2>1
  <2>6. \A g \in Ended : \A k \in 1..Len(pools') :
          Memory(g) \cap Span(pools'[k].begin, pools'[k].end - pools'[k].begin) = {}
    BY <2>4 DEF Mapped
  <2>7. b \in Nat /\ Give(h, kind, b, span)
    BY <1>3, <1>5
  <2>8. GivenApart(h, b, span)
    BY <2>2, <2>3, <2>5, <2>6, <2>7 DEF GivenApart
  <2>9. QED
    BY <2>7, <2>8, GivenHandle
<1>17. Typed'
  BY <1>8, <1>11, <1>16 DEF Typed, Platforms, Pages, Protections, Handles, Handle, PoolRecord, SlotRecord
<1>18. QED
  BY <1>15, <1>16, <1>17

\* A slot that was given back is given out again.
LEMMA ReuseSlot ==
  ASSUME IInv, NEW kind \in {"code", "state"}, NEW span \in Nat \ {0}, NEW h \in NextHandle,
         NEW k \in 1..Len(pools), NEW i \in 1..Len(pools[k].slots),
         NEW place, place = <<k, i>>, NEW begin,
         begin = pools[k].slots[i].begin, ~pools[k].slots[i].active,
         Extent(span) <= pools[k].slots[i].extent,
         pools' = TakeSlot(place, span),
         prot' = WithPages(Span(begin, span), "rw"),
         content' = [p \in Pages |-> IF p \in Span(begin, span) THEN h ELSE content[p]],
         Give(h, kind, begin, span), UNCHANGED <<platform, target, saved, unwind>>
  PROVE  IInv'
<1> USE DEF IInv
<1> DEFINE s == pools[k].slots[i]
           t == [s EXCEPT !.usable = span, !.active = TRUE, !.kept = FALSE, !.executable = FALSE]
<1>1. /\ s \in SlotRecord /\ s.begin \in Nat /\ s.extent \in Nat
      /\ Len(pools[k].slots) \in Nat
  BY PoolTypes
<1>2. /\ t \in SlotRecord /\ t.begin = s.begin /\ t.extent = s.extent /\ t.usable = span
      /\ t.active /\ ~t.kept
  BY <1>1 DEF SlotRecord
<1>3. pools' = [pools EXCEPT ![k] = [pools[k] EXCEPT !.slots = [pools[k].slots EXCEPT ![i] = t]]]
  <2>1. IsSlot(place)
    BY <1>1 DEF IsSlot
  <2>2. QED
    BY <2>1 DEF TakeSlot
<1>4. span <= s.extent
  <2> DEFINE x == Extent(span)
             y == s.extent
  <2>1. x \in Nat /\ y \in Nat /\ span <= x /\ x <= y
    BY <1>1, ExtentBounds
  <2> HIDE DEF x, y
  <2>2. span <= y
    BY <2>1
  <2>3. QED
    BY <2>2 DEF y
<1> HIDE DEF t
<1>5. /\ SameArena /\ pools'[k].slots[i] = t
      /\ \A l \in 1..Len(pools) : \A j \in 1..Len(pools[l].slots) :
           l # k \/ j # i => pools'[l].slots[j] = pools[l].slots[j]
  <2>1. t.usable <= t.extent
    BY <1>2, <1>4
  <2>2. QED
    BY <1>2, <1>3, <2>1, SlotUpdate DEF ArenaInv
<1> DEFINE region == Span(begin, span)
<1>6. region \subseteq Whole(s) /\ region = Span(t.begin, t.usable)
  <2>1. begin \in Nat /\ begin = s.begin
    BY <1>1
  <2>2. Span(begin, span) \subseteq Span(begin, s.extent)
    <3> DEFINE x == s.extent
    <3>1. x \in Nat /\ span <= x
      BY <1>1, <1>4
    <3> HIDE DEF x
    <3>2. Span(begin, span) \subseteq Span(begin, x)
      BY <2>1, <3>1 DEF Span
    <3>3. QED
      BY <3>2 DEF x
  <2>3. QED
    BY <1>2, <2>1, <2>2 DEF Whole
<1>7. \A l \in 1..Len(pools) : \A p \in PoolPages(l) : p \in Pages
  BY DEF ArenaInv, PoolsAreApart
<1>8. region \subseteq PoolPages(k) /\ region \subseteq Pages
  BY <1>6, <1>7, SlotsInPools DEF ArenaInv
<1>9. h \in 0..MaxHandles
  BY BoundsAreNaturals DEF NextHandle, Handles
<1> HIDE DEF region
<1>10. /\ prot' \in [Pages -> Protections] /\ content' \in [Pages -> 0..MaxHandles]
       /\ \A p \in Pages \ region : prot'[p] = prot[p] /\ content'[p] = content[p]
       /\ \A p \in region : prot'[p] = "rw" /\ content'[p] = h
  <2>1. "rw" \in Protections
    BY DEF Protections
  <2>2. /\ prot' = [p \in Pages |-> IF p \in region THEN "rw" ELSE prot[p]]
        /\ content' = [p \in Pages |-> IF p \in region THEN h ELSE content[p]]
    BY DEF WithPages, region
  <2>3. QED
    BY <1>8, <1>9, <2>1, <2>2 DEF Typed
<1>11. ArenaInv'
  <2>1. \A p \in Guards(pools[k].slots[i])' : pools'[k].slots[i].kept \/ prot[p] = "none"
    <3>1. ASSUME NEW p \in Guards(pools[k].slots[i])'
          PROVE  prot[p] = "none"
      <4>1. platform = "elf" /\ p \in Whole(s)
        <5>1. Whole(pools[k].slots[i])' = Whole(s)
          BY <1>2, <1>5 DEF Whole
        <5>2. QED
          BY <3>1, <5>1 DEF Guards
      <4>2. s.usable = 0 /\ ~s.kept
        BY DEF ArenaInv, SlotsAreGuarded
      <4>3. Span(s.begin, s.usable) = {}
        BY <1>1, <4>2 DEF Span
      <4>4. p \in Guards(s)
        BY <4>1, <4>3 DEF Guards
      <4>5. QED
        BY <4>2, <4>4 DEF ArenaInv, SlotsAreGuarded
    <3>2. QED
      BY <3>1
  <2>2. /\ pools'[k].slots[i].active /\ pools'[k].slots[i].usable \in Nat
        /\ region = Span(pools'[k].slots[i].begin, pools'[k].slots[i].usable)
    BY <1>2, <1>5, <1>6
  <2>3. \A p \in region : prot'[p] \notin {"free", "none"}
    BY <1>10
  <2>4. QED
    BY <1>5, <1>10, <2>1, <2>2, <2>3, SlotWrite
<1>12. handles' \in [Handles -> Handle] /\ HandlesInv' /\ EntriesInv'
  <2>1. ASSUME NEW g \in Held \cup Ended
        PROVE  \A p \in Memory(g) : p \in Pages \ region
    <3>1. Memory(g) \subseteq Pages
      BY DEF HandlesInv, MemoryKept
    <3>2. CASE g \in Held
      <4>1. g \in Handles /\ InSlot(g)
        BY <3>2 DEF HandlesInv, Held
      <4>2. PICK l \in 1..Len(pools) : \E j \in 1..Len(pools[l].slots) :
              pools[l].slots[j].active /\ Memory(g) \subseteq Whole(pools[l].slots[j])
        BY <4>1, HeldSlot DEF ArenaInv
      <4>3. PICK j \in 1..Len(pools[l].slots) :
              pools[l].slots[j].active /\ Memory(g) \subseteq Whole(pools[l].slots[j])
        BY <4>2
      <4>4. l # k \/ j # i
        BY <4>3
      <4>5. Whole(pools[l].slots[j]) \cap Whole(s) = {}
        BY <4>4, SlotsAreDisjoint DEF ArenaInv
      <4>6. QED
        BY <1>6, <3>1, <4>3, <4>5
    <3>3. CASE g \in Ended
      BY <1>8, <3>1, <3>3 DEF HandlesInv, OutsidePools
    <3>4. QED
      BY <3>2, <3>3
  <2>2. \A g \in Held \cup Ended : \A p \in Memory(g) :
          prot'[p] = prot[p] /\ content'[p] = content[p]
    BY <1>10, <2>1
  <2>3. \E l \in 1..Len(pools') : \E j \in 1..Len(pools'[l].slots) :
          /\ pools'[l].slots[j].active /\ pools'[l].slots[j].begin = begin
          /\ pools'[l].slots[j].usable = span
    <3>1. k \in 1..Len(pools') /\ i \in 1..Len(pools'[k].slots)
      BY <1>5 DEF SameArena
    <3>2. /\ pools'[k].slots[i].active /\ pools'[k].slots[i].begin = begin
          /\ pools'[k].slots[i].usable = span
      BY <1>2, <1>5
    <3>3. QED
      BY <3>1, <3>2
  <2>4. \A l \in 1..Len(pools) : \A j \in 1..Len(pools[l].slots) :
          pools[l].slots[j].active =>
            /\ l \in 1..Len(pools') /\ j \in 1..Len(pools'[l].slots)
            /\ pools'[l].slots[j] = pools[l].slots[j]
    BY <1>5 DEF SameArena
  <2>5. \A g \in Ended : \A l \in 1..Len(pools') :
          Memory(g) \cap Span(pools'[l].begin, pools'[l].end - pools'[l].begin) = {}
    <3>1. \A l \in 1..Len(pools') :
            /\ l \in 1..Len(pools)
            /\ Span(pools'[l].begin, pools'[l].end - pools'[l].begin) = PoolPages(l)
      BY <1>5 DEF SameArena, PoolPages
    <3>2. QED
      BY <3>1 DEF HandlesInv, OutsidePools
  <2>6. /\ begin \in Nat /\ Span(begin, span) \subseteq Pages
        /\ \A p \in Span(begin, span) : prot'[p] = "rw" /\ content'[p] = h
    BY <1>1, <1>8, <1>10 DEF region
  <2>7. GivenApart(h, begin, span)
    BY <2>2, <2>3, <2>4, <2>5, <2>6 DEF GivenApart
  <2>8. QED
    BY <2>7, GivenHandle
<1>13. Typed'
  BY <1>5, <1>10, <1>12
     DEF Typed, SameArena, Platforms, Pages, Protections, Handles, Handle, PoolRecord, SlotRecord
<1>14. QED
  BY <1>11, <1>12, <1>13

\* A slot is cut from the unused end of a pool.
LEMMA ExtendPool ==
  ASSUME IInv, NEW kind \in {"code", "state"}, NEW span \in Nat \ {0}, NEW h \in NextHandle,
         NEW k \in 1..Len(pools), NEW place, place[1] = k, ~IsSlot(place),
         NEW begin, begin = pools[k].cursor,
         pools[k].cursor + Extent(span) <= pools[k].end,
         pools' = TakeSlot(place, span),
         prot' = WithPages(Span(begin, span), "rw"),
         content' = [p \in Pages |-> IF p \in Span(begin, span) THEN h ELSE content[p]],
         Give(h, kind, begin, span), UNCHANGED <<platform, target, saved, unwind>>
  PROVE  IInv'
<1> USE DEF IInv
<1> DEFINE x == Extent(span)
           n == Len(pools[k].slots)
           pb == pools[k].begin
           pe == pools[k].end
           t == [begin |-> begin, usable |-> span, extent |-> x, active |-> TRUE,
                 kept |-> FALSE, executable |-> FALSE]
           new == [begin |-> pb, end |-> pe, cursor |-> begin + x,
                   slots |-> Append(pools[k].slots, t)]
           region == Span(begin, span)
           tail == Span(begin, pe - begin)
<1>1. /\ pb \in Nat /\ pe \in Nat /\ begin \in Nat /\ n \in Nat
      /\ pools[k] \in PoolRecord /\ pools[k].slots \in Seq(SlotRecord)
  BY PoolTypes
<1>2. x \in Nat /\ span <= x
  BY ExtentBounds
<1>3. PoolInv(pools[k]) /\ pb <= begin /\ begin + x <= pe /\ pe <= LastPage + 1
  BY DEF ArenaInv, PoolsInOrder, PoolInv
<1>4. pools' = [pools EXCEPT ![k] = new]
  BY DEF TakeSlot, Extended, Slot
<1> HIDE DEF x
<1>5. /\ t \in SlotRecord /\ t.begin = begin /\ t.usable = span /\ t.extent = x
      /\ t.active /\ ~t.kept
  BY <1>1, <1>2 DEF SlotRecord
<1> HIDE DEF t
<1>6. /\ Append(pools[k].slots, t) \in Seq(SlotRecord)
      /\ Len(Append(pools[k].slots, t)) = n + 1
      /\ Append(pools[k].slots, t)[n + 1] = t
      /\ \A i \in 1..n : Append(pools[k].slots, t)[i] = pools[k].slots[i]
  BY <1>1, <1>5
<1>7. /\ new \in PoolRecord /\ new.begin = pb /\ new.end = pe /\ new.cursor = begin + x
      /\ new.slots = Append(pools[k].slots, t)
  BY <1>1, <1>2, <1>6 DEF PoolRecord
<1> HIDE DEF new
<1>8. /\ pools' \in Seq(PoolRecord) /\ Len(pools') = Len(pools) /\ pools'[k] = new
      /\ \A l \in 1..Len(pools) : l # k => pools'[l] = pools[l]
  <2>1. pools \in Seq(PoolRecord)
    BY DEF Typed
  <2>2. [pools EXCEPT ![k] = new] \in Seq(PoolRecord) /\ Len([pools EXCEPT ![k] = new]) = Len(pools)
    BY <1>7, <2>1, ExceptSeq
  <2>3. \A l \in 1..Len(pools) : [pools EXCEPT ![k] = new][l] = IF l = k THEN new ELSE pools[l]
    BY <2>1
  <2>4. QED
    BY <1>4, <2>2, <2>3
<1>9. /\ Len(new.slots) = n + 1 /\ 1..Len(new.slots) = 1..n \cup {n + 1} /\ n + 1 \notin 1..n
      /\ new.slots[n + 1] = t /\ \A i \in 1..n : new.slots[i] = pools[k].slots[i]
  <2>1. 1..(n + 1) = 1..n \cup {n + 1} /\ n + 1 \notin 1..n
    <3> HIDE DEF n
    <3>1. QED
      BY <1>1
  <2>2. QED
    BY <1>6, <1>7, <2>1
<1>10. /\ region \subseteq tail /\ Span(begin, x) \subseteq tail /\ region \subseteq Span(begin, x)
       /\ \A p \in Span(begin + x, pe - (begin + x)) : p \in tail /\ p \notin region
  <2> HIDE DEF pe
  <2>1. begin \in Nat /\ pe \in Nat /\ x \in Nat /\ span \in Nat /\ span <= x /\ begin + x <= pe
    BY <1>1, <1>2, <1>3
  <2>2. /\ Span(begin, span) \subseteq Span(begin, pe - begin)
        /\ Span(begin, x) \subseteq Span(begin, pe - begin)
        /\ Span(begin, span) \subseteq Span(begin, x)
        /\ \A p \in Span(begin + x, pe - (begin + x)) :
             p \in Span(begin, pe - begin) /\ p \notin Span(begin, span)
    BY ONLY <2>1, SpanCut
  <2>3. QED
    BY <2>2 DEF region, tail
<1>11. tail \subseteq PoolPages(k) /\ \A p \in tail : prot[p] = "none"
  BY TailInPool DEF ArenaInv, TailsAreBare
<1>12. \A l \in 1..Len(pools) : \A p \in PoolPages(l) : p \in Pages /\ p \notin ProgramPages
  BY DEF ArenaInv, PoolsAreApart
<1>13. h \in 0..MaxHandles
  BY BoundsAreNaturals DEF NextHandle, Handles
<1> HIDE DEF region, tail
<1>14. /\ prot' \in [Pages -> Protections] /\ content' \in [Pages -> 0..MaxHandles]
       /\ \A p \in Pages \ region : prot'[p] = prot[p] /\ content'[p] = content[p]
       /\ \A p \in region : p \in Pages /\ prot'[p] = "rw" /\ content'[p] = h
  <2>1. "rw" \in Protections /\ region \subseteq Pages
    BY <1>10, <1>11, <1>12 DEF Protections
  <2>2. /\ prot' = [p \in Pages |-> IF p \in region THEN "rw" ELSE prot[p]]
        /\ content' = [p \in Pages |-> IF p \in region THEN h ELSE content[p]]
    BY DEF WithPages, region
  <2>3. QED
    BY <1>13, <2>1, <2>2 DEF Typed
\* The slots there were have none of these pages.
<1>15. ASSUME NEW l \in 1..Len(pools), NEW i \in 1..Len(pools[l].slots)
       PROVE  \A p \in Whole(pools[l].slots[i]) : p \in Pages /\ p \notin tail
  <2>1. CASE l = k
    <3>1. \A p \in Whole(pools[l].slots[i]) : p < begin
      BY <2>1, SlotsInPools DEF ArenaInv
    <3>2. \A p \in tail : p \in Nat /\ begin <= p
      BY <1>1 DEF tail, Span
    <3>3. Whole(pools[l].slots[i]) \subseteq Pages
      BY <1>12, SlotsInPools DEF ArenaInv
    <3>4. QED
      BY <1>1, <3>1, <3>2, <3>3
  <2>2. CASE l # k
    <3>1. PoolPages(l) \cap PoolPages(k) = {}
      BY <2>2 DEF ArenaInv, PoolsAreApart
    <3>2. Whole(pools[l].slots[i]) \subseteq PoolPages(l)
      BY SlotsInPools DEF ArenaInv
    <3>3. QED
      BY <1>11, <1>12, <3>1, <3>2
  <2>3. QED
    BY <2>1, <2>2
<1> DEFINE Mapped(l) == Span(pools'[l].begin, pools'[l].end - pools'[l].begin)
<1>16. \A l \in 1..Len(pools) : Mapped(l) = PoolPages(l)
  BY <1>7, <1>8 DEF PoolPages
<1> HIDE DEF Mapped
<1>17. PoolsInOrder'
  <2>1. PoolInv(new)
    <3>1. new.begin <= new.cursor /\ new.cursor <= new.end /\ new.end <= LastPage + 1
      <4> HIDE DEF pb, pe
      <4>1. QED
        BY <1>1, <1>2, <1>3, <1>7
    <3>2. ASSUME NEW i \in 1..n
          PROVE  /\ pb <= pools[k].slots[i].begin
                 /\ pools[k].slots[i].begin + pools[k].slots[i].extent <= begin
                 /\ pools[k].slots[i].begin + pools[k].slots[i].extent <= begin + x
                 /\ 0 < pools[k].slots[i].extent
                 /\ pools[k].slots[i].usable <= pools[k].slots[i].extent
      <4> DEFINE last == pools[k].slots[i].begin + pools[k].slots[i].extent
      <4>1. /\ pb <= pools[k].slots[i].begin /\ last <= begin
            /\ 0 < pools[k].slots[i].extent
            /\ pools[k].slots[i].usable <= pools[k].slots[i].extent
        BY <1>3 DEF PoolInv
      <4>2. last \in Nat
        BY PoolTypes
      <4> HIDE DEF last
      <4>3. last <= begin + x
        BY <1>1, <1>2, <4>1, <4>2
      <4>4. QED
        BY <4>1, <4>3 DEF last
    <3>3. /\ pb <= t.begin /\ t.begin + t.extent <= begin + x
          /\ 0 < t.extent /\ t.usable <= t.extent
      <4> HIDE DEF pb
      <4>1. pb <= begin /\ begin + x <= begin + x /\ 0 < x /\ span <= x
        BY <1>1, <1>2, <1>3
      <4>2. QED
        BY <1>5, <4>1
    <3>4. \A i \in 1..Len(new.slots) :
            /\ new.begin <= new.slots[i].begin
            /\ new.slots[i].begin + new.slots[i].extent <= new.cursor
            /\ 0 < new.slots[i].extent /\ new.slots[i].usable <= new.slots[i].extent
      BY <1>7, <1>9, <3>2, <3>3
    <3>5. \A i, j \in 1..n : i < j =>
            pools[k].slots[i].begin + pools[k].slots[i].extent <= pools[k].slots[j].begin
      BY <1>3 DEF PoolInv
    <3>6. \A i, j \in 1..Len(new.slots) : i < j =>
            new.slots[i].begin + new.slots[i].extent <= new.slots[j].begin
      <4>1. SUFFICES ASSUME NEW i \in 1..Len(new.slots), NEW j \in 1..Len(new.slots), i < j
                     PROVE  new.slots[i].begin + new.slots[i].extent <= new.slots[j].begin
        OBVIOUS
      <4>2. i \in 1..n
        <5> HIDE DEF n
        <5>1. i \in 1..(n + 1) /\ j \in 1..(n + 1)
          BY <1>9, <4>1
        <5>2. QED
          BY <1>1, <4>1, <5>1
      <4>3. CASE j \in 1..n
        BY <1>9, <3>5, <4>1, <4>2, <4>3
      <4>4. CASE j = n + 1
        BY <1>5, <1>9, <3>2, <4>2, <4>4
      <4>5. QED
        BY <1>9, <4>3, <4>4
    <3>7. QED
      BY <3>1, <3>4, <3>6 DEF PoolInv
  <2>2. \A l \in 1..Len(pools') : PoolInv(pools'[l])
    BY <1>8, <2>1 DEF ArenaInv, PoolsInOrder
  <2>3. QED
    BY <2>2 DEF PoolsInOrder, PoolInv
<1>18. PoolsAreApart'
  <2>1. \A l, m \in 1..Len(pools) : l # m => PoolPages(l) \cap PoolPages(m) = {}
    BY DEF ArenaInv, PoolsAreApart
  <2>2. \A l \in 1..Len(pools) : \A p \in PoolPages(l) : prot'[p] # "free"
    BY <1>12, <1>14 DEF ArenaInv, PoolsAreApart
  <2>3. ProgramPages' = ProgramPages /\ Pages' = Pages
    BY DEF ProgramPages, Pages
  <2>4. /\ \A l, m \in 1..Len(pools') : l # m => Mapped(l) \cap Mapped(m) = {}
        /\ \A l \in 1..Len(pools') : \A p \in Mapped(l) :
             p \in Pages /\ prot'[p] # "free" /\ p \notin ProgramPages
    BY <1>8, <1>12, <1>16, <2>1, <2>2
  <2>5. QED
    BY <2>3, <2>4 DEF PoolsAreApart, PoolPages, Mapped
<1>19. TailsAreBare'
  <2>1. \A p \in Span(new.cursor, new.end - new.cursor) : prot'[p] = "none"
    BY <1>7, <1>10, <1>11, <1>12, <1>14
  <2>2. ASSUME NEW l \in 1..Len(pools), l # k,
               NEW p \in Span(pools[l].cursor, pools[l].end - pools[l].cursor)
        PROVE  prot'[p] = "none"
    <3>1. p \in PoolPages(l) /\ prot[p] = "none"
      BY TailInPool DEF ArenaInv, TailsAreBare
    <3>2. PoolPages(l) \cap PoolPages(k) = {}
      BY <2>2 DEF ArenaInv, PoolsAreApart
    <3>3. p \in Pages \ region
      BY <1>10, <1>11, <1>12, <3>1, <3>2
    <3>4. QED
      BY <1>14, <3>1, <3>3
  <2>3. QED
    BY <1>8, <2>1, <2>2 DEF TailsAreBare
<1>20. SlotsAreGuarded'
  <2>1. ASSUME NEW l \in 1..Len(pools), NEW i \in 1..Len(pools[l].slots)
        PROVE  /\ ~pools[l].slots[i].active =>
                    pools[l].slots[i].usable = 0 /\ ~pools[l].slots[i].kept
               /\ \A p \in Guards(pools[l].slots[i]) :
                    pools[l].slots[i].kept \/ prot'[p] = "none"
    <3>1. \A p \in Guards(pools[l].slots[i]) : p \in Pages \ region
      BY <1>10, <1>15 DEF Guards
    <3>2. /\ ~pools[l].slots[i].active =>
               pools[l].slots[i].usable = 0 /\ ~pools[l].slots[i].kept
          /\ \A p \in Guards(pools[l].slots[i]) :
               pools[l].slots[i].kept \/ prot[p] = "none"
      BY DEF ArenaInv, SlotsAreGuarded
    <3>3. QED
      BY <1>14, <3>1, <3>2
  <2>2. \A p \in Guards(t) : prot'[p] = "none"
    <3>1. \A p \in Guards(t) : p \in tail /\ p \notin region
      BY <1>5, <1>10 DEF Guards, Whole, region
    <3>2. QED
      BY <1>11, <1>12, <1>14, <3>1
  <2>3. \A s : Guards(s)' = Guards(s)
    BY DEF Guards, Whole
  <2>4. ASSUME NEW l \in 1..Len(pools'), NEW i \in 1..Len(pools'[l].slots)
        PROVE  /\ ~pools'[l].slots[i].active =>
                    pools'[l].slots[i].usable = 0 /\ ~pools'[l].slots[i].kept
               /\ \A p \in Guards(pools'[l].slots[i]) :
                    pools'[l].slots[i].kept \/ prot'[p] = "none"
    <3>1. CASE l # k
      BY <1>8, <2>1, <3>1
    <3>2. CASE l = k /\ i \in 1..n
      <4>1. pools'[l].slots[i] = pools[k].slots[i]
        BY <1>8, <1>9, <3>2
      <4>2. QED
        BY <2>1, <3>2, <4>1
    <3>3. CASE l = k /\ i = n + 1
      <4>1. pools'[l].slots[i] = t
        BY <1>8, <1>9, <3>3
      <4>2. QED
        BY <1>5, <2>2, <4>1
    <3>4. QED
      BY <1>8, <1>9, <3>1, <3>2, <3>3
  <2>5. QED
    BY <2>3, <2>4 DEF SlotsAreGuarded, Guards, Whole
<1>21. ProgramIsKept'
  <2>1. \A p \in ProgramPages : p \in Pages \ region
    BY <1>10, <1>11, <1>12 DEF ProgramPages
  <2>2. ProgramPages' = ProgramPages
    BY DEF ProgramPages, Pages
  <2>3. QED
    BY <1>14, <2>1, <2>2 DEF ArenaInv, ProgramIsKept
<1>22. handles' \in [Handles -> Handle] /\ HandlesInv' /\ EntriesInv'
  <2>1. ASSUME NEW g \in Held \cup Ended
        PROVE  \A p \in Memory(g) : p \in Pages \ region
    <3>1. Memory(g) \subseteq Pages
      BY DEF HandlesInv, MemoryKept
    <3>2. CASE g \in Held
      <4>1. g \in Handles /\ InSlot(g)
        BY <3>2 DEF HandlesInv, Held
      <4>2. PICK l \in 1..Len(pools) : \E j \in 1..Len(pools[l].slots) :
              Memory(g) \subseteq Whole(pools[l].slots[j])
        BY <4>1, HeldSlot DEF ArenaInv
      <4>3. QED
        BY <1>10, <1>15, <4>2
    <3>3. CASE g \in Ended
      BY <1>10, <1>11, <3>1, <3>3 DEF HandlesInv, OutsidePools
    <3>4. QED
      BY <3>2, <3>3
  <2>2. \A g \in Held \cup Ended : \A p \in Memory(g) :
          prot'[p] = prot[p] /\ content'[p] = content[p]
    BY <1>14, <2>1
  <2>3. \E l \in 1..Len(pools') : \E j \in 1..Len(pools'[l].slots) :
          /\ pools'[l].slots[j].active /\ pools'[l].slots[j].begin = begin
          /\ pools'[l].slots[j].usable = span
    <3>1. k \in 1..Len(pools') /\ n + 1 \in 1..Len(pools'[k].slots) /\ pools'[k].slots[n + 1] = t
      BY <1>8, <1>9
    <3>2. QED
      BY <1>5, <3>1
  <2>4. \A l \in 1..Len(pools) : \A j \in 1..Len(pools[l].slots) :
          pools[l].slots[j].active =>
            /\ l \in 1..Len(pools') /\ j \in 1..Len(pools'[l].slots)
            /\ pools'[l].slots[j] = pools[l].slots[j]
    BY <1>8, <1>9
  <2>5. \A g \in Ended : \A l \in 1..Len(pools') : Memory(g) \cap Mapped(l) = {}
    BY <1>8, <1>16 DEF HandlesInv, OutsidePools
  <2>6. /\ begin \in Nat /\ Span(begin, span) \subseteq Pages
        /\ \A p \in Span(begin, span) : prot'[p] = "rw" /\ content'[p] = h
    BY <1>1, <1>14 DEF region
  <2>7. \A g \in Ended : \A l \in 1..Len(pools') :
          Memory(g) \cap Span(pools'[l].begin, pools'[l].end - pools'[l].begin) = {}
    BY <2>5 DEF Mapped
  <2>8. GivenApart(h, begin, span)
    BY <2>2, <2>3, <2>4, <2>6, <2>7 DEF GivenApart
  <2>9. QED
    BY <2>8, GivenHandle
<1>23. Typed'
  BY <1>8, <1>14, <1>22
     DEF Typed, Platforms, Pages, Protections, Handles, Handle, PoolRecord, SlotRecord
<1>24. QED
  BY <1>17, <1>18, <1>19, <1>20, <1>21, <1>22, <1>23 DEF ArenaInv

-----------------------------------------------------------------------------
(* The theorems. *)

LEMMA ReserveStep ==
  ASSUME IInv, NEW kind \in {"code", "state"}, NEW e \in Entries, NEW span \in Nat \ {0},
         Reserve(kind, e, span)
  PROVE  IInv'
<1>1. PICK h \in NextHandle : ReserveInPool(h, kind, e, span) \/ ReserveNewPool(h, kind, e, span)
  BY DEF Reserve
<1>2. UNCHANGED <<platform, target, saved, unwind>>
  BY DEF Reserve
<1>3. CASE ReserveNewPool(h, kind, e, span)
  BY <1>2, <1>3, ReserveNewPoolStep
<1>4. CASE ReserveInPool(h, kind, e, span)
  <2>1. PICK place \in Places :
          LET begin == IF IsSlot(place) THEN SlotAt(place).begin ELSE pools[place[1]].cursor
          IN /\ Fits(place, span, EntryPage[e])
             /\ pools' = TakeSlot(place, span)
             /\ prot' = WithPages(Span(begin, span), "rw")
             /\ content' = [p \in Pages |-> IF p \in Span(begin, span) THEN h ELSE content[p]]
             /\ Give(h, kind, begin, span)
    BY <1>4 DEF ReserveInPool
  <2>2. PICK k \in 1..Len(pools) : place \in {k} \X (1..(Len(pools[k].slots) + 1))
    BY DEF Places
  <2>3. place[1] = k /\ place = <<k, place[2]>> /\ place[2] \in 1..(Len(pools[k].slots) + 1)
    BY <2>2
  <2>4. CASE IsSlot(place)
    <3>1. PICK i \in 1..Len(pools[k].slots) : place = <<k, i>> /\ SlotAt(place) = pools[k].slots[i]
      <4>1. place[2] \in 1..Len(pools[k].slots)
        BY <2>3, <2>4, PoolTypes DEF IsSlot, IInv
      <4>2. QED
        BY <2>3, <4>1 DEF SlotAt
    <3>2. ~pools[k].slots[i].active /\ Extent(span) <= pools[k].slots[i].extent
      BY <2>1, <2>4, <3>1 DEF Fits, Reusable
    <3>3. QED
      BY <1>2, <2>1, <2>4, <3>1, <3>2, ReuseSlot
  <2>5. CASE ~IsSlot(place)
    <3>1. pools[k].cursor + Extent(span) <= pools[k].end
      BY <2>1, <2>3, <2>5 DEF Fits, FitsAtEnd
    <3>2. QED
      BY <1>2, <2>1, <2>3, <2>5, <3>1, ExtendPool
  <2>6. QED
    BY <2>4, <2>5
<1>5. QED
  BY <1>1, <1>3, <1>4

LEMMA InitIInv == Init => IInv
<1> SUFFICES ASSUME Init
             PROVE  IInv
  OBVIOUS
<1>1. PICK behind \in AfterText :
        prot = [p \in Pages |-> IF p \in TextPages THEN "rx" ELSE
                                IF p - 1 \in TextPages THEN behind ELSE "free"]
  BY DEF Init
<1>2. /\ content = [p \in Pages |-> 0] /\ pools = <<>> /\ handles = [h \in Handles |-> NoHandle]
      /\ target = [e \in Entries |-> 0] /\ saved = <<>> /\ unwind = {} /\ platform \in Platforms
  BY DEF Init
<1>3. behind \in Protections /\ behind \notin {"free", "none"}
  BY TextIsFollowed DEF Protections
<1>4. pools \in Seq(PoolRecord) /\ 1..Len(pools) = {} /\ DOMAIN saved = {}
  BY <1>2
<1>5. NoHandle \in Handle /\ NoHandle.phase = "unused"
  <2>1. 0 \in Pages
    BY BoundsAreNaturals DEF Pages
  <2>2. QED
    BY <2>1 DEF NoHandle, Handle, Phases
<1>6. Typed
  <2>1. 0 \in 0..MaxHandles
    BY BoundsAreNaturals
  <2>2. QED
    BY <1>1, <1>2, <1>3, <1>4, <1>5, <2>1 DEF Typed, Protections
<1>7. ArenaInv
  <2>1. ProgramIsKept
    BY <1>1, <1>2, <1>3 DEF ProgramIsKept, ProgramPages
  <2>2. QED
    BY <1>4, <2>1 DEF ArenaInv, PoolsInOrder, PoolsAreApart, TailsAreBare, SlotsAreGuarded
<1>8. HandlesInv
  BY <1>2, <1>5 DEF HandlesInv, Held, Ended
<1>9. EntriesInv
  BY <1>2, <1>4 DEF EntriesInv, EntriesLand, SavedLand, UnwindLands
<1>10. QED
  BY <1>6, <1>7, <1>8, <1>9 DEF IInv

LEMMA NextIInv == IInv /\ [Next]_vars => IInv'
<1> SUFFICES ASSUME IInv, [Next]_vars
             PROVE  IInv'
  OBVIOUS
<1>1. ASSUME NEW request \in Requests, NEW e \in Hints, Reserve(request[1], e, request[2])
      PROVE  IInv'
  <2>1. request[1] \in {"code", "state"} /\ request[2] \in Nat \ {0} /\ e \in Entries
    BY SizesArePositive
  <2>2. QED
    BY <1>1, <2>1, ReserveStep
<1>2. ASSUME NEW h \in Handles, CommitCode(h)
      PROVE  IInv'
  BY <1>2, CommitCodeStep
<1>3. ASSUME NEW h \in Handles, NEW p \in Span(handles[h].begin, handles[h].span),
             RewriteReservation(h, p)
      PROVE  IInv'
  BY <1>3, RewriteReservationStep DEF Memory
<1>4. CASE Drop
  BY <1>4, DropStep
<1>5. ASSUME NEW e \in Entries, NEW h \in Handles, PatchEntry(e, h)
      PROVE  IInv'
  BY <1>5, PatchEntryStep
<1>6. CASE Publish
  BY <1>6, PublishStep
<1>7. ASSUME NEW e \in Entries, NEW p \in WrittenPages(e), NEW lost \in SUBSET DOMAIN saved,
             RollBack(e, p, lost)
      PROVE  IInv'
  BY <1>7, RollBackStep
<1>8. CASE EndSession
  BY <1>8, EndSessionStep
<1>9. CASE UNCHANGED vars
  <2>1. UNCHANGED <<platform, prot, content, pools, handles, target, saved, unwind>>
    BY <1>9 DEF vars
  <2>2. Typed'
    BY <2>1 DEF IInv, Typed, Platforms, Pages, Protections, Handles, Handle, PoolRecord, SlotRecord
  <2>3. ArenaInv'
    <3>1. ProgramWritten(prot')
      BY <2>1 DEF ProgramWritten, IInv, Typed, ArenaInv, ProgramIsKept
    <3>2. QED
      BY <2>1, <3>1, ProgramWrite DEF IInv
  <2>4. HandlesInv'
    <3>1. Held' = Held /\ Ended' = Ended /\ Held \subseteq Handles /\ Ended \subseteq Handles
      BY <2>1 DEF Held, Ended
    <3>2. \A h \in Handles : MemoryKept(h) => MemoryKept(h)'
      BY <2>1, MemoryFrame DEF Linkable
    <3>3. QED
      BY <2>1, <3>1, <3>2, HandlesFrame DEF HandlesInv, IInv
  <2>5. EntriesInv'
    BY <2>1 DEF IInv, EntriesInv, EntriesLand, SavedLand, UnwindLands, Stays, IsCode, Linkable, Handles
  <2>6. QED
    BY <2>2, <2>3, <2>4, <2>5 DEF IInv
<1>10. QED
  BY <1>1, <1>2, <1>3, <1>4, <1>5, <1>6, <1>7, <1>8, <1>9 DEF Next

LEMMA Invariance == Spec => []IInv
BY InitIInv, NextIInv, PTL DEF Spec

\* Every variable keeps its type, and no cursor passes the end of its pool.
THEOREM TypeCorrect == Spec => []TypeOK
<1>1. IInv => TypeOK
  BY DEF IInv, Typed, TypeOK, ArenaInv, PoolsInOrder, PoolInv
<1>2. QED
  BY <1>1, Invariance, PTL

\* Slots lie inside their pools and apart from each other, Linux keeps a page
\* without access behind each, and no page of the program is ever taken.
THEOREM SlotsAreApartAlways == Spec => []SlotsAreApart
<1>1. ASSUME IInv
      PROVE  SlotsAreApart
  <2> USE <1>1 DEF IInv, ArenaInv
  <2>1. ASSUME NEW a \in Slots, NEW b \in Slots, a # b
        PROVE  Whole(SlotAt(a)) \cap Whole(SlotAt(b)) = {}
    <3>1. PICK k \in 1..Len(pools) : \E i \in 1..Len(pools[k].slots) :
            a = <<k, i>> /\ SlotAt(a) = pools[k].slots[i]
      BY SlotPlaces
    <3>2. PICK i \in 1..Len(pools[k].slots) : a = <<k, i>> /\ SlotAt(a) = pools[k].slots[i]
      BY <3>1
    <3>3. PICK l \in 1..Len(pools) : \E j \in 1..Len(pools[l].slots) :
            b = <<l, j>> /\ SlotAt(b) = pools[l].slots[j]
      BY SlotPlaces
    <3>4. PICK j \in 1..Len(pools[l].slots) : b = <<l, j>> /\ SlotAt(b) = pools[l].slots[j]
      BY <3>3
    <3>5. k # l \/ i # j
      BY <2>1, <3>2, <3>4
    <3>6. QED
      BY <3>2, <3>4, <3>5, SlotsAreDisjoint
  <2>2. ASSUME NEW a \in Slots
        PROVE  /\ Whole(SlotAt(a)) \subseteq PoolPages(a[1])
               /\ SlotAt(a).usable <= SlotAt(a).extent
               /\ \A p \in Guards(SlotAt(a)) : SlotAt(a).kept \/ prot[p] = "none"
    <3>1. PICK k \in 1..Len(pools) : \E i \in 1..Len(pools[k].slots) :
            a = <<k, i>> /\ SlotAt(a) = pools[k].slots[i]
      BY SlotPlaces
    <3>2. PICK i \in 1..Len(pools[k].slots) : a = <<k, i>> /\ SlotAt(a) = pools[k].slots[i]
      BY <3>1
    <3>3. Whole(pools[k].slots[i]) \subseteq PoolPages(k)
      BY SlotsInPools
    <3>4. pools[k].slots[i].usable <= pools[k].slots[i].extent
      BY DEF PoolsInOrder, PoolInv
    <3>5. \A p \in Guards(pools[k].slots[i]) : pools[k].slots[i].kept \/ prot[p] = "none"
      BY DEF SlotsAreGuarded
    <3>6. QED
      BY <3>2, <3>3, <3>4, <3>5
  <2>3. QED
    BY <2>1, <2>2 DEF SlotsAreApart, ProgramIsKept
<1>2. QED
  BY <1>1, Invariance, PTL

\* The memory of a committed generation is never given out again, and its
\* globals stay writable, during its session and after.
THEOREM LiveMemoryIsKeptAlways == Spec => []LiveMemoryIsKept
<1>1. IInv => LiveMemoryIsKept
  BY DEF IInv, LiveMemoryIsKept, HandlesInv, MemoryKept, Memory, Held, Ended
<1>2. QED
  BY <1>1, Invariance, PTL

\* An entry that was redirected jumps into executable code that is still
\* there, and so does what was registered for unwinding.
THEOREM RedirectsLandAlways == Spec => []RedirectsLand
<1>1. ASSUME IInv
      PROVE  RedirectsLand
  <2>1. ASSUME NEW h, IsCode(h)
        PROVE  Holds(h) /\ \A p \in Span(handles[h].begin, handles[h].span) : prot[p] \in Executable
    BY <1>1, <2>1 DEF IInv, IsCode, HandlesInv, MemoryKept, Memory, Held, Ended, Linkable
  <2>2. \A e \in Entries : target[e] # 0 => IsCode(target[e])
    BY <1>1 DEF IInv, EntriesInv, EntriesLand, Stays
  <2>3. \A h \in unwind : IsCode(h)
    BY <1>1 DEF IInv, EntriesInv, UnwindLands
  <2>4. QED
    BY <2>1, <2>2, <2>3 DEF RedirectsLand
<1>2. QED
  BY <1>1, Invariance, PTL
=============================================================================
