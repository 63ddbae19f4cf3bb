---------------------------- MODULE ObjectLoader ----------------------------
(***************************************************************************)
(* How a fresh object file becomes code of the running process: the ELF    *)
(* loader (src/backends/elf/runtime/loader.cpp), the PE loader             *)
(* (src/backends/pe/runtime/loader.cpp) and the symbol tables they ask.    *)
(* `platform' picks one of them for the whole behaviour; where the two     *)
(* differ the definition says so.                                          *)
(*                                                                         *)
(* Every reference of an object names something: a function or a variable, *)
(* of the whole program or of one translation unit.  The loader works with *)
(* symbol names, sections, offsets and addresses; the properties compare   *)
(* the address a reference ends up with to the thing it names.             *)
(***************************************************************************)
EXTENDS Integers, FiniteSets, SequencesExt

CONSTANTS Owners,     \* the groups and batches that prepare generations
          Units,      \* translation units, by source path
          NoUnit,     \* a source path that was not given
          Programs,   \* the linked programs: sequences of definitions
          Objects,    \* the fresh object files the build produces
          Library,    \* what dlsym finds, outside the reach of a rel32
          SmallEntry, \* functions below this size cannot be patched
          Arena,      \* the first address of fresh memory
          Stride,     \* what one reservation occupies, and
          Reservations, \* how many the arena holds
          MaxImages   \* bound on the images of committed generations

ASSUME UnitsAreNamed == {NoUnit, "external"} \cap Units = {} /\ NoUnit # "external"
ASSUME ArenaIsRoomy == Arena \in Nat /\ Stride \in Nat \ {0} /\ Reservations \in Nat

Kinds == {"function", "object"}
Binds == {"global", "weak", "local"}

\* The running program, in symbol-table order, and what dlsym knows.  `plain':
\* its debug record carries the name that the linker knows it by.  A record of
\* C++ does not: it has the name of the source, the objects the decorated one.
Definition == [kind : Kinds, name : STRING, bind : Binds, unit : Units,
               address : Nat, size : Nat, plain : BOOLEAN]
LibraryEntry == [name : STRING, kind : Kinds, address : Nat]

\* A relocation: a call, the address of a function, a variable by its symbol,
\* or a place in a section; `value' is the offset into the symbol or the
\* section, `trailing' the bytes of an immediate behind the field of a rel32.
Reference == [form : {"call", "address", "symbol", "section"}, name : STRING,
              section : STRING, value : Nat, kind : {"rel32", "abs64"},
              trailing : Nat]

\* An object file, built from the source `unit', with its symbols in order,
\* its data sections, and `traits' a loader may refuse.
Function == [name : STRING, bind : Binds, offset : Nat]
Variable == [name : STRING, bind : Binds, section : STRING, value : Nat, size : Nat]

ASSUME ProgramsAreDefinitions ==
  Programs \subseteq Seq(Definition) /\ Library \subseteq LibraryEntry
ASSUME ObjectsAreWellFormed ==
  \A obj \in Objects :
    /\ obj.unit \in Units \cup {NoUnit}
    /\ obj.functions \in Seq(Function)
    /\ obj.variables \in Seq(Variable)
    /\ \A v \in Range(obj.variables) : obj.sections[v.section] \in [size : Nat, align : Nat]
    \* A symbol is known by its name here, by its index in the file.
    /\ \A x, y \in Range(obj.functions) \cup Range(obj.variables) : x.name = y.name => x = y
    \* The variables of a section lie side by side.
    /\ \A v, w \in Range(obj.variables) :
         v # w /\ v.section = w.section =>
           v.value + v.size <= w.value \/ w.value + w.size <= v.value
    /\ obj.references \subseteq Reference

VARIABLES
  platform,   \* "elf" or "pe"
  program,    \* process_symbols
  manifest,   \* the sources the symbol manifest knows
  home,       \* committed_state_
  candidate,  \* the loaded images of each owner
  linked,     \* the owners whose generation was linked
  live,       \* the images of committed generations
  target      \* where the entries of the program jump: <<entry, body>>

vars == <<platform, program, manifest, home, candidate, linked, live, target>>

-----------------------------------------------------------------------------
(* The symbol tables of the process. *)

External(bind) == bind # "local"

\* The places of a name in the table.  In a PDB they are the records of that kind
\* and, whatever is looked for, the publics, which have a name but no kind.
Records(kind, n) ==
  {i \in DOMAIN program :
     /\ program[i].kind = kind /\ program[i].name = n
     /\ platform = "elf" \/ program[i].plain}
Publics(n) == {i \in DOMAIN program : program[i].name = n /\ External(program[i].bind)}

Named(kind, n) == Records(kind, n) \cup (IF platform = "elf" THEN {} ELSE Publics(n))

\* What the table has there.
Definitions(kind, n) == {program[i] : i \in Named(kind, n)}

\* function_by_name, global_by_name and map_global answer the first one, a
\* record before a public.
First(kind, n) ==
  LET places == IF Records(kind, n) # {} THEN Records(kind, n) ELSE Named(kind, n)
  IN {program[i] : i \in {j \in places : \A k \in places : j <= k}}

\* The size that is answered: a public has none.
SizeOf(kind, d) ==
  IF platform = "elf" \/ (d.plain /\ d.kind = kind) THEN d.size ELSE 0

\* What a name is known in: the whole program, or one translation unit.
Scope(bind, unit) == IF External(bind) THEN "external" ELSE unit

\* process_symbols::function_in_source.  The manifest knows the address of a
\* name in a source; only a file-static function is accepted from it.
FunctionInSource(f, unit) ==
  LET named   == Definitions("function", f.name)
      globals == {d \in named : d.bind = "global"}
  IN IF f.bind = "global"
     THEN {d \in globals : Cardinality(globals) = 1}
     ELSE {d \in named : unit \in manifest /\ d.unit = unit /\ d.bind = "local"}

\* resolve_external on Linux: the one link-visible definition, of the kind
\* that is asked for, or what the dynamic linker knows.
ResolvedElf(n, kinds) ==
  LET found == {d \in Range(program) : d.name = n /\ d.kind \in kinds /\ External(d.bind)}
  IN IF found # {} THEN {[kind |-> d.kind, address |-> d.address] :
                           d \in {e \in found : Cardinality(found) = 1}}
     ELSE {[kind |-> l.kind, address |-> l.address] : l \in {x \in Library : x.name = n}}

\* resolve_external on Windows: the one function of that name, else the one
\* variable.  A public counts as both, so an external variable is found as a
\* function.
ResolvedPe(n) ==
  LET only(kind) == {[kind |-> kind, address |-> d.address] :
                       d \in {e \in Definitions(kind, n) : Cardinality(Named(kind, n)) = 1}}
  IN IF only("function") # {} THEN only("function") ELSE only("object")

Resolved(n, form) ==
  IF platform = "pe" THEN ResolvedPe(n) ELSE
  ResolvedElf(n, IF form = "call" THEN {"function"} ELSE {"function", "object"})

-----------------------------------------------------------------------------
(* Memory of the arena: reservations are found free again when the image    *)
(* that held them is gone.                                                  *)

Images == live \cup UNION {candidate[o] : o \in Owners}

Memory(i) == {i.base} \cup {d.address : d \in i.states}

\* Mistake: the storage of variables goes with the transaction.
CodeOnly == {i.base : i \in Images}

Reserved == UNION {Memory(i) : i \in Images}

Reservation(k) == Arena + (k - 1) * Stride

FreeReservations == {Reservation(j) : j \in 1..Reservations} \ Reserved

\* The k-th free reservation, {} when the arena is exhausted.
Free(k) == {r \in FreeReservations :
              Cardinality({q \in FreeReservations : q < r}) = k - 1}

Far(address) == \E l \in Library : l.address = address

-----------------------------------------------------------------------------
(* Where the mutable variables of an object live. *)

\* state_identity: the link-level name of a variable.
Identity(v, unit) ==
  IF External(v.bind) \/ unit # NoUnit THEN {<<Scope(v.bind, unit), v.name>>} ELSE {}

\* How much storage a variable has.  COFF symbols carry no size: there it is
\* the distance to the next symbol of the section.
Extent(obj, v) ==
  LET after == {w.value : w \in {x \in Range(obj.variables) :
                                   x.section = v.section /\ x.value > v.value}}
      end   == IF after = {} THEN obj.sections[v.section].size
               ELSE CHOOSE e \in after : \A f \in after : e <= f
  IN IF platform = "elf" THEN v.size ELSE end - v.value

\* The storage the process has under that name.
Existing(v) == First("object", v.name)
Committed(v, unit) == {h \in home : h.identity \in Identity(v, unit)}

\* The symbols whose storage this object has to introduce.
Introduced(obj) ==
  {i \in DOMAIN obj.variables :
     Committed(obj.variables[i], obj.unit) = {} /\ Existing(obj.variables[i]) = {}}

\* The place of a variable among them, in symbol order.
Place(obj, v) ==
  LET i == CHOOSE i \in Introduced(obj) : obj.variables[i] = v
  IN Cardinality({j \in Introduced(obj) : j <= i})

\* They get the reservations behind the image.
FreshAddress(obj, v) == CHOOSE a \in Free(1 + Place(obj, v)) : TRUE

\* bind_state: an earlier generation, then the program, then fresh memory.
HomeOf(obj, v) ==
  IF Committed(v, obj.unit) # {} THEN (CHOOSE h \in Committed(v, obj.unit) : TRUE).address ELSE
  IF Existing(v) # {} THEN (CHOOSE d \in Existing(v) : TRUE).address
  ELSE FreshAddress(obj, v)

\* A variable that cannot be bound: its storage is unknown, its layout
\* changed, or nothing identifies it.
Unbindable(obj, v) ==
  LET size  == Extent(obj, v)
      align == obj.sections[v.section].align
      old   == Existing(v)
  IN \/ size = 0 \/ v.value + size > obj.sections[v.section].size
     \/ \E h \in Committed(v, obj.unit) : h.size # size \/ h.align # align
     \/ /\ Committed(v, obj.unit) = {}
        /\ \/ \E d \in old : IF platform = "elf" THEN d.size # size
                             ELSE SizeOf("object", d) # 0 /\ size > SizeOf("object", d)
           \/ old = {} /\ (Identity(v, obj.unit) = {} \/ "overaligned" \in obj.traits)

\* The old addresses of a data section that its variables agree on or not.
Anchors(obj, s) ==
  UNION {{d.address - v.value : d \in Existing(v)} :
           v \in {x \in Range(obj.variables) : x.section = s}}

\* A section-relative access on Linux: it belongs to the variable at its
\* offset, else to the old section.  The offset is what the addend says, so
\* the bytes of a trailing immediate are part of it.
SectionAccess(obj, r) ==
  LET offset == IF r.kind = "rel32" THEN r.value - r.trailing ELSE r.value
      at     == {v \in Range(obj.variables) :
                   v.section = r.section /\ v.value <= offset /\ offset < v.value + v.size}
  IN IF at # {} THEN {HomeOf(obj, v) - v.value + r.value : v \in at}
     ELSE {a + r.value : a \in Anchors(obj, r.section)}

-----------------------------------------------------------------------------
(* References. *)

FunctionOf(obj, n) == {f \in Range(obj.functions) : f.name = n}
VariableOf(obj, n) == {v \in Range(obj.variables) : v.name = n}
Undefined(obj, r) == r.form # "section" /\ FunctionOf(obj, r.name) = {}
                     /\ VariableOf(obj, r.name) = {}

\* What a reference names: <<scope, name>>, its kind, and the offset inside.
Wanted(obj, r) ==
  IF r.form = "section"
  THEN {[thing |-> <<Scope(v.bind, obj.unit), v.name>>, kind |-> "object",
         inner |-> r.value - v.value] :
          v \in {w \in Range(obj.variables) : w.section = r.section
                   /\ w.value <= r.value /\ r.value < w.value + w.size}}
  ELSE {[thing |-> IF \E x \in FunctionOf(obj, r.name) \cup VariableOf(obj, r.name) :
                        ~External(x.bind)
                   THEN <<obj.unit, r.name>> ELSE <<"external", r.name>>,
         kind |-> IF r.form \in {"call", "address"} THEN "function" ELSE "object",
         inner |-> r.value]}

\* A call and, on Windows, every rel32 to an undefined name has a trampoline.
ByTrampoline(obj, r) ==
  Undefined(obj, r) /\ (r.form = "call" \/ (platform = "pe" /\ r.kind = "rel32"))

\* The trampoline slots lie behind the code of an image.
Slot(base) == base + Stride - 1

\* Where a reference to an undefined name leads when x answers for it.  A call
\* jumps on from the slot; what reads a variable there reads the slot.
Outside(obj, base, r, x) ==
  IF ByTrampoline(obj, r) /\ x.kind = "function" /\ r.form = "symbol"
  THEN Slot(base) ELSE x.address + r.value

\* The addresses a reference is given when its object is loaded into `base'.
Reached(obj, base, r) ==
  IF r.form = "section"
  THEN IF platform = "elf" THEN SectionAccess(obj, r) ELSE {}
  ELSE {base + f.offset + r.value : f \in FunctionOf(obj, r.name)}
       \cup {HomeOf(obj, v) + r.value : v \in VariableOf(obj, r.name)}
       \cup {Outside(obj, base, r, x) :
                x \in {y \in Resolved(r.name, r.form) : Undefined(obj, r)}}

\* How it leads there: by a slot, by an offset that an immediate operand has
\* shifted, or by the address alone.
Way(obj, r) ==
  IF ByTrampoline(obj, r) THEN "slot"
  ELSE IF r.form = "section" /\ r.trailing # 0 THEN "shifted" ELSE "address"

\* References that wait for link_generation, with the kind of definition they
\* accept.  An undefined symbol that is not called has no type on Linux; a COFF
\* symbol says that it is a function.
Pending(obj) ==
  {r \in obj.references : Undefined(obj, r) /\ Resolved(r.name, r.form) = {}}
Accepts(obj, r) ==
  IF ByTrampoline(obj, r) \/ (platform = "pe" /\ r.form = "address")
  THEN "function" ELSE "object"

\* A reference that is resolved and cannot be encoded.
Unencodable(obj, base, r) ==
  \/ r \notin Pending(obj) /\ Reached(obj, base, r) = {}
  \/ /\ r.kind = "rel32"
     /\ \E x \in Reached(obj, base, r) : Far(x - r.value)
     /\ ~\E x \in Resolved(r.name, r.form) : ByTrampoline(obj, r) /\ x.kind = "function"

-----------------------------------------------------------------------------
(* Live entries to redirect. *)

\* Mistake: a static function is matched by its name alone.
ReplacedByName(f, unit) == First("function", f.name)

\* The entry a fresh function replaces, if there is one.  Linux asks for the
\* exact source when the name is not unique or is local.
Replaced(f, unit) ==
  LET named == Named("function", f.name)
  IN IF platform = "elf"
     THEN IF Cardinality(named) > 1 \/ f.bind = "local" THEN FunctionInSource(f, unit)
          ELSE Definitions("function", f.name)
     ELSE IF External(f.bind) THEN Definitions("function", f.name) ELSE {}

\* A name live code carries, and nothing says which function it is.
Ambiguous(f, unit) ==
  LET named == Named("function", f.name)
  IN IF platform = "elf"
     THEN named # {} /\ Replaced(f, unit) = {} /\ f.bind # "global"
          /\ unit \notin manifest
     ELSE Cardinality(named) > 1 \/ (named # {} /\ ~External(f.bind))

TooSmall(f, unit) ==
  \E d \in Replaced(f, unit) :
    SizeOf("function", d) # 0 /\ SizeOf("function", d) < SmallEntry

\* The reservation is made near the first live function of the object.
HasHint(obj) ==
  \E f \in Range(obj.functions) :
    LET n == Cardinality(Named("function", f.name))
    IN IF platform = "elf" THEN n > 0 ELSE n = 1

-----------------------------------------------------------------------------
(* load(). *)

\* What each loader refuses before it looks at symbols: thread-local and
\* dynamically initialized state, data sections with relocations, constant
\* tables with relocations (Windows accepts absolute pointers in them).
RefusedTraits ==
  {"tls", "dynamic", "data_relocations", "table_relocations", "got"}
  \cup (IF platform = "elf" THEN {"pointer_table"} ELSE {})

Needed(obj) == 1 + Cardinality(Introduced(obj))

Base(obj) == CHOOSE a \in Free(1) : TRUE

Loadable(obj) ==
  /\ obj.traits \cap RefusedTraits = {}
  /\ HasHint(obj)
  /\ Free(Needed(obj)) # {}
  /\ platform = "elf" => \A s \in DOMAIN obj.sections : Cardinality(Anchors(obj, s)) <= 1
  /\ \A v \in Range(obj.variables) : ~Unbindable(obj, v)
  /\ \A r \in obj.references : ~Unencodable(obj, Base(obj), r)
  /\ \A f \in Range(obj.functions) : ~Ambiguous(f, obj.unit) /\ ~TooSmall(f, obj.unit)

Landed(w, way, address) ==
  [thing |-> w.thing, kind |-> w.kind, inner |-> w.inner, way |-> way, at |-> address]

\* The loaded image: its code, the state it introduces, where it keeps the
\* variables it defines, what it exports to its siblings, what it replaces, and
\* where its references lead.
Image(obj) ==
  LET base == Base(obj)
  IN [unit |-> obj.unit, base |-> base,
      bodies |-> {[thing |-> <<Scope(f.bind, obj.unit), f.name>>,
                   address |-> base + f.offset] : f \in Range(obj.functions)},
      states |-> {[identity |-> CHOOSE id \in Identity(v, obj.unit) : TRUE,
                   address |-> HomeOf(obj, v), size |-> Extent(obj, v),
                   align |-> obj.sections[v.section].align] :
                    v \in {obj.variables[k] : k \in Introduced(obj)}},
      binds |-> UNION {{[identity |-> id, address |-> HomeOf(obj, v)] :
                          id \in Identity(v, obj.unit)} : v \in Range(obj.variables)},
      exports |-> {[name |-> f.name, kind |-> "function", address |-> base + f.offset] :
                     f \in {g \in Range(obj.functions) : External(g.bind)}}
                  \cup {[name |-> v.name, kind |-> "object", address |-> HomeOf(obj, v)] :
                          v \in {w \in Range(obj.variables) : External(w.bind)}},
      replaces |-> UNION {{<<d.address, base + f.offset>> : d \in Replaced(f, obj.unit)} :
                            f \in Range(obj.functions)},
      refs |-> UNION {UNION {{Landed(w, Way(obj, r), a) : a \in Reached(obj, base, r)} :
                               w \in Wanted(obj, r)} : r \in obj.references \ Pending(obj)},
      pending |-> {[name |-> r.name, accepts |-> Accepts(obj, r), inner |-> r.value,
                    way |-> Way(obj, r)] : r \in Pending(obj)}]

\* A rejected generation gives its memory back.
Reject(o) ==
  /\ candidate' = [candidate EXCEPT ![o] = {}]
  /\ linked' = linked \ {o}

\* load(): one more object of the generation, or the generation is rejected.
LoadObject(o, obj) ==
  /\ o \notin linked
  /\ Cardinality(live) < MaxImages
  /\ \A i \in candidate[o] : i.unit # obj.unit
  /\ IF Loadable(obj)
     THEN candidate' = [candidate EXCEPT ![o] = @ \cup {Image(obj)}] /\ linked' = linked
     ELSE Reject(o)
  /\ UNCHANGED <<platform, program, manifest, home, live, target>>

-----------------------------------------------------------------------------
(* link_generation(). *)

Exports(o) == UNION {i.exports : i \in candidate[o]}

\* Two objects define one name, as different kinds or as a variable.
Conflicting(o) ==
  \E i, j \in candidate[o] : i # j /\
    \E x \in i.exports, y \in j.exports :
      x.name = y.name /\ (x.kind # y.kind \/ x.kind = "object")

\* Mistake: a fixup no sibling answers is left alone.
Anything(o, fixup) == TRUE

Answerable(o, fixup) ==
  /\ \E x \in Exports(o) : x.name = fixup.name
  /\ \A x \in Exports(o) : x.name = fixup.name => x.kind = fixup.accepts

\* The placeholder holds address 0.
Answer(o, fixup) ==
  LET named == {x \in Exports(o) : x.name = fixup.name}
  IN Landed([thing |-> <<"external", fixup.name>>, kind |-> fixup.accepts,
             inner |-> fixup.inner], fixup.way,
            fixup.inner + IF named = {} THEN 0 ELSE (CHOOSE x \in named : TRUE).address)

\* Every pending fixup gets the address a sibling exports.
Linked(o, i) ==
  [i EXCEPT !.refs = @ \cup {Answer(o, fixup) : fixup \in i.pending},
            !.pending = {}]

\* validate_generation: no entry is replaced twice.
Overlapping(o) ==
  \E i, j \in candidate[o] : i # j /\
    {p[1] : p \in i.replaces} \cap {p[1] : p \in j.replaces} # {}

LinkGeneration(o) ==
  /\ o \notin linked
  /\ candidate[o] # {}
  /\ IF /\ ~Conflicting(o) /\ ~Overlapping(o)
        /\ \A i \in candidate[o] : \A fixup \in i.pending : Answerable(o, fixup)
     THEN /\ candidate' = [candidate EXCEPT ![o] = {Linked(o, i) : i \in @}]
          /\ linked' = linked \cup {o}
     ELSE Reject(o)
  /\ UNCHANGED <<platform, program, manifest, home, live, target>>

-----------------------------------------------------------------------------
(* prepare_generation_commit() and commit_generation(). *)

States(o) == UNION {i.states : i \in candidate[o]}

\* Mistake: the identities other generations committed since are not checked.
UniqueInGeneration(o) ==
  \A i, j \in candidate[o] : \A d \in i.states, e \in j.states :
    d.identity = e.identity => i = j /\ d = e

Publishable(o) ==
  /\ \A d \in States(o) : \A h \in home : h.identity # d.identity
  /\ \A i, j \in candidate[o] : \A d \in i.states, e \in j.states :
       d.identity = e.identity => i = j /\ d = e

CommitGeneration(o) ==
  /\ o \in linked
  /\ Reject(o)
  /\ IF Publishable(o)
     THEN /\ home' = home \cup States(o)
          /\ live' = live \cup candidate[o]
          /\ target' = LET new == UNION {i.replaces : i \in candidate[o]}
                       IN new \cup {p \in target : \A q \in new : q[1] # p[1]}
     ELSE UNCHANGED <<home, live, target>>
  /\ UNCHANGED <<platform, program, manifest>>

\* A newer publication, or unwatch(), drops what was prepared.
DropGeneration(o) ==
  /\ candidate[o] # {}
  /\ Reject(o)
  /\ UNCHANGED <<platform, program, manifest, home, live, target>>

Init ==
  /\ platform \in {"elf", "pe"}
  /\ program \in Programs
  /\ manifest \in {{}, Units}
  /\ platform = "pe" => manifest = {}
  /\ home = {}
  /\ candidate = [o \in Owners |-> {}]
  /\ linked = {}
  /\ live = {}
  /\ target = {}

Next ==
  \E o \in Owners :
    \/ \E obj \in Objects : LoadObject(o, obj)
    \/ LinkGeneration(o)
    \/ CommitGeneration(o)
    \/ DropGeneration(o)

Spec == Init /\ [][Next]_vars
-----------------------------------------------------------------------------
(* What the properties rest on.  None of this is looked at by the loaders.   *)

\* The names an object defines and refers to, and those it meets.
ObjectNames(obj) ==
  {[name |-> f.name, kind |-> "function", scope |-> Scope(f.bind, obj.unit)] :
     f \in Range(obj.functions)}
  \cup {[name |-> v.name, kind |-> "object", scope |-> Scope(v.bind, obj.unit)] :
          v \in Range(obj.variables)}
  \cup UNION {{[name |-> w.thing[2], kind |-> w.kind, scope |-> w.thing[1]] :
                 w \in Wanted(obj, r)} : r \in {x \in obj.references : x.form # "section"}}

ProgramNames(p) ==
  {[name |-> d.name, kind |-> d.kind, scope |-> Scope(d.bind, d.unit)] : d \in Range(p)}
  \cup {[name |-> l.name, kind |-> l.kind, scope |-> "external"] : l \in Library}

\* An external function has the name of no file-static function and of no
\* external variable of the program.
NewFunctionsAreNoOthers(programs, objects) ==
  \A p \in programs, obj \in objects :
    \A f \in Range(obj.functions) : \A d \in Range(p) :
      External(f.bind) /\ d.name = f.name /\ (d.kind = "function" \/ External(d.bind)) =>
        d.kind = "function" /\ External(d.bind)

\* The name of a function that an object uses is not that of a variable, nor
\* file-static here and external there.
FunctionNamesAreClear(programs, objects) ==
  \A p \in programs, obj, other \in objects :
    \A a \in ObjectNames(obj), b \in ProgramNames(p) \cup ObjectNames(other) :
      a.kind = "function" /\ a.name = b.name =>
        b.kind = "function" /\ (a.scope = "external" <=> b.scope = "external")

\* A function is referred to at its beginning.
FunctionsAreReferredToPlainly(objects) ==
  \A obj \in objects : \A r \in obj.references :
    r.form \in {"call", "address"} => r.value = 0

-----------------------------------------------------------------------------
(* Properties. *)

\* Memory that holds code or variables is given out once: the images of all
\* groups, and the storage they introduce, are apart, and the storage of a
\* committed variable belongs to an image that is never given back.
StorageIsApart ==
  /\ \A i, j \in Images : i # j => Memory(i) \cap Memory(j) = {}
  /\ \A i \in Images : \A d, e \in i.states :
       d.address # i.base /\ (d.address = e.address => d = e)
  /\ \A h \in home : \E i \in live : h \in i.states

\* The definitions of a thing in the program.
Defining(kind, thing) ==
  {d \in Range(program) :
     d.kind = kind /\ d.name = thing[2] /\ Scope(d.bind, d.unit) = thing[1]}

Exported(kind, thing) == {l \in Library : l.kind = kind /\ thing = <<"external", l.name>>}

\* Where the program, a library behind it, or a committed generation keeps a
\* variable.
Homes(thing) ==
  {d.address : d \in Defining("object", thing)}
  \cup {l.address : l \in {x \in Exported("object", thing) : Defining("object", thing) = {}}}
  \cup {h.address : h \in {g \in home : g.identity = thing}}

AtHome(r) == /\ \E h \in Homes(r.thing) : r.at = h + r.inner
             /\ Cardinality(Homes(r.thing)) = 1

\* Every data reference of committed code reaches the variable it names, at
\* its one home, in every generation: README.md:19 "globals and statics keep
\* their values across reloads".
OneHomePerVariable == \A i \in live : \A r \in i.refs : r.kind = "object" => AtHome(r)

\* No data reference of committed code leads to a trampoline: pe/runtime/
\* loader.cpp:240-242 "its reference sites take the direct address below, because
\* a load cannot cross a jump".
LoadsCrossNoJump ==
  \A i \in live : \A r \in i.refs :
    r.kind = "object" => \A j \in live : r.at # Slot(j.base)

\* The name of this variable says which one it is, and the symbol tables know it:
\* nothing else in the process, in the dynamic linker or in an object has it.
NameIsClear(thing) ==
  /\ \A d \in Range(program) : d.name = thing[2] =>
       /\ d.kind = "object" /\ Scope(d.bind, d.unit) = thing[1]
       /\ First("object", d.name) = {d}
  /\ \A l, x \in Library : l.name = thing[2] /\ x.name = thing[2] =>
       l = x /\ l.kind = "object" /\ thing[1] = "external"
  /\ \A obj \in Objects : \A a \in ObjectNames(obj) :
       a.name = thing[2] => a.kind = "object" /\ a.scope = thing[1]
  /\ \A obj \in Objects : \A v \in Range(obj.variables), l \in Library :
       v.name = thing[2] /\ l.name = thing[2] => Defining("object", thing) # {}

\* Two committed generations that define one variable keep it at one address, in
\* whatever order and by whichever groups they were prepared, and whatever else has
\* its name (find_committed_state, bind_state, prepare_generation_commit).
BindingsAgree ==
  \A i, j \in live : \A b \in i.binds, c \in j.binds :
    b.identity = c.identity => b.address = c.address

\* A reference of committed code to a variable with a clear name reaches its one
\* home: one that is not read through a slot, and whose offset no immediate operand
\* has shifted.
ClearNamesReachHome ==
  \A i \in live : \A r \in i.refs :
    r.kind = "object" /\ r.way = "address" /\ NameIsClear(r.thing) => AtHome(r)

\* State is preserved as far as names tell variables apart: generations agree on
\* the storage of what they define, and what can be told apart is where it was.
StateIsKept == BindingsAgree /\ ClearNamesReachHome

\* The entry of a function in the program, or in a library.
EntryOf(thing) ==
  {d.address : d \in Defining("function", thing)}
  \cup {l.address : l \in Exported("function", thing)}

\* A call of committed code reaches the function it names: the entry in the
\* program, which is redirected to the newest body, or a body some committed
\* image still holds.  No placeholder survives.
CallsReachTheirFunction ==
  \A i \in live : i.pending = {} /\ \A r \in i.refs :
    r.kind = "function" => r.at \in EntryOf(r.thing) \cup
      {b.address : b \in {c \in UNION {j.bodies : j \in live} : c.thing = r.thing}}

\* A redirected entry jumps to a body of the same function, of the same
\* translation unit when the function is file-static, and that body is in a
\* committed image.
RedirectsKeepIdentity ==
  \A p \in target :
    \E i \in live : \E b \in i.bodies : b.address = p[2] /\ p[1] \in EntryOf(b.thing)
=============================================================================
