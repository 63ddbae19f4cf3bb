--------------------------- MODULE MCObjectLoader ---------------------------
EXTENDS ObjectLoader, TLC

Def(kind, name, bind, unit, address, size) ==
  [kind |-> kind, name |-> name, bind |-> bind, unit |-> unit,
   address |-> address, size |-> size, plain |-> TRUE]

\* Unit "u1" has run(), total and a static `seen'; "u2" has step(), too small
\* a function dot(), and a static `mark'; both have a static `count'.  A static
\* aid() exists in one unit or in both.
Aid(unit, address) == Def("function", "aid", "local", unit, address, 16)
Globals ==
  << Def("function", "run", "global", "u1", 20, 16),
     Def("function", "step", "global", "u2", 40, 16),
     Def("function", "dot", "global", "u2", 60, 4),
     Def("object", "seen", "local", "u1", 100, 4),
     Def("object", "mark", "local", "u2", 120, 4),
     Def("object", "total", "global", "u1", 140, 4),
     Def("object", "count", "local", "u1", 160, 4),
     Def("object", "count", "local", "u2", 180, 4) >>

\* The records of C++ code have the names of the source.
Decorated(p) == [i \in DOMAIN p |-> [p[i] EXCEPT !.plain = FALSE]]

MCPrograms == {<<Aid("u1", 30)>> \o Globals,
               Decorated(<<Aid("u1", 30), Aid("u2", 50)>> \o Globals)}

MCLibrary == {[name |-> "puts", kind |-> "function", address |-> 9000],
              [name |-> "stdout", kind |-> "object", address |-> 9100]}

Fn(name, bind, offset) == [name |-> name, bind |-> bind, offset |-> offset]
Var(name, bind, section, value) ==
  [name |-> name, bind |-> bind, section |-> section, value |-> value, size |-> 4]
Call(name) == [form |-> "call", name |-> name, section |-> "", value |-> 0,
               kind |-> "rel32", trailing |-> 0]
To(form, name, kind) == [form |-> form, name |-> name, section |-> "", value |-> 0,
                         kind |-> kind, trailing |-> 0]
At(section, value, trailing) ==
  [form |-> "section", name |-> "", section |-> section, value |-> value,
   kind |-> "rel32", trailing |-> trailing]

\* The last variable of a section ends it.
Sections(variables, align) ==
  [s \in {v.section : v \in Range(variables)} |->
     [align |-> align,
      size |-> 4 * Cardinality({v \in Range(variables) : v.section = s})]]

Obj(unit, functions, variables, references) ==
  [unit |-> unit, functions |-> functions, variables |-> variables,
   sections |-> Sections(variables, 4), references |-> references, traits |-> {}]

Run == <<Fn("run", "global", 0)>>
Step == <<Fn("step", "global", 0)>>
Seen(value) == Var("seen", "local", "bss", value)
Extra(value) == Var("extra", "local", "bss", value)
Level == Var("level", "global", "data", 0)
Count == Var("count", "local", "bss", 0)

\* Edits of the two units: a new static next to an old one, before it or
\* behind it, written with a constant or not; a static that the other unit has
\* too; a new global in either unit and its users in both; static helpers, a
\* new function, its caller and who takes its address; what cannot be loaded.
MCObjects == {
  Obj("u1", Run, <<Seen(0), Extra(4)>>, {At("bss", 0, 0), At("bss", 4, 4), Call("step")}),
  Obj("u1", Run, <<Extra(0), Seen(4)>>, {At("bss", 0, 0), At("bss", 4, 0), Call("puts")}),
  Obj("u1", <<Fn("aid", "local", 8)>> \o Run, <<Count>>,
      {Call("aid"), Call("fresh"), To("symbol", "count", "abs64"),
       To("symbol", "total", "rel32"), To("symbol", "stdout", "abs64")}),
  Obj("u1", Run, <<Level>>, {To("symbol", "level", "rel32"), To("address", "step", "abs64")}),
  Obj("u1", Run, <<>>, {To("symbol", "level", "abs64")}),
  Obj("u1", Run, <<>>, {To("address", "fresh", "abs64")}),
  Obj("u1", Run, <<>>, {To("symbol", "stdout", "rel32")}),
  Obj("u2", <<Fn("aid", "local", 8)>> \o Step, <<Count>>,
      {Call("aid"), Call("run"), To("symbol", "count", "rel32")}),
  Obj("u2", Step \o <<Fn("fresh", "global", 8)>>, <<Var("mark", "local", "bss", 0)>>,
      {Call("fresh"), To("symbol", "mark", "rel32")}),
  Obj("u2", Step, <<Level>>, {To("symbol", "level", "rel32")}),
  Obj("u2", Step, <<[Level EXCEPT !.size = 8]>>, {}),
  Obj("u2", <<Fn("dot", "global", 0)>>, <<>>, {}) }

Symmetry == Permutations(Owners)

\* The names of these programs and objects are as the theorems need them.
ASSUME NamesOfTheInstance ==
  /\ NewFunctionsAreNoOthers(MCPrograms, MCObjects)
  /\ FunctionNamesAreClear(MCPrograms, MCObjects)
  /\ FunctionsAreReferredToPlainly(MCObjects)

\* Both units have a static of one name, and each reads its own.
MCStaticObjects ==
  {Obj("u1", Run, <<Count>>, {To("symbol", "count", "abs64")}),
   Obj("u2", Step, <<Count>>, {To("symbol", "count", "abs64")})}
MCPlainPrograms == {<<Aid("u1", 30)>> \o Globals}

\* A static behind another one, written with an immediate operand.
MCImmediateObjects ==
  {Obj("u1", Run, <<Seen(0), Extra(4)>>, {At("bss", 0, 4), At("bss", 4, 4)})}

\* Code of C++ that reads a static of its own.
MCDecoratedPrograms == {Decorated(p) : p \in MCPlainPrograms}
MCSeenObjects == {Obj("u1", Run, <<Seen(0)>>, {To("symbol", "seen", "rel32")})}

\* Code that reads a variable of another unit of the program.
MCReadingObjects == {Obj("u2", Step, <<>>, {To("symbol", "total", "rel32")})}
=============================================================================
