--------------------------- MODULE OfferProtocol ---------------------------
(***************************************************************************)
(* The wire formats of a generation: the offer of a native group           *)
(* (src/protocol/generation_offer.cpp), the offer of a wasm group          *)
(* (src/protocol/wasm_offer.cpp) and the group descriptor that is embedded *)
(* in the application (src/protocol/group_descriptor.cpp, framed by        *)
(* descriptor_section.cpp).  The three are one line grammar over different *)
(* directives, so one reader serves them; `dialect' picks the table.       *)
(*                                                                         *)
(* The reader takes a file line by line, as the parsers do, and the        *)
(* properties compare what it delivers with a declaration of what a file   *)
(* means and with the document a publisher wrote into it.                  *)
(***************************************************************************)
EXTENDS Naturals, FiniteSets, SequencesExt

CONSTANTS Components,   \* values that are one portable path component
          Nested,       \* portable paths of several components
          ObjectPaths,  \* portable paths below objects/
          Digests,      \* 64 lowercase hexadecimal digits
          Phrases,      \* printable values that are not portable
          Numbers,      \* unsigned decimals
          Shorter,      \* <<s, n>>: the digits of n begin with those of s
          Words,        \* what lines are made of
          Written,      \* dialect -> the documents files are written from
          Lines,        \* dialect -> lines that files may hold besides
          Markers,      \* names of ready markers
          Descriptor,   \* the descriptor of the group that is watched
          MaxDamage,    \* how often a file may be damaged
          Sections      \* contents of the section descriptors are linked into

Dialects == {"offer", "wasm", "group"}

(* A line is [directive, fields, rest]: the fields are tokens [text, form],*)
(* `rest' tells whether anything follows them; directive "#" is a comment  *)
(* or a blank line.                                                        *)
Printable == Components \cup Nested \cup ObjectPaths \cup Digests \cup Phrases
FieldTexts == Printable \cup Numbers \cup {""}

\* What the fields of every directive must be.
Shape(d) ==
  IF d = "offer" THEN
    [group_id |-> <<"identity">>, sequence |-> <<"canonical">>,
     generation_id |-> <<"component">>, compatibility_id |-> <<"identity">>,
     abi_id |-> <<"identity">>,
     member |-> <<"path", "object", "digest", "identity", "text">>,
     changed_input |-> <<"identity">>]
  ELSE IF d = "wasm" THEN
    [group_id |-> <<"identity">>, sequence |-> <<"canonical">>,
     generation_id |-> <<"component">>, abi_id |-> <<"identity">>,
     artifact |-> <<"path", "digest">>, entry |-> <<"component">>]
  ELSE
    [group_id |-> <<"identity">>, publication_key |-> <<"component">>,
     baseline_sequence |-> <<"decimal">>, compatibility_id |-> <<"identity">>,
     abi_id |-> <<"identity">>, generation_root_hint |-> <<"identity">>,
     member |-> <<"path">>]

\* Directives that may be repeated, each with the fields that tell two apart
\* and what a clash is called.
Repeated(d) ==
  IF d = "offer" THEN
    [member |-> <<<<1, "duplicate_member">>, <<2, "duplicate_object_path">>>>,
     changed_input |-> <<<<1, "duplicate_changed_input">>>>]
  ELSE IF d = "wasm" THEN [entry |-> <<<<1, "duplicate_entry">>>>]
  ELSE [member |-> <<<<1, "duplicate_member">>>>]

Singles(d) == DOMAIN Shape(d) \ DOMAIN Repeated(d)
Required(d) == DOMAIN Shape(d) \ {"generation_root_hint", "changed_input"}

\* What a file of a format may be rejected for, by its reader or, for offers,
\* against the marker and the descriptor.
Codes(d) ==
  {"invalid_format", "unsupported_version", "unknown_directive", "malformed_value",
   "unexpected_value", "duplicate_field", "missing_field", "invalid_field"}
  \cup IF d = "offer" THEN {"duplicate_member", "duplicate_object_path",
                            "duplicate_changed_input", "invalid_marker", "marker_mismatch",
                            "group_mismatch", "compatibility_mismatch", "abi_mismatch",
                            "membership_mismatch"}
       ELSE IF d = "wasm" THEN {"duplicate_entry"} ELSE {"duplicate_member"}

\* A document: for every directive the field texts of its lines, in order.  An
\* empty member of the struct is a directive without a line.
Documents(d) ==
  {document \in [DOMAIN Shape(d) -> Seq(Seq(FieldTexts))] :
     /\ \A x \in DOMAIN Shape(d) : \A i \in DOMAIN document[x] :
          Len(document[x][i]) = Len(Shape(d)[x])
     /\ \A x \in Singles(d) : Len(document[x]) <= 1}
Headers == {"ok", "missing", "wrong_name", "wrong_version"}
Forms == {"quoted", "open", "bare", "canonical", "padded", "wrong"}
Tokens == [text : Words, form : Forms]
AnyLine == [directive : Words, fields : Seq(Tokens), rest : BOOLEAN]

ASSUME WordsOfFiles == FieldTexts \subseteq Words /\ \A d \in Dialects : DOMAIN Shape(d) \subseteq Words
ASSUME FilesAreFiles ==
  /\ Descriptor \in Documents("group")
  /\ \A d \in Dialects :
       /\ Written[d] \subseteq Documents(d)
       /\ Lines[d] \subseteq AnyLine
  /\ Markers \subseteq [suffix : Words, separated : BOOLEAN, sequence : Tokens,
                        generation_id : Words]
  /\ Sections \subseteq Seq([kind : {"record"}, holds : Documents("group")]
                            \cup [kind : {"zeros", "truncated"}])

\* The numbers of a finite set, in increasing order.
InOrder(S) ==
  [n \in 1..Cardinality(S) |-> CHOOSE i \in S : Cardinality({j \in S : j <= i}) = n]

NoDoc(d) == [x \in DOMAIN Shape(d) |-> <<>>]
Texts(line) == [i \in DOMAIN line.fields |-> line.fields[i].text]

VARIABLES
  dialect,  \* the format that is read
  origin,   \* the document the file was written from, by serialize_* or by hand
  header,   \* the magic line: "ok", "missing", "wrong_name", "wrong_version"
  lines,    \* what the file holds below it
  damage,   \* how often the file was damaged before it was read
  marker,   \* the name of the ready marker that led here
  at,       \* the lines consumed so far
  doc,      \* the document read so far
  verdict,  \* "reading", "accepted", "loaded", or why the file was rejected
  errorAt,  \* the line the rejection names, the magic line being line 1
  section,  \* what follows the file in a section of descriptors
  offset,   \* the frames of the section that were read
  records,  \* the descriptors read from it so far
  found     \* "reading", "resolved" or "rejected"

file == <<dialect, origin, header, lines, marker, section, damage>>
vars == <<file, at, doc, verdict, errorAt, offset, records, found>>

-----------------------------------------------------------------------------
(* One line. *)

Number(kind) == kind \in {"canonical", "decimal"}

\* read_quoted, and read_sequence: an offer takes canonical decimals only, a
\* descriptor any decimal.
Malformed(kind, token) ==
  IF Number(kind)
  THEN token.form # "canonical" /\ ~(kind = "decimal" /\ token.form = "padded")
  ELSE token.form # "quoted"

\* require_identity: not empty, and no control character.
Identities == Printable

\* require_portable_path: one portable component, or several.
Portable(nested) == IF nested THEN Printable \ Phrases ELSE Components \cup Digests

\* What a field may hold; the path of an object is below objects/.
Acceptable(kind) ==
  IF Number(kind) THEN Numbers ELSE
  IF kind = "identity" THEN Identities ELSE
  IF kind = "text" THEN Identities \cup {""} ELSE
  IF kind = "digest" THEN Digests ELSE
  IF kind = "object" THEN ObjectPaths ELSE Portable(kind = "path")

\* A field is missing or cannot be read; a field holds what it may not.
Unreadable(shape, fields) ==
  \E i \in DOMAIN shape : i > Len(fields) \/ Malformed(shape[i], fields[i])
Misused(shape, fields) ==
  \E i \in DOMAIN shape \cap DOMAIN fields : fields[i].text \notin Acceptable(shape[i])

\* require_end.
Trailing(shape, line) == line.rest \/ Len(line.fields) > Len(shape)

\* The code of the first check that fails: a check is <<what is wrong, code>>.
FirstWrong(checks) ==
  LET wrong == {i \in DOMAIN checks : checks[i][1]}
  IN IF wrong = {} THEN <<>>
     ELSE <<checks[CHOOSE i \in wrong : \A j \in wrong : i <= j][2]>>

\* The clashes of a repeated line with the lines before it.
Clashes(d, line, before) ==
  [k \in DOMAIN Repeated(d)[line.directive] |->
     LET key == Repeated(d)[line.directive][k]
     IN <<\E i \in DOMAIN before[line.directive] :
            before[line.directive][i][key[1]] = line.fields[key[1]].text, key[2]>>]

\* Mistake: a second line of a field overwrites the first.
CheckedWithoutRepeats(d, line, before) ==
  LET shape == Shape(d)[line.directive]
  IN << <<Unreadable(shape, line.fields), "malformed_value">>,
        <<Trailing(shape, line), "unexpected_value">>,
        <<Misused(shape, line.fields), "invalid_field">> >>

\* What can be wrong with the fields of a known directive, in the order it is
\* looked for.
Checked(d, line, before) ==
  LET shape == Shape(d)[line.directive]
  IN << <<line.directive \in Singles(d) /\ before[line.directive] # <<>>, "duplicate_field">>,
        <<Unreadable(shape, line.fields), "malformed_value">>,
        <<Trailing(shape, line), "unexpected_value">>,
        <<Misused(shape, line.fields), "invalid_field">> >>

\* Why a line is rejected: at most one code.
Issue(d, line, before) ==
  IF line.directive \notin DOMAIN Shape(d) THEN <<"unknown_directive">> ELSE
  IF FirstWrong(Checked(d, line, before)) # <<>> THEN FirstWrong(Checked(d, line, before)) ELSE
  IF line.directive \in DOMAIN Repeated(d) THEN FirstWrong(Clashes(d, line, before)) ELSE <<>>

Reject(code, line) == verdict' = code /\ errorAt' = line

Reading == verdict = "reading"
NoSection == UNCHANGED <<offset, records, found>>

\* parse_generation_offer_marker: <sequence>-<generation_id>.ready.
MarkerReadable(m) ==
  /\ m.suffix = ".ready"
  /\ m.separated
  /\ m.sequence.form = "canonical"
  /\ m.generation_id \in Components \cup Digests

\* The stream looks at the marker, and then reads the manifest it names.
ReadMarker ==
  /\ Reading /\ at = 0 /\ dialect = "offer"
  /\ ~MarkerReadable(marker)
  /\ Reject("invalid_marker", 0)
  /\ UNCHANGED <<file, at, doc>> /\ NoSection

Begins == at = 0 /\ (dialect = "offer" => MarkerReadable(marker))

\* inspect_magic_line: a file of another version is told from a foreign one.
HeaderIssue(h) ==
  IF h = "ok" THEN <<>> ELSE
  IF h = "wrong_version" THEN <<"unsupported_version">> ELSE <<"invalid_format">>

ReadHeader ==
  /\ Reading /\ Begins
  /\ IF HeaderIssue(header) = <<>> THEN at' = 1 /\ UNCHANGED <<verdict, errorAt>>
     ELSE Reject(HeaderIssue(header)[1], 1) /\ at' = at
  /\ UNCHANGED <<file, doc>> /\ NoSection

\* The line behind the `at' lines consumed, the header included.
Line == lines[at]
More == at > 0 /\ at <= Len(lines)

SkipLine ==
  /\ Reading /\ More /\ Line.directive = "#"
  /\ at' = at + 1
  /\ UNCHANGED <<file, doc, verdict, errorAt>> /\ NoSection

ReadLine ==
  /\ Reading /\ More /\ Line.directive # "#"
  /\ at' = at + 1
  /\ LET issue == Issue(dialect, Line, doc)
     IN IF issue = <<>>
        THEN /\ doc' = [doc EXCEPT ![Line.directive] = Append(@, Texts(Line))]
             /\ UNCHANGED <<verdict, errorAt>>
        ELSE Reject(issue[1], at + 1) /\ doc' = doc
  /\ UNCHANGED file /\ NoSection

Missing(d, document) == {x \in Required(d) : document[x] = <<>>}

\* validate_*: a whole document, before it is written and after it was read.
HoldsAcceptable(d, document) ==
  \A x \in DOMAIN document : \A i \in DOMAIN document[x] : \A k \in DOMAIN document[x][i] :
    document[x][i][k] \in Acceptable(Shape(d)[x][k])

IsApart(d, document) ==
  \A x \in DOMAIN Repeated(d) : \A k \in DOMAIN Repeated(d)[x] :
    \A i, j \in DOMAIN document[x] :
      i # j => document[x][i][Repeated(d)[x][k][1]] # document[x][j][Repeated(d)[x][k][1]]

Valid(d, document) ==
  HoldsAcceptable(d, document) /\ Missing(d, document) = {} /\ IsApart(d, document)

\* The end of the file: every required directive was there, and the document
\* is validated once more.
Finish ==
  /\ Reading /\ at > Len(lines)
  /\ IF Missing(dialect, doc) # {}
     THEN Reject("missing_field", at + 1) /\ records' = records ELSE
     IF ~Valid(dialect, doc) THEN Reject("invalid_field", 0) /\ records' = records
     ELSE /\ verdict' = "accepted" /\ errorAt' = errorAt
          /\ records' = IF dialect = "group" THEN <<doc>> ELSE <<>>
  /\ UNCHANGED <<file, at, doc, offset, found>>

-----------------------------------------------------------------------------
(* An offer against the descriptor and the marker. *)

Members(d) == [i \in DOMAIN d.member |-> d.member[i][1]]

\* Mistake: the members are compared as far as the offer names them.
NamesAPrefix(offer, d) == IsPrefix(Members(offer), Members(d))

\* The members are the descriptor's, in its order.
SameMembers(offer, d) == Members(offer) = Members(d)

\* validate_generation_offer_against_descriptor: what disagrees first.
Disagreements(offer, d) ==
  FirstWrong(<< <<offer.group_id # d.group_id, "group_mismatch">>,
                <<offer.compatibility_id # d.compatibility_id, "compatibility_mismatch">>,
                <<offer.abi_id # d.abi_id, "abi_mismatch">>,
                <<~SameMembers(offer, d), "membership_mismatch">> >>)

\* validate_generation_offer_reference.
NamedBy(m, offer) ==
  offer.sequence = <<<<m.sequence.text>>>> /\ offer.generation_id = <<<<m.generation_id>>>>

\* discover(): the offer is compared with the descriptor, then with the
\* marker.
Deliver ==
  /\ verdict = "accepted" /\ dialect = "offer"
  /\ verdict' = IF Disagreements(doc, Descriptor) # <<>>
                THEN Disagreements(doc, Descriptor)[1] ELSE
                IF ~NamedBy(marker, doc) THEN "marker_mismatch" ELSE "loaded"
  /\ UNCHANGED <<file, at, doc, errorAt>> /\ NoSection

-----------------------------------------------------------------------------
(* Discovery of embedded descriptors. *)

\* The embedded section is a sequence of framed descriptors; the file that
\* was read is its first record.
Discovering == dialect = "group" /\ verdict = "accepted" /\ found = "reading"

\* What is left of the section is padding.
OnlyZeros(k) == \A i \in k..Len(section) : section[i].kind = "zeros"

\* parse_descriptor_section: the next record, framed by its length.
ReadRecord ==
  /\ Discovering /\ offset < Len(section)
  /\ offset' = offset + 1
  /\ IF section[offset + 1].kind = "record"
     THEN records' = Append(records, section[offset + 1].holds) /\ found' = found
     ELSE /\ records' = records
          /\ found' = IF OnlyZeros(offset + 1) THEN "reading" ELSE "rejected"
  /\ UNCHANGED <<file, at, doc, verdict, errorAt>>

\* Mistake: the first descriptor of a group is taken.
AgreeingAnyway(rs) == TRUE

\* Two descriptors of one group are one declaration that was linked twice.
Agreeing(rs) ==
  \A i, j \in DOMAIN rs : rs[i].group_id = rs[j].group_id => rs[i] = rs[j]

\* resolve_descriptor_records keeps the first of every group.
Firsts(rs) == {i \in DOMAIN rs : \A j \in 1..(i - 1) : rs[j].group_id # rs[i].group_id}
Resolved(rs) == [n \in 1..Cardinality(Firsts(rs)) |-> rs[InOrder(Firsts(rs))[n]]]

ResolveRecords ==
  /\ Discovering /\ offset = Len(section)
  /\ IF Agreeing(records)
     THEN /\ found' = "resolved"
          /\ records' = Resolved(records)
     ELSE found' = "rejected" /\ records' = records
  /\ UNCHANGED <<file, at, doc, verdict, errorAt, offset>>

-----------------------------------------------------------------------------
(* What a publisher writes. *)

Token(kind, text) ==
  [text |-> text, form |-> IF Number(kind) THEN "canonical" ELSE "quoted"]

LineOf(d, x, texts) ==
  [directive |-> x, fields |-> [i \in DOMAIN texts |-> Token(Shape(d)[x][i], texts[i])],
   rest |-> FALSE]

\* Mistake: the optional directive is not written.
BlockWithoutHint(d, document, x) ==
  IF x = "generation_root_hint" THEN <<>>
  ELSE [k \in DOMAIN document[x] |-> LineOf(d, x, document[x][k])]

\* The lines of one directive.
Block(d, document, x) == [k \in DOMAIN document[x] |-> LineOf(d, x, document[x][k])]

\* serialize_*: the directives in order, one line each.
Serialized(d, document) ==
  LET B(x) == Block(d, document, x)
  IN IF d = "offer" THEN
       B("group_id") \o B("sequence") \o B("generation_id") \o B("compatibility_id")
         \o B("abi_id") \o B("member") \o B("changed_input")
     ELSE IF d = "wasm" THEN
       B("group_id") \o B("sequence") \o B("generation_id") \o B("abi_id")
         \o B("artifact") \o B("entry")
     ELSE
       B("group_id") \o B("publication_key") \o B("baseline_sequence")
         \o B("compatibility_id") \o B("abi_id") \o B("generation_root_hint") \o B("member")

\* The line a write that stopped in its middle leaves: fewer fields, an open
\* quote, or fewer digits.
Torn(line) ==
  {[line EXCEPT !.fields = SubSeq(@, 1, n)] : n \in 0..(Len(line.fields) - 1)}
  \cup {[line EXCEPT !.fields[n].form = "open"] :
          n \in {i \in DOMAIN line.fields : line.fields[i].form = "quoted"}}
  \cup {[line EXCEPT !.fields[p[1]].text = p[2]] :
          p \in {q \in (DOMAIN line.fields) \X Numbers :
                   line.fields[q[1]].form = "canonical"
                   /\ <<q[2], line.fields[q[1]].text>> \in Shorter}}

\* A file that was cut off.
Cut(ls) ==
  {SubSeq(ls, 1, n) : n \in 0..(Len(ls) - 1)}
  \cup UNION {{Append(SubSeq(ls, 1, n - 1), t) : t \in Torn(ls[n])} : n \in DOMAIN ls}

\* A file that was edited: a line is dropped, repeated, moved or replaced.
Edited(d, ls) ==
  {RemoveAt(ls, n) : n \in DOMAIN ls}
  \cup {InsertAt(ls, m, ls[n]) : n \in DOMAIN ls, m \in 1..(Len(ls) + 1)}
  \cup {InsertAt(RemoveAt(ls, n), m, ls[n]) : n \in DOMAIN ls, m \in DOMAIN ls}
  \cup {InsertAt(ls, n, l) : n \in 1..(Len(ls) + 1), l \in Lines[d]}
  \cup {ReplaceAt(ls, n, l) : n \in DOMAIN ls, l \in Lines[d]}

\* A file before it is read may be damaged, MaxDamage times; a section is
\* embedded by the linker and stays as it is.
Damage ==
  /\ Reading /\ Begins /\ header = "ok" /\ section = <<>>
  /\ damage < MaxDamage
  /\ lines' \in Cut(lines) \cup Edited(dialect, lines)
  /\ damage' = damage + 1
  /\ UNCHANGED <<dialect, origin, header, marker, section, at, doc, verdict, errorAt>>
  /\ NoSection

Init ==
  /\ dialect \in Dialects
  /\ origin \in Written[dialect]
  /\ header \in Headers
  /\ marker \in Markers
  /\ dialect # "offer" => marker = CHOOSE m \in Markers : TRUE
  /\ lines = IF header = "ok" THEN Serialized(dialect, origin) ELSE <<>>
  /\ damage = 0
  /\ at = 0
  /\ doc = NoDoc(dialect)
  /\ verdict = "reading"
  /\ errorAt = 0
  /\ section \in IF dialect = "group" THEN Sections ELSE {<<>>}
  /\ offset = 0
  /\ records = <<>>
  /\ found = "reading"

Next ==
  \/ Damage
  \/ ReadMarker \/ ReadHeader \/ SkipLine \/ ReadLine \/ Finish
  \/ Deliver
  \/ ReadRecord \/ ResolveRecords

Spec == Init /\ [][Next]_vars

-----------------------------------------------------------------------------
(* Properties. *)

\* What the first n lines of a file declare: every line can be read, a field
\* appears once, every required directive is there, and no two repeated lines
\* clash.
Of(ls, n, x) == {i \in 1..n : ls[i].directive = x}

WellFormed(d, line) ==
  /\ line.directive \in DOMAIN Shape(d)
  /\ ~line.rest
  /\ Len(line.fields) = Len(Shape(d)[line.directive])
  /\ \A i \in DOMAIN line.fields :
       ~Malformed(Shape(d)[line.directive][i], line.fields[i])
       /\ line.fields[i].text \in Acceptable(Shape(d)[line.directive][i])

Consistent(d, ls, n) ==
  /\ \A i \in 1..n : ls[i].directive = "#" \/ WellFormed(d, ls[i])
  /\ \A x \in Singles(d) : \A i, j \in Of(ls, n, x) : i = j
  /\ \A x \in DOMAIN Repeated(d) : \A k \in DOMAIN Repeated(d)[x] :
       \A i, j \in Of(ls, n, x) : i # j =>
         ls[i].fields[Repeated(d)[x][k][1]].text # ls[j].fields[Repeated(d)[x][k][1]].text

Complete(d, ls) == \A x \in Required(d) : Of(ls, Len(ls), x) # {}

Meaning(d, ls, n) ==
  [x \in DOMAIN Shape(d) |->
     [k \in 1..Cardinality(Of(ls, n, x)) |-> Texts(ls[InOrder(Of(ls, n, x))[k]])]]

Decided == verdict # "reading" /\ verdict # "invalid_marker" /\ header = "ok"

\* A parser accepts the files that declare a document, whatever the order of
\* their lines, and delivers that document, which validates; otherwise it names
\* the first line that cannot be part of one, and a reason its format knows.
ParsesAsDeclared ==
  Decided =>
    /\ verdict \in Codes(dialect) \cup {"accepted", "loaded"}
    /\ LET ok == Consistent(dialect, lines, Len(lines)) /\ Complete(dialect, lines)
       IN IF errorAt = 0
          THEN ok /\ doc = Meaning(dialect, lines, Len(lines)) /\ Valid(dialect, doc)
          ELSE /\ ~ok
               /\ Consistent(dialect, lines, errorAt - 2)
               /\ errorAt - 1 <= Len(lines) => ~Consistent(dialect, lines, errorAt - 1)

\* What one side writes the other side reads: in all three formats a document
\* that validates, and that serialize_* therefore writes, parses back to itself.
\* One that does not is refused by the reader too, whoever wrote the file.
WrittenIsRead ==
  (Decided /\ lines = Serialized(dialect, origin)) =>
    IF Valid(dialect, origin) THEN errorAt = 0 /\ doc = origin ELSE errorAt # 0

\* A manifest that was cut off while it was written is never loaded as
\* another generation: every object of the group is in it, and it is the
\* generation that was written.  Only changed inputs, which nothing depends
\* on, may be missing.
TornOffersAreNotLoaded ==
  (verdict = "loaded" /\ lines \in Cut(Serialized(dialect, origin))) =>
    \A x \in DOMAIN Shape("offer") \ {"changed_input"} : doc[x] = origin[x]

\* Discovery delivers every descriptor that was linked into the application,
\* and one for each group: two objects that declare a group differently are
\* refused, never one of them chosen.  It refuses nothing else but a section
\* whose frames cannot be followed.
Linked == {doc} \cup {section[i].holds : i \in {k \in DOMAIN section : section[k].kind = "record"}}

OneDescriptorPerGroup ==
  /\ found = "resolved" =>
       /\ ToSet(records) = Linked
       /\ \A i, j \in DOMAIN records : records[i].group_id = records[j].group_id => i = j
  /\ found = "rejected" =>
       \/ \E a, b \in Linked : a # b /\ a.group_id = b.group_id
       \/ \E i \in DOMAIN section : section[i].kind # "record" /\ ~OnlyZeros(i)
=============================================================================
