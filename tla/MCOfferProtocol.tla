--------------------------- MODULE MCOfferProtocol ---------------------------
EXTENDS OfferProtocol

Q(text) == [text |-> text, form |-> "quoted"]
L(directive, fields) == [directive |-> directive, fields |-> fields, rest |-> FALSE]
MemberLine(name, object) ==
  L("member", <<Q(name), Q(object), Q("d1"), Q("two words"), Q("")>>)

MCWords == STRING
MCShorter == {<<"1", "12">>}

\* Two generations of one group, two of a wasm group, and two groups.
Offer(sequence, id) ==
  [group_id |-> <<<<"g">>>>, sequence |-> <<<<sequence>>>>, generation_id |-> <<<<id>>>>,
   compatibility_id |-> <<<<"c">>>>, abi_id |-> <<<<"c">>>>,
   member |-> << <<"a/x", "objects/a", "d1", "two words", "">>,
                 <<"b", "objects/b", "d2", "two words", "c">> >>,
   changed_input |-> << <<"two words">> >>]
Wasm(sequence, entries) ==
  [group_id |-> <<<<"g">>>>, sequence |-> <<<<sequence>>>>, generation_id |-> <<<<"b">>>>,
   abi_id |-> <<<<"c">>>>, artifact |-> << <<"a/x", "d1">> >>, entry |-> entries]
Group(id, hint) ==
  [group_id |-> <<<<id>>>>, publication_key |-> <<<<"g">>>>,
   baseline_sequence |-> <<<<"1">>>>, compatibility_id |-> <<<<"c">>>>,
   abi_id |-> <<<<"c">>>>, generation_root_hint |-> hint,
   member |-> << <<"a/x">>, <<"b">> >>]

MCDescriptor == Group("g", <<>>)

\* Documents that do not validate: one object for two members, one entry twice,
\* no member at all.
SharedObject == [Offer("1", "b") EXCEPT !.member[2][2] = "objects/a", !.changed_input = <<>>]
TwiceTheEntry == Wasm("1", << <<"a">>, <<"a">> >>)
Memberless == [Group("g", <<>>) EXCEPT !.member = <<>>]

MCWritten ==
  [offer |-> {Offer("1", "b"), Offer("12", "c"), SharedObject},
   wasm |-> {Wasm("1", << <<"a">> >>), Wasm("12", << <<"a">>, <<"b">> >>), TwiceTheEntry},
   group |-> {Group("g", <<>>), Group("g", << <<"two words">> >>), Memberless}]

Number1(form) == [text |-> "1", form |-> form]
Comment == L("#", <<>>)
Unknown == L("surprise", <<Q("a")>>)

\* Lines that clash with others, that hold what a field may not be, that have
\* fields too many or too few, and lines without content.
MCLines ==
  [offer |-> {Comment, Unknown, L("group_id", <<[text |-> "g", form |-> "bare"]>>),
              L("abi_id", <<Q("control")>>), [L("abi_id", <<Q("c")>>) EXCEPT !.rest = TRUE],
              L("sequence", <<Number1("padded")>>), L("sequence", <<Number1("wrong")>>),
              L("generation_id", <<Q("a/x")>>),
              MemberLine("c", "objects/a"), MemberLine("b", "objects/c"),
              MemberLine("c", "objects/c"), MemberLine("c", "b"),
              L("changed_input", <<Q("two words")>>), L("changed_input", <<Q("c")>>)},
   wasm |-> {Comment, Unknown, L("sequence", <<Number1("padded")>>),
             L("artifact", <<Q("two words"), Q("d1")>>), L("artifact", <<Q("b"), Q("b")>>),
             L("entry", <<Q("a")>>), L("entry", <<Q("c")>>), L("entry", <<Q("a/x")>>)},
   group |-> {Comment, Unknown, L("baseline_sequence", <<Number1("padded")>>),
              L("baseline_sequence", <<Number1("wrong")>>),
              L("generation_root_hint", <<Q("c")>>), L("generation_root_hint", <<Q("")>>),
              L("member", <<Q("a/x")>>), L("member", <<Q("c")>>),
              L("member", <<Q("two words")>>)}]

Marker(suffix, separated, form, sequence, id) ==
  [suffix |-> suffix, separated |-> separated,
   sequence |-> [text |-> sequence, form |-> form], generation_id |-> id]
MCMarkers ==
  {Marker(".ready", TRUE, "canonical", "1", "b"), Marker(".ready", TRUE, "canonical", "12", "c"),
   Marker(".ready", TRUE, "padded", "1", "b"), Marker(".ready", FALSE, "canonical", "1", "b"),
   Marker(".txt", TRUE, "canonical", "1", "b"), Marker(".ready", TRUE, "canonical", "1", "a/x")}

Record(descriptor) == [kind |-> "record", holds |-> descriptor]
Zeros == [kind |-> "zeros"]
MCSections ==
  {<<>>, <<Zeros>>, <<Zeros, Zeros>>, <<Zeros, Record(MCDescriptor)>>,
   <<[kind |-> "truncated"]>>, <<Record(MCDescriptor)>>,
   <<Record(Group("c", <<>>)), Record(MCDescriptor), Zeros>>,
   <<Record(Group("c", <<>>)), Record(Group("c", << <<"a">> >>))>>}
=============================================================================
