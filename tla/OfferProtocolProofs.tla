------------------------- MODULE OfferProtocolProofs -------------------------
(***************************************************************************)
(* Proofs about OfferProtocol: what a parser accepts is what the file      *)
(* declares, what is written is read, a manifest that was cut off is not   *)
(* loaded, and discovery delivers one descriptor for each group, for files *)
(* and documents of any length and damage of any kind.                     *)
(***************************************************************************)
EXTENDS OfferProtocol, FiniteSetTheorems, SequenceTheorems, WellFoundedInduction, TLAPS

-----------------------------------------------------------------------------
(* Numbers in order. *)

\* A set of numbers has a least one.
LEMMA LeastNumber ==
  ASSUME NEW S, S \subseteq Nat, S # {}
  PROVE  \E m \in S : \A i \in S : m <= i
<1>1. PICK m \in S : \A i \in S : ~(<<i, m>> \in OpToRel(<, Nat))
  BY WFMin, NatLessThanWellFounded
<1>2. \A i \in S : ~(i < m)
  BY <1>1 DEF OpToRel
<1>3. QED
  BY <1>2

\* A set of numbers from 1 to n.
UpTo(S, n) == n \in Nat /\ \A i \in S : i \in Nat /\ 1 <= i /\ i <= n

\* The place of a number among those of a set.
Rank(S, i) == Cardinality({j \in S : j <= i})

LEMMA RankBounds ==
  ASSUME NEW S, NEW n, UpTo(S, n)
  PROVE  /\ IsFiniteSet(S) /\ Cardinality(S) \in Nat
         /\ \A i \in Nat : Rank(S, i) \in Nat /\ Rank(S, i) <= Cardinality(S)
<1>1. IsFiniteSet(S) /\ Cardinality(S) \in Nat
  <2>1. IsFiniteSet(1..n) /\ S \in SUBSET (1..n)
    BY FS_Interval DEF UpTo
  <2>2. QED
    BY <2>1, FS_Subset, FS_CardinalityType
<1>2. ASSUME NEW i \in Nat
      PROVE  Rank(S, i) \in Nat /\ Rank(S, i) <= Cardinality(S)
  <2>1. {j \in S : j <= i} \in SUBSET S
    OBVIOUS
  <2>2. QED
    BY <1>1, <2>1, FS_Subset, FS_CardinalityType DEF Rank
<1>3. QED
  BY <1>1, <1>2

\* From one number to the next the rank grows by one at an element.
LEMMA RankStep ==
  ASSUME NEW S, NEW n, UpTo(S, n), NEW i \in Nat
  PROVE  /\ Rank(S, i + 1) = IF i + 1 \in S THEN Rank(S, i) + 1 ELSE Rank(S, i)
         /\ Rank(S, 0) = 0 /\ Rank(S, n) = Cardinality(S)
<1>1. n \in Nat /\ \A j \in S : j \in Nat /\ 1 <= j /\ j <= n
  BY DEF UpTo
<1>2. Rank(S, 0) = 0
  <2>1. \A j \in S : ~(j <= 0)
    BY <1>1
  <2>2. {j \in S : j <= 0} = {}
    BY <2>1
  <2>3. QED
    BY <2>2, FS_EmptySet DEF Rank
<1>3. Rank(S, n) = Cardinality(S)
  <2>1. {j \in S : j <= n} = S
    BY <1>1
  <2>2. QED
    BY <2>1 DEF Rank
<1>4. \A j \in S : j <= i + 1 <=> j <= i \/ j = i + 1
  BY <1>1
<1>5. CASE i + 1 \in S
  <2>1. {j \in S : j <= i + 1} = {j \in S : j <= i} \cup {i + 1}
    BY <1>4, <1>5, Zenon
  <2>2. i + 1 \notin {j \in S : j <= i}
    BY <1>1
  <2>3. IsFiniteSet({j \in S : j <= i})
    BY RankBounds, FS_Subset
  <2>4. Rank(S, i + 1) = Rank(S, i) + 1
    BY <2>1, <2>2, <2>3, FS_AddElement DEF Rank
  <2>5. QED
    BY <1>2, <1>3, <1>5, <2>4
<1>6. CASE i + 1 \notin S
  <2>1. {j \in S : j <= i + 1} = {j \in S : j <= i}
    BY <1>4, <1>6, Zenon
  <2>2. Rank(S, i + 1) = Rank(S, i)
    BY <2>1 DEF Rank
  <2>3. QED
    BY <1>2, <1>3, <1>6, <2>2
<1>7. QED
  BY <1>5, <1>6

\* Elements have ranks of their own, and every rank is that of an element.
LEMMA RankOrder ==
  ASSUME NEW S, NEW n, UpTo(S, n), NEW i \in S, NEW j \in Nat, i <= j
  PROVE  1 <= Rank(S, i) /\ Rank(S, i) <= Rank(S, j) /\ (j \in S /\ i < j => Rank(S, i) < Rank(S, j))
<1> DEFINE A == {k \in S : k <= i}
           B == {k \in S : k <= j}
<1>1. A \subseteq B /\ i \in A /\ IsFiniteSet(B) /\ IsFiniteSet(A)
  <2>1. i \in Nat /\ \A k \in S : k \in Nat
    BY DEF UpTo
  <2>2. i <= i /\ \A k \in S : k <= i => k <= j
    BY <2>1
  <2>3. A \subseteq B /\ i \in A
    BY <2>2, Zenon
  <2>4. A \in SUBSET S /\ B \in SUBSET S /\ IsFiniteSet(S)
    BY RankBounds
  <2>5. QED
    BY <2>3, <2>4, FS_Subset
<1>2. Cardinality(A) \in Nat /\ Cardinality(B) \in Nat /\ Cardinality(A) # 0 /\ Cardinality(A) <= Cardinality(B)
  BY <1>1, FS_CardinalityType, FS_EmptySet, FS_Subset
<1>3. ASSUME j \in S, i < j
      PROVE  Cardinality(A) # Cardinality(B)
  <2>1. j \in B /\ j \notin A
    BY <1>3
  <2>2. QED
    BY <1>1, <2>1, FS_Subset
<1>4. QED
  BY <1>2, <1>3 DEF Rank

LEMMA RankOnto ==
  ASSUME NEW S, NEW n, UpTo(S, n), NEW k \in 1..Cardinality(S)
  PROVE  \E i \in S : Rank(S, i) = k
<1> DEFINE T == {i \in Nat : k <= Rank(S, i)}
<1>1. n \in T /\ 0 \notin T
  <2>1. n \in Nat /\ Cardinality(S) \in Nat /\ k \in Nat /\ 1 <= k /\ k <= Cardinality(S)
    <3>1. n \in Nat /\ Cardinality(S) \in Nat
      BY RankBounds DEF UpTo
    <3>2. QED
      BY <3>1
  <2>2. Rank(S, 0) = 0 /\ Rank(S, n) = Cardinality(S)
    BY RankStep
  <2>3. QED
    BY <2>1, <2>2
<1>2. PICK m \in T : \A i \in T : m <= i
  BY <1>1, LeastNumber
<1>3. PICK i \in Nat : m = i + 1
  <2>1. m \in Nat /\ m # 0
    BY <1>1
  <2>2. m - 1 \in Nat /\ m = (m - 1) + 1
    BY <2>1
  <2>3. QED
    BY <2>2
<1>4. i \notin T
  BY <1>2, <1>3
<1>5. Rank(S, i) < k /\ k <= Rank(S, i + 1) /\ Rank(S, i) \in Nat /\ Rank(S, i + 1) \in Nat
  BY <1>3, <1>4, RankBounds
<1>6. Rank(S, i + 1) = IF i + 1 \in S THEN Rank(S, i) + 1 ELSE Rank(S, i)
  BY RankStep
<1>7. QED
  BY <1>5, <1>6

\* InOrder lists a set from its least element to its greatest.
LEMMA OrderFacts ==
  ASSUME NEW S, NEW n, UpTo(S, n)
  PROVE  /\ Cardinality(S) \in Nat /\ DOMAIN InOrder(S) = 1..Cardinality(S)
         /\ \A k \in 1..Cardinality(S) : InOrder(S)[k] \in S /\ Rank(S, InOrder(S)[k]) = k
         /\ \A i \in S : Rank(S, i) \in 1..Cardinality(S) /\ InOrder(S)[Rank(S, i)] = i
<1>1. Cardinality(S) \in Nat /\ DOMAIN InOrder(S) = 1..Cardinality(S)
  BY RankBounds DEF InOrder
<1>2. ASSUME NEW k \in 1..Cardinality(S)
      PROVE  InOrder(S)[k] \in S /\ Rank(S, InOrder(S)[k]) = k
  <2>1. InOrder(S)[k] = CHOOSE i \in S : Rank(S, i) = k
    BY DEF InOrder, Rank
  <2>2. QED
    BY <2>1, RankOnto
<1>3. ASSUME NEW i \in S
      PROVE  Rank(S, i) \in 1..Cardinality(S) /\ InOrder(S)[Rank(S, i)] = i
  <2>1. Rank(S, i) \in 1..Cardinality(S)
    <3>1. i \in Nat /\ i <= i
      BY DEF UpTo
    <3>2. QED
      BY <1>1, <3>1, RankBounds, RankOrder
  <2>2. InOrder(S)[Rank(S, i)] \in S /\ Rank(S, InOrder(S)[Rank(S, i)]) = Rank(S, i)
    BY <1>2, <2>1
  <2>3. \A j \in S : Rank(S, j) = Rank(S, i) => j = i
    <3>1. SUFFICES ASSUME NEW j \in S, j # i
                   PROVE  Rank(S, j) # Rank(S, i)
      OBVIOUS
    <3>2. i \in Nat /\ j \in Nat /\ Rank(S, i) \in Nat /\ Rank(S, j) \in Nat
      BY RankBounds DEF UpTo
    <3>3. CASE i < j
      BY <3>2, <3>3, RankOrder
    <3>4. CASE j < i
      BY <3>2, <3>4, RankOrder
    <3>5. QED
      BY <3>1, <3>2, <3>3, <3>4
  <2>4. QED
    BY <2>1, <2>2, <2>3
<1>4. QED
  BY <1>1, <1>2, <1>3

LEMMA OrderOfNext ==
  ASSUME NEW S, NEW n, UpTo(S, n)
  PROVE  LET T == S \cup {n + 1}
         IN /\ Cardinality(T) = Cardinality(S) + 1
            /\ \A k \in 1..Cardinality(S) : InOrder(T)[k] = InOrder(S)[k]
            /\ InOrder(T)[Cardinality(S) + 1] = n + 1
<1> DEFINE T == S \cup {n + 1}
<1>1. UpTo(T, n + 1) /\ n + 1 \notin S /\ n \in Nat
  BY DEF UpTo
<1>2. Cardinality(T) = Cardinality(S) + 1 /\ Cardinality(S) \in Nat
  BY <1>1, RankBounds, FS_AddElement
<1>3. \A i \in S : Rank(T, i) = Rank(S, i)
  <2>1. SUFFICES ASSUME NEW i \in S
                 PROVE  {j \in T : j <= i} = {j \in S : j <= i}
    BY DEF Rank
  <2>2. QED
    BY <1>1 DEF UpTo
<1>4. Rank(T, n + 1) = Cardinality(T)
  BY <1>1, RankStep
<1> HIDE DEF T
<1>5. \A i \in T : InOrder(T)[Rank(T, i)] = i
  BY <1>1, OrderFacts
<1>6. \A k \in 1..Cardinality(S) : InOrder(S)[k] \in S /\ Rank(S, InOrder(S)[k]) = k
  BY OrderFacts
<1>7. S \subseteq T /\ n + 1 \in T
  BY DEF T
<1>8. QED
  BY <1>2, <1>3, <1>4, <1>5, <1>6, <1>7 DEF T

LEMMA OrderOfRun ==
  ASSUME NEW a \in Nat, NEW m \in Nat
  PROVE  /\ Cardinality((a + 1)..(a + m)) = m
         /\ \A k \in 1..m : InOrder((a + 1)..(a + m))[k] = a + k
<1> DEFINE S == (a + 1)..(a + m)
<1>1. Cardinality(S) = m
  BY FS_Interval
<1>2. \A k \in 1..m : Rank(S, a + k) = k /\ a + k \in S
  <2>1. SUFFICES ASSUME NEW k \in 1..m
                 PROVE  Rank(S, a + k) = k
    OBVIOUS
  <2>2. \A j : j \in S /\ j <= a + k <=> j \in (a + 1)..(a + k)
    OBVIOUS
  <2>3. {j \in S : j <= a + k} = (a + 1)..(a + k)
    BY <2>2
  <2>4. Cardinality((a + 1)..(a + k)) = k
    <3>1. a + 1 \in Int /\ a + k \in Int /\ ~(a + 1 > a + k) /\ (a + k) - (a + 1) + 1 = k
      OBVIOUS
    <3>2. QED
      BY <3>1, FS_Interval
  <2>5. QED
    BY <2>3, <2>4 DEF Rank
<1>3. UpTo(S, a + m)
  BY DEF UpTo
<1> HIDE DEF S
<1>4. \A i \in S : InOrder(S)[Rank(S, i)] = i
  BY <1>3, OrderFacts
<1>5. QED
  BY <1>1, <1>2, <1>4 DEF S

-----------------------------------------------------------------------------
(* One line. *)

LEMMA FirstWrongFacts ==
  ASSUME NEW checks, NEW n \in Nat, DOMAIN checks = 1..n
  PROVE  /\ FirstWrong(checks) = <<>> <=> \A i \in 1..n : ~checks[i][1]
         /\ FirstWrong(checks) # <<>> => \E i \in 1..n : FirstWrong(checks) = <<checks[i][2]>>
<1> DEFINE wrong == {i \in DOMAIN checks : checks[i][1]}
           first == CHOOSE i \in wrong : \A j \in wrong : i <= j
<1>1. CASE wrong = {}
  <2>1. FirstWrong(checks) = <<>>
    BY <1>1 DEF FirstWrong
  <2>2. QED
    BY <1>1, <2>1
<1>2. CASE wrong # {}
  <2>1. FirstWrong(checks) = <<checks[first][2]>>
    BY <1>2 DEF FirstWrong
  <2>2. wrong \subseteq Nat
    OBVIOUS
  <2>3. first \in wrong
    BY <1>2, <2>2, LeastNumber
  <2>4. first \in 1..n /\ checks[first][1]
    BY <2>3
  <2> HIDE DEF first, wrong
  <2>5. <<checks[first][2]>> # <<>>
    OBVIOUS
  <2>6. QED
    BY <2>1, <2>4, <2>5
<1>3. QED
  BY <1>1, <1>2

\* The tables.
OfferNames == {"group_id", "sequence", "generation_id", "compatibility_id", "abi_id",
               "member", "changed_input"}
WasmNames == {"group_id", "sequence", "generation_id", "abi_id", "artifact", "entry"}
GroupNames == {"group_id", "publication_key", "baseline_sequence", "compatibility_id",
               "abi_id", "generation_root_hint", "member"}

LEMMA OfferShape ==
  /\ DOMAIN Shape("offer") = OfferNames
  /\ Shape("offer")["group_id"] = <<"identity">>
  /\ Shape("offer")["sequence"] = <<"canonical">>
  /\ Shape("offer")["generation_id"] = <<"component">>
  /\ Shape("offer")["compatibility_id"] = <<"identity">>
  /\ Shape("offer")["abi_id"] = <<"identity">>
  /\ Shape("offer")["member"] = <<"path", "object", "digest", "identity", "text">>
  /\ Shape("offer")["changed_input"] = <<"identity">>
BY DEF Shape, OfferNames

LEMMA WasmShape ==
  /\ DOMAIN Shape("wasm") = WasmNames
  /\ Shape("wasm")["group_id"] = <<"identity">>
  /\ Shape("wasm")["sequence"] = <<"canonical">>
  /\ Shape("wasm")["generation_id"] = <<"component">>
  /\ Shape("wasm")["abi_id"] = <<"identity">>
  /\ Shape("wasm")["artifact"] = <<"path", "digest">>
  /\ Shape("wasm")["entry"] = <<"component">>
BY DEF Shape, WasmNames

LEMMA GroupShape ==
  /\ DOMAIN Shape("group") = GroupNames
  /\ Shape("group")["group_id"] = <<"identity">>
  /\ Shape("group")["publication_key"] = <<"component">>
  /\ Shape("group")["baseline_sequence"] = <<"decimal">>
  /\ Shape("group")["compatibility_id"] = <<"identity">>
  /\ Shape("group")["abi_id"] = <<"identity">>
  /\ Shape("group")["generation_root_hint"] = <<"identity">>
  /\ Shape("group")["member"] = <<"path">>
BY DEF Shape, GroupNames

\* The fields of a directive are numbered from one, and it has one at least.
LEMMA ShapeTypes ==
  ASSUME NEW d \in Dialects
  PROVE  /\ "#" \notin DOMAIN Shape(d)
         /\ \A x \in DOMAIN Shape(d) :
              /\ Len(Shape(d)[x]) \in Nat /\ 1 <= Len(Shape(d)[x])
              /\ DOMAIN Shape(d)[x] = 1..Len(Shape(d)[x])
<1>1. CASE d = "offer"
  BY <1>1, OfferShape DEF OfferNames
<1>2. CASE d = "wasm"
  BY <1>2, WasmShape DEF WasmNames
<1>3. CASE d = "group"
  BY <1>3, GroupShape DEF GroupNames
<1>4. QED
  BY <1>1, <1>2, <1>3 DEF Dialects

LEMMA RepeatedTable ==
  /\ DOMAIN Repeated("offer") = {"member", "changed_input"}
  /\ Repeated("offer")["member"] = <<<<1, "duplicate_member">>, <<2, "duplicate_object_path">>>>
  /\ Repeated("offer")["changed_input"] = <<<<1, "duplicate_changed_input">>>>
  /\ DOMAIN Repeated("wasm") = {"entry"}
  /\ Repeated("wasm")["entry"] = <<<<1, "duplicate_entry">>>>
  /\ DOMAIN Repeated("group") = {"member"}
  /\ Repeated("group")["member"] = <<<<1, "duplicate_member">>>>
BY DEF Repeated

\* A repeated directive is told apart by fields it has.
LEMMA RepeatedTypes ==
  ASSUME NEW d \in Dialects, NEW x \in DOMAIN Repeated(d)
  PROVE  /\ x \in DOMAIN Shape(d)
         /\ \E n \in Nat : DOMAIN Repeated(d)[x] = 1..n
         /\ \A k \in DOMAIN Repeated(d)[x] :
              /\ Repeated(d)[x][k][1] \in 1..Len(Shape(d)[x])
              /\ Repeated(d)[x][k][2] \in Codes(d)
<1>1. CASE d = "offer" /\ x = "member"
  <2>1. Len(Shape(d)[x]) = 5 /\ x \in DOMAIN Shape(d)
    BY <1>1, OfferShape DEF OfferNames
  <2>2. Repeated(d)[x] = <<<<1, "duplicate_member">>, <<2, "duplicate_object_path">>>>
    BY <1>1, RepeatedTable
  <2>3. DOMAIN Repeated(d)[x] = 1..2
    BY <2>2
  <2>4. {"duplicate_member", "duplicate_object_path"} \subseteq Codes(d)
    BY <1>1 DEF Codes
  <2>5. QED
    BY <2>1, <2>2, <2>3, <2>4
<1>2. CASE x # "member" \/ d # "offer"
  <2>1. 1 <= Len(Shape(d)[x]) /\ x \in DOMAIN Shape(d) /\ Len(Shape(d)[x]) \in Nat
    BY <1>2, OfferShape, WasmShape, GroupShape, RepeatedTable DEF OfferNames, WasmNames, GroupNames, Dialects
  <2>2. \E c \in Codes(d) : Repeated(d)[x] = <<<<1, c>>>>
    BY <1>2, RepeatedTable DEF Codes, Dialects
  <2>3. QED
    BY <2>1, <2>2
<1>3. QED
  BY <1>1, <1>2

\* The checks of the fields find exactly the lines that are not well formed.
LEMMA CheckedFields ==
  ASSUME NEW d \in Dialects, NEW line \in AnyLine, line.directive \in DOMAIN Shape(d)
  PROVE  LET shape == Shape(d)[line.directive]
         IN WellFormed(d, line) <=> /\ ~Unreadable(shape, line.fields)
                                    /\ ~Trailing(shape, line)
                                    /\ ~Misused(shape, line.fields)
<1> DEFINE s == Shape(d)[line.directive]
           f == line.fields
           Bad(i) == Malformed(s[i], f[i])
           Wrong(i) == f[i].text \notin Acceptable(s[i])
<1>1. Len(s) \in Nat /\ 1 <= Len(s) /\ DOMAIN s = 1..Len(s)
  BY ShapeTypes
<1>2. Len(f) \in Nat /\ DOMAIN f = 1..Len(f) /\ line.rest \in BOOLEAN
  BY DEF AnyLine
<1>3. Unreadable(s, f) <=> \E i \in DOMAIN s : i > Len(f) \/ Bad(i)
  BY DEF Unreadable
<1>4. Misused(s, f) <=> \E i \in DOMAIN s \cap DOMAIN f : Wrong(i)
  BY DEF Misused
<1>5. Trailing(s, line) <=> line.rest \/ Len(f) > Len(s)
  BY DEF Trailing
<1>6. WellFormed(d, line) <=> ~line.rest /\ Len(f) = Len(s) /\ \A i \in DOMAIN f : ~Bad(i) /\ ~Wrong(i)
  BY DEF WellFormed
<1> HIDE DEF s, f, Bad, Wrong
<1>7. WellFormed(d, line) <=> ~Unreadable(s, f) /\ ~Trailing(s, line) /\ ~Misused(s, f)
  <2>1. ASSUME ~Unreadable(s, f), ~Trailing(s, line)
        PROVE  Len(f) = Len(s)
    <3>1. ~(Len(f) > Len(s))
      BY <1>5, <2>1
    <3>2. Len(s) \in DOMAIN s
      BY <1>1
    <3>3. ~(Len(s) > Len(f))
      BY <1>3, <2>1, <3>2
    <3> DEFINE a == Len(f)
               b == Len(s)
    <3>4. a \in Nat /\ b \in Nat /\ ~(a > b) /\ ~(b > a)
      BY <1>1, <1>2, <3>1, <3>3
    <3> HIDE DEF a, b
    <3>5. a = b
      BY <3>4
    <3>6. QED
      BY <3>5 DEF a, b
  <2>2. CASE Len(f) = Len(s)
    <3>1. DOMAIN s = DOMAIN f /\ \A i \in DOMAIN s : ~(i > Len(f))
      BY <1>1, <1>2, <2>2
    <3>2. ~(Len(f) > Len(s))
      BY <1>1, <2>2
    <3>3. Unreadable(s, f) <=> \E i \in DOMAIN f : Bad(i)
      BY <1>3, <3>1
    <3>4. QED
      BY <1>4, <1>5, <1>6, <2>2, <3>1, <3>2, <3>3, Zenon
  <2>3. QED
    BY <1>6, <2>1, <2>2
<1>8. QED
  BY <1>7 DEF s, f

-----------------------------------------------------------------------------
(* What the lines read so far declare. *)

LEMMA OfFacts ==
  ASSUME NEW ls, NEW n \in Nat, NEW x
  PROVE  /\ UpTo(Of(ls, n, x), n) /\ Of(ls, 0, x) = {}
         /\ Of(ls, n + 1, x) = IF ls[n + 1].directive = x THEN Of(ls, n, x) \cup {n + 1}
                               ELSE Of(ls, n, x)
         /\ n + 1 \notin Of(ls, n, x)
<1>1. UpTo(Of(ls, n, x), n) /\ Of(ls, 0, x) = {} /\ n + 1 \notin Of(ls, n, x)
  BY DEF UpTo, Of
<1>2. \A i : i \in 1..(n + 1) <=> i \in 1..n \/ i = n + 1
  OBVIOUS
<1>3. Of(ls, n + 1, x) = IF ls[n + 1].directive = x THEN Of(ls, n, x) \cup {n + 1}
                         ELSE Of(ls, n, x)
  <2>1. CASE ls[n + 1].directive = x
    BY <1>2, <2>1, Zenon DEF Of
  <2>2. CASE ls[n + 1].directive # x
    BY <1>2, <2>2, Zenon DEF Of
  <2>3. QED
    BY <2>1, <2>2
<1>4. QED
  BY <1>1, <1>3

\* The meaning has the lines of a directive in their order, each once.
LEMMA MeaningFacts ==
  ASSUME NEW d, NEW ls, NEW n \in Nat, NEW x \in DOMAIN Shape(d)
  PROVE  LET m == Meaning(d, ls, n)[x]
             S == Of(ls, n, x)
         IN /\ Cardinality(S) \in Nat /\ DOMAIN m = 1..Cardinality(S)
            /\ \A k \in 1..Cardinality(S) : InOrder(S)[k] \in S /\ m[k] = Texts(ls[InOrder(S)[k]])
            /\ \A i \in S : \E k \in 1..Cardinality(S) : InOrder(S)[k] = i
            /\ \A k, l \in 1..Cardinality(S) : InOrder(S)[k] = InOrder(S)[l] => k = l
            /\ m = <<>> <=> S = {}
<1> DEFINE m == Meaning(d, ls, n)[x]
           S == Of(ls, n, x)
<1>1. m = [k \in 1..Cardinality(S) |-> Texts(ls[InOrder(S)[k]])]
  BY DEF Meaning
<1>2. UpTo(S, n)
  BY OfFacts
<1>3. IsFiniteSet(S)
  BY <1>2, RankBounds
<1> HIDE DEF S
<1>4. /\ Cardinality(S) \in Nat
      /\ \A k \in 1..Cardinality(S) : InOrder(S)[k] \in S /\ Rank(S, InOrder(S)[k]) = k
      /\ \A i \in S : Rank(S, i) \in 1..Cardinality(S) /\ InOrder(S)[Rank(S, i)] = i
  BY <1>2, OrderFacts
<1>5. S = {} <=> Cardinality(S) = 0
  BY <1>3, FS_EmptySet
<1>6. m = <<>> <=> Cardinality(S) = 0
  BY <1>1, <1>4
<1>7. \A k, l \in 1..Cardinality(S) : InOrder(S)[k] = InOrder(S)[l] => k = l
  BY <1>4
<1>8. \A i \in S : \E k \in 1..Cardinality(S) : InOrder(S)[k] = i
  BY <1>4
<1>9. \A k \in 1..Cardinality(S) : m[k] = Texts(ls[InOrder(S)[k]])
  BY <1>1
<1> HIDE DEF m
<1>10. DOMAIN m = 1..Cardinality(S)
  BY <1>1 DEF m
<1>11. QED
  BY <1>4, <1>5, <1>6, <1>7, <1>8, <1>9, <1>10 DEF m, S

\* Reading a line appends it to what was read.
LEMMA MeaningOfNext ==
  ASSUME NEW d, NEW ls, NEW n \in Nat
  PROVE  Meaning(d, ls, n + 1) =
           IF ls[n + 1].directive \in DOMAIN Shape(d)
           THEN [Meaning(d, ls, n) EXCEPT ![ls[n + 1].directive] = Append(@, Texts(ls[n + 1]))]
           ELSE Meaning(d, ls, n)
<1> DEFINE M(p) == Meaning(d, ls, p)
           y == ls[n + 1].directive
<1>1. DOMAIN M(n) = DOMAIN Shape(d) /\ DOMAIN M(n + 1) = DOMAIN Shape(d)
      /\ M(n) = [x \in DOMAIN Shape(d) |-> M(n)[x]] /\ M(n + 1) = [x \in DOMAIN Shape(d) |-> M(n + 1)[x]]
  BY DEF Meaning
<1>2. ASSUME NEW x \in DOMAIN Shape(d), x # y
      PROVE  M(n + 1)[x] = M(n)[x]
  <2>1. Of(ls, n + 1, x) = Of(ls, n, x)
    BY <1>2, OfFacts
  <2>2. QED
    BY <2>1 DEF Meaning
<1>3. ASSUME y \in DOMAIN Shape(d)
      PROVE  M(n + 1)[y] = Append(M(n)[y], Texts(ls[n + 1]))
  <2> DEFINE S == Of(ls, n, y)
             T == S \cup {n + 1}
             c == Cardinality(S)
  <2>1. Of(ls, n + 1, y) = T /\ UpTo(S, n)
    BY OfFacts
  <2>2. M(n + 1)[y] = [k \in 1..Cardinality(T) |-> Texts(ls[InOrder(T)[k]])]
    BY <1>3, <2>1 DEF Meaning
  <2>3. M(n)[y] = [k \in 1..c |-> Texts(ls[InOrder(S)[k]])]
    BY <1>3 DEF Meaning
  <2>4. c \in Nat
    BY <2>1, RankBounds
  <2> HIDE DEF S
  <2>5. /\ Cardinality(T) = c + 1
        /\ \A k \in 1..c : InOrder(T)[k] = InOrder(S)[k]
        /\ InOrder(T)[c + 1] = n + 1
    BY <2>1, OrderOfNext
  <2> HIDE DEF T, c, M, y
  <2>6. M(n + 1)[y] = [k \in 1..(c + 1) |-> IF k = c + 1 THEN Texts(ls[n + 1]) ELSE M(n)[y][k]]
    <3>1. \A k \in 1..(c + 1) : k # c + 1 => k \in 1..c
      BY <2>4
    <3>2. \A k \in 1..(c + 1) :
            Texts(ls[InOrder(T)[k]]) = IF k = c + 1 THEN Texts(ls[n + 1]) ELSE M(n)[y][k]
      BY <2>3, <2>5, <3>1
    <3>3. QED
      BY <2>2, <2>5, <3>2
  <2>7. Len(M(n)[y]) = c
    BY <2>3, <2>4
  <2>8. Append(M(n)[y], Texts(ls[n + 1])) = [k \in 1..(c + 1) |-> IF k = c + 1 THEN Texts(ls[n + 1]) ELSE M(n)[y][k]]
    BY <2>3, <2>4, <2>7
  <2>9. QED
    BY <2>6, <2>8
<1> HIDE DEF M
<1>4. CASE y \in DOMAIN Shape(d)
  <2>1. M(n + 1) = [M(n) EXCEPT ![y] = Append(@, Texts(ls[n + 1]))]
    BY <1>1, <1>2, <1>3, <1>4
  <2>2. QED
    BY <1>4, <2>1 DEF M
<1>5. CASE y \notin DOMAIN Shape(d)
  <2>1. M(n + 1) = M(n)
    BY <1>1, <1>2, <1>5
  <2>2. QED
    BY <1>5, <2>1 DEF M
<1>6. QED
  BY <1>4, <1>5

\* What is consistent up to a line is so up to every line before it.
LEMMA ConsistentBefore ==
  ASSUME NEW d, NEW ls, NEW n \in Nat, Consistent(d, ls, n), NEW m \in Int, m <= n
  PROVE  Consistent(d, ls, m)
<1>1. \A i : i \in 1..m => i \in 1..n
  OBVIOUS
<1>2. \A x : \A i : i \in Of(ls, m, x) => i \in Of(ls, n, x)
  BY <1>1 DEF Of
<1>3. \A i \in 1..m : ls[i].directive = "#" \/ WellFormed(d, ls[i])
  BY <1>1 DEF Consistent
<1>4. \A x \in Singles(d) : \A i, j \in Of(ls, m, x) : i = j
  BY <1>2, Zenon DEF Consistent
<1>5. \A x \in DOMAIN Repeated(d) : \A k \in DOMAIN Repeated(d)[x] :
        \A i, j \in Of(ls, m, x) : i # j =>
          ls[i].fields[Repeated(d)[x][k][1]].text # ls[j].fields[Repeated(d)[x][k][1]].text
  <2> DEFINE Apart(x, i, j) == \A k \in DOMAIN Repeated(d)[x] :
               ls[i].fields[Repeated(d)[x][k][1]].text # ls[j].fields[Repeated(d)[x][k][1]].text
  <2>1. \A x \in DOMAIN Repeated(d) : \A i, j \in Of(ls, n, x) : i # j => Apart(x, i, j)
    BY DEF Consistent
  <2> HIDE DEF Apart
  <2>2. \A x \in DOMAIN Repeated(d) : \A i, j \in Of(ls, m, x) : i # j => Apart(x, i, j)
    BY <1>2, <2>1
  <2>3. QED
    BY <2>2 DEF Apart
<1>6. QED
  BY <1>3, <1>4, <1>5, Zenon DEF Consistent

\* A line that is no part of a document because of the lines before it.
Clash(d, ls, n) ==
  LET y == ls[n + 1].directive
  IN \/ y \in Singles(d) /\ Of(ls, n, y) # {}
     \/ /\ y \in DOMAIN Repeated(d)
        /\ \E k \in DOMAIN Repeated(d)[y] : \E i \in Of(ls, n, y) :
             ls[i].fields[Repeated(d)[y][k][1]].text = ls[n + 1].fields[Repeated(d)[y][k][1]].text

LEMMA ConsistentOfNext ==
  ASSUME NEW d \in Dialects, NEW ls, NEW n \in Nat, Consistent(d, ls, n)
  PROVE  Consistent(d, ls, n + 1) <=>
           /\ ls[n + 1].directive = "#" \/ WellFormed(d, ls[n + 1])
           /\ ~Clash(d, ls, n)
<1> DEFINE y == ls[n + 1].directive
           Key(x, k) == Repeated(d)[x][k][1]
           Field(i, p) == ls[i].fields[p].text
           O(x) == Of(ls, n, x)
           P(x) == Of(ls, n + 1, x)
           OnceEach(Q(_)) == \A x \in Singles(d) : \A i, j \in Q(x) : i = j
           Apart(Q(_)) == \A x \in DOMAIN Repeated(d) : \A k \in DOMAIN Repeated(d)[x] :
                            \A i, j \in Q(x) : i # j => Field(i, Key(x, k)) # Field(j, Key(x, k))
<1>1. /\ \A x : x # y => P(x) = O(x)
      /\ P(y) = O(y) \cup {n + 1}
      /\ \A x : n + 1 \notin O(x)
  BY OfFacts
<1>2. n + 1 \in 1..(n + 1) /\ \A i : i \in 1..(n + 1) <=> i \in 1..n \/ i = n + 1
  OBVIOUS
<1>3. (\A i \in 1..(n + 1) : ls[i].directive = "#" \/ WellFormed(d, ls[i])) <=> y = "#" \/ WellFormed(d, ls[n + 1])
  BY <1>2 DEF Consistent
<1>4. OnceEach(O) /\ Apart(O)
  BY Zenon DEF Consistent
<1>5. OnceEach(P) <=> ~(y \in Singles(d) /\ O(y) # {})
  <2> HIDE DEF O, P, y
  <2>1. CASE y \in Singles(d) /\ O(y) # {}
    <3>1. PICK i \in O(y) : TRUE
      BY <2>1
    <3>2. i \in P(y) /\ n + 1 \in P(y) /\ i # n + 1
      BY <1>1, <3>1
    <3>3. QED
      BY <2>1, <3>2, Zenon
  <2>2. CASE ~(y \in Singles(d) /\ O(y) # {})
    <3>1. ASSUME NEW x \in Singles(d), NEW i \in P(x), NEW j \in P(x)
          PROVE  i = j
      <4>1. CASE x = y
        <5>1. i = n + 1 /\ j = n + 1
          BY <1>1, <2>2, <3>1, <4>1
        <5>2. QED
          BY <5>1
      <4>2. CASE x # y
        <5>1. i \in O(x) /\ j \in O(x)
          BY <1>1, <3>1, <4>2
        <5>2. QED
          BY <1>4, <3>1, <5>1, Zenon
      <4>3. QED
        BY <4>1, <4>2
    <3>2. QED
      BY <2>2, <3>1, Zenon
  <2>3. QED
    BY <2>1, <2>2
<1>6. Apart(P) <=> ~(y \in DOMAIN Repeated(d)
                     /\ \E k \in DOMAIN Repeated(d)[y] : \E i \in O(y) :
                          Field(i, Key(y, k)) = Field(n + 1, Key(y, k)))
  <2> HIDE DEF O, P, y, Field, Key
  <2>1. ASSUME y \in DOMAIN Repeated(d), NEW k \in DOMAIN Repeated(d)[y], NEW i \in O(y),
               Field(i, Key(y, k)) = Field(n + 1, Key(y, k))
        PROVE  ~Apart(P)
    <3>1. i \in P(y) /\ n + 1 \in P(y) /\ i # n + 1
      BY <1>1, <2>1
    <3>2. QED
      BY <2>1, <3>1, Zenon
  <2>2. ASSUME ~(y \in DOMAIN Repeated(d)
                 /\ \E k \in DOMAIN Repeated(d)[y] : \E i \in O(y) :
                      Field(i, Key(y, k)) = Field(n + 1, Key(y, k)))
        PROVE  Apart(P)
    <3>1. SUFFICES ASSUME NEW x \in DOMAIN Repeated(d), NEW k \in DOMAIN Repeated(d)[x],
                          NEW i \in P(x), NEW j \in P(x), i # j
                   PROVE  Field(i, Key(x, k)) # Field(j, Key(x, k))
      BY Zenon
    <3>2. CASE i \in O(x) /\ j \in O(x)
      BY <1>4, <3>1, <3>2, Zenon
    <3>3. CASE x = y /\ i = n + 1
      <4>1. j \in O(y)
        BY <1>1, <3>1, <3>3
      <4>2. QED
        BY <2>2, <3>1, <3>3, <4>1
    <3>4. CASE x = y /\ j = n + 1
      <4>1. i \in O(y)
        BY <1>1, <3>1, <3>4
      <4>2. QED
        BY <2>2, <3>1, <3>4, <4>1
    <3>5. QED
      BY <1>1, <3>1, <3>2, <3>3, <3>4
  <2>3. QED
    BY <2>1, <2>2
<1>7. Clash(d, ls, n) <=> \/ y \in Singles(d) /\ O(y) # {}
                          \/ y \in DOMAIN Repeated(d)
                             /\ \E k \in DOMAIN Repeated(d)[y] : \E i \in O(y) :
                                  Field(i, Key(y, k)) = Field(n + 1, Key(y, k))
  BY DEF Clash
<1>8. Consistent(d, ls, n + 1) <=>
        /\ \A i \in 1..(n + 1) : ls[i].directive = "#" \/ WellFormed(d, ls[i])
        /\ OnceEach(P) /\ Apart(P)
  BY Zenon DEF Consistent
<1> HIDE DEF O, P, y, Field, Key, OnceEach, Apart
<1>9. QED
  BY <1>3, <1>5, <1>6, <1>7, <1>8 DEF y

\* What a line is rejected for.
LEMMA IssueDecides ==
  ASSUME NEW d \in Dialects, NEW ls \in Seq(AnyLine), NEW n \in Nat, n < Len(ls),
         Consistent(d, ls, n), ls[n + 1].directive # "#"
  PROVE  LET issue == Issue(d, ls[n + 1], Meaning(d, ls, n))
         IN /\ issue = <<>> <=> Consistent(d, ls, n + 1)
            /\ issue # <<>> => issue[1] \in Codes(d)
<1> DEFINE line == ls[n + 1]
           y == line.directive
           before == Meaning(d, ls, n)
           checked == Checked(d, line, before)
           clashes == Clashes(d, line, before)
           issue == Issue(d, line, before)
<1>1. line \in AnyLine /\ \A i \in 1..n : ls[i] \in AnyLine
  <2>1. n + 1 \in 1..Len(ls) /\ \A i \in 1..n : i \in 1..Len(ls)
    OBVIOUS
  <2>2. QED
    BY <2>1
<1>2. Consistent(d, ls, n + 1) <=> WellFormed(d, line) /\ ~Clash(d, ls, n)
  BY ConsistentOfNext
<1>3. CASE y \notin DOMAIN Shape(d)
  <2>1. issue = <<"unknown_directive">>
    BY <1>3 DEF Issue
  <2>2. ~WellFormed(d, line)
    BY <1>3 DEF WellFormed
  <2>3. "unknown_directive" \in Codes(d)
    BY DEF Codes
  <2>4. <<"unknown_directive">> # <<>> /\ <<"unknown_directive">>[1] = "unknown_directive"
    OBVIOUS
  <2> HIDE DEF issue, line
  <2>5. QED
    BY <1>2, <2>1, <2>2, <2>3, <2>4 DEF issue, line
<1>4. CASE y \in DOMAIN Shape(d)
  <2>1. DOMAIN checked = 1..4
    BY DEF Checked
  <2>2. FirstWrong(checked) = <<>> <=> ~(y \in Singles(d) /\ before[y] # <<>>) /\ WellFormed(d, line)
    <3>1. FirstWrong(checked) = <<>> <=> \A i \in 1..4 : ~checked[i][1]
      BY <2>1, FirstWrongFacts
    <3>2. (\A i \in 1..4 : ~checked[i][1]) <=> ~checked[1][1] /\ ~checked[2][1] /\ ~checked[3][1] /\ ~checked[4][1]
      OBVIOUS
    <3>3. /\ checked[1][1] <=> y \in Singles(d) /\ before[y] # <<>>
          /\ checked[2][1] <=> Unreadable(Shape(d)[y], line.fields)
          /\ checked[3][1] <=> Trailing(Shape(d)[y], line)
          /\ checked[4][1] <=> Misused(Shape(d)[y], line.fields)
      BY DEF Checked
    <3>4. WellFormed(d, line) <=> /\ ~Unreadable(Shape(d)[y], line.fields)
                                  /\ ~Trailing(Shape(d)[y], line)
                                  /\ ~Misused(Shape(d)[y], line.fields)
      BY <1>1, <1>4, CheckedFields
    <3> HIDE DEF checked, line, y
    <3>5. QED
      BY <3>1, <3>2, <3>3, <3>4
  <2>3. FirstWrong(checked) # <<>> => \E c \in Codes(d) : FirstWrong(checked) = <<c>>
    <3>1. FirstWrong(checked) # <<>> => \E i \in 1..4 : FirstWrong(checked) = <<checked[i][2]>>
      BY <2>1, FirstWrongFacts
    <3>2. \A i \in 1..4 : checked[i][2] \in {"duplicate_field", "malformed_value", "unexpected_value", "invalid_field"}
      BY DEF Checked
    <3>3. {"duplicate_field", "malformed_value", "unexpected_value", "invalid_field"} \subseteq Codes(d)
      BY DEF Codes
    <3> HIDE DEF checked
    <3>4. QED
      BY <3>1, <3>2, <3>3
  <2>4. before[y] = <<>> <=> Of(ls, n, y) = {}
    BY <1>4, MeaningFacts
  <2>5. CASE y \in DOMAIN Repeated(d)
    <3>1. PICK m \in Nat : DOMAIN Repeated(d)[y] = 1..m
      BY <2>5, RepeatedTypes
    <3>2. DOMAIN clashes = 1..m
      BY <3>1 DEF Clashes
    <3>3. FirstWrong(clashes) = <<>> <=> \A k \in 1..m : ~clashes[k][1]
      BY <3>2, FirstWrongFacts
    <3>4. FirstWrong(clashes) # <<>> => \E c \in Codes(d) : FirstWrong(clashes) = <<c>>
      <4>1. FirstWrong(clashes) # <<>> => \E k \in 1..m : FirstWrong(clashes) = <<clashes[k][2]>>
        BY <3>2, FirstWrongFacts
      <4>2. \A k \in 1..m : clashes[k][2] = Repeated(d)[y][k][2]
        BY <3>1 DEF Clashes
      <4>3. \A k \in 1..m : Repeated(d)[y][k][2] \in Codes(d)
        BY <2>5, <3>1, RepeatedTypes
      <4> HIDE DEF clashes, y
      <4>4. QED
        BY <4>1, <4>2, <4>3
    <3>5. WellFormed(d, line) => (Clash(d, ls, n) <=> \E k \in 1..m : clashes[k][1])
      <4> DEFINE Key(k) == Repeated(d)[y][k][1]
                 S == Of(ls, n, y)
      <4>1. SUFFICES ASSUME WellFormed(d, line)
                     PROVE  Clash(d, ls, n) <=> \E k \in 1..m : clashes[k][1]
        OBVIOUS
      <4>2. Clash(d, ls, n) <=> \E k \in 1..m : \E i \in S : ls[i].fields[Key(k)].text = line.fields[Key(k)].text
        <5>1. y \notin Singles(d)
          BY <2>5 DEF Singles
        <5>2. QED
          BY <2>5, <3>1, <5>1 DEF Clash
      <4>3. \A k \in 1..m : clashes[k][1] <=> \E i \in DOMAIN before[y] : before[y][i][Key(k)] = line.fields[Key(k)].text
        BY <3>1 DEF Clashes
      <4>4. \A k \in 1..m : \A i \in S : ls[i].fields[Key(k)].text = Texts(ls[i])[Key(k)]
        <5>1. SUFFICES ASSUME NEW k \in 1..m, NEW i \in S
                       PROVE  Key(k) \in DOMAIN ls[i].fields
          BY DEF Texts
        <5>2. Key(k) \in 1..Len(Shape(d)[y])
          BY <2>5, <3>1, RepeatedTypes
        <5>3. i \in 1..n /\ ls[i].directive = y
          BY DEF Of
        <5>4. WellFormed(d, ls[i])
          <6>1. y # "#"
            OBVIOUS
          <6>2. QED
            BY <5>3, <6>1 DEF Consistent
        <5>5. Len(ls[i].fields) = Len(Shape(d)[y])
          BY <5>3, <5>4 DEF WellFormed
        <5>6. DOMAIN ls[i].fields = 1..Len(ls[i].fields)
          BY <1>1, <5>3 DEF AnyLine
        <5>7. QED
          BY <5>2, <5>5, <5>6
      <4>5. /\ \A j \in DOMAIN before[y] : \E i \in S : before[y][j] = Texts(ls[i])
            /\ \A i \in S : \E j \in DOMAIN before[y] : before[y][j] = Texts(ls[i])
        <5>1. /\ DOMAIN before[y] = 1..Cardinality(S)
              /\ \A k \in 1..Cardinality(S) : InOrder(S)[k] \in S /\ before[y][k] = Texts(ls[InOrder(S)[k]])
              /\ \A i \in S : \E k \in 1..Cardinality(S) : InOrder(S)[k] = i
          <6> HIDE DEF y
          <6>1. QED
            BY <1>4, MeaningFacts
        <5> HIDE DEF S, before, y
        <5>2. QED
          BY <5>1
      <4> HIDE DEF S, before, y, line, clashes, Key
      <4>6. \A k \in 1..m : clashes[k][1] <=> \E i \in S : ls[i].fields[Key(k)].text = line.fields[Key(k)].text
        <5>1. TAKE k \in 1..m
        <5>2. clashes[k][1] <=> \E i \in DOMAIN before[y] : before[y][i][Key(k)] = line.fields[Key(k)].text
          BY <4>3
        <5>3. (\E i \in DOMAIN before[y] : before[y][i][Key(k)] = line.fields[Key(k)].text)
              <=> \E i \in S : Texts(ls[i])[Key(k)] = line.fields[Key(k)].text
          BY <4>5
        <5>4. QED
          BY <4>4, <5>2, <5>3
      <4>7. QED
        BY <4>2, <4>6
    <3>6. issue = IF FirstWrong(checked) # <<>> THEN FirstWrong(checked) ELSE FirstWrong(clashes)
      BY <1>4, <2>5 DEF Issue
    <3>7. y \notin Singles(d)
      BY <2>5 DEF Singles
    <3> HIDE DEF issue, checked, clashes, line, y, before
    <3>8. issue = <<>> <=> WellFormed(d, line) /\ ~Clash(d, ls, n)
      BY <2>2, <3>3, <3>5, <3>6, <3>7
    <3>9. issue # <<>> => issue[1] \in Codes(d)
      BY <2>3, <3>4, <3>6
    <3>10. QED
      BY <1>2, <3>8, <3>9 DEF issue, line, before
  <2>6. CASE y \notin DOMAIN Repeated(d)
    <3>1. issue = FirstWrong(checked)
      BY <1>4, <2>6 DEF Issue
    <3>2. y \in Singles(d)
      BY <1>4, <2>6 DEF Singles
    <3>3. Clash(d, ls, n) <=> Of(ls, n, y) # {}
      BY <2>6, <3>2 DEF Clash
    <3> HIDE DEF issue, checked, line, y, before
    <3>4. issue = <<>> <=> WellFormed(d, line) /\ ~Clash(d, ls, n)
      BY <2>2, <2>4, <3>1, <3>2, <3>3
    <3>5. issue # <<>> => issue[1] \in Codes(d)
      BY <2>3, <3>1
    <3>6. QED
      BY <1>2, <3>4, <3>5 DEF issue, line, before
  <2>7. QED
    BY <2>5, <2>6
<1>5. QED
  BY <1>3, <1>4

\* A file that declares a document declares one that validates.
LEMMA ConsistentIsValid ==
  ASSUME NEW d \in Dialects, NEW ls \in Seq(AnyLine), Consistent(d, ls, Len(ls))
  PROVE  /\ Missing(d, Meaning(d, ls, Len(ls))) = {} <=> Complete(d, ls)
         /\ Complete(d, ls) => Valid(d, Meaning(d, ls, Len(ls)))
<1> DEFINE n == Len(ls)
           m == Meaning(d, ls, n)
           S(x) == Of(ls, n, x)
<1>1. n \in Nat /\ DOMAIN m = DOMAIN Shape(d)
  BY DEF Meaning
<1>2. \A x \in DOMAIN Shape(d) :
        /\ DOMAIN m[x] = 1..Cardinality(S(x))
        /\ \A k \in 1..Cardinality(S(x)) : InOrder(S(x))[k] \in S(x) /\ m[x][k] = Texts(ls[InOrder(S(x))[k]])
        /\ \A k, l \in 1..Cardinality(S(x)) : InOrder(S(x))[k] = InOrder(S(x))[l] => k = l
        /\ m[x] = <<>> <=> S(x) = {}
  <2>1. SUFFICES ASSUME NEW x \in DOMAIN Shape(d)
                 PROVE  /\ DOMAIN m[x] = 1..Cardinality(S(x))
                        /\ \A k \in 1..Cardinality(S(x)) :
                             InOrder(S(x))[k] \in S(x) /\ m[x][k] = Texts(ls[InOrder(S(x))[k]])
                        /\ \A k, l \in 1..Cardinality(S(x)) : InOrder(S(x))[k] = InOrder(S(x))[l] => k = l
                        /\ m[x] = <<>> <=> S(x) = {}
    BY Zenon
  <2>2. QED
    BY <1>1, MeaningFacts
<1>3. \A x \in DOMAIN Shape(d) : \A i \in S(x) :
        /\ WellFormed(d, ls[i]) /\ ls[i].directive = x
        /\ DOMAIN Texts(ls[i]) = 1..Len(Shape(d)[x]) /\ DOMAIN ls[i].fields = 1..Len(Shape(d)[x])
  <2>1. SUFFICES ASSUME NEW x \in DOMAIN Shape(d), NEW i \in S(x)
                 PROVE  /\ WellFormed(d, ls[i]) /\ ls[i].directive = x
                        /\ DOMAIN Texts(ls[i]) = 1..Len(Shape(d)[x])
                        /\ DOMAIN ls[i].fields = 1..Len(Shape(d)[x])
    OBVIOUS
  <2>2. i \in 1..n /\ ls[i].directive = x /\ x # "#" /\ ls[i] \in AnyLine
    BY ShapeTypes DEF Of
  <2>3. WellFormed(d, ls[i])
    BY <2>2 DEF Consistent
  <2>4. Len(ls[i].fields) = Len(Shape(d)[x]) /\ DOMAIN ls[i].fields = 1..Len(ls[i].fields)
    BY <2>2, <2>3 DEF WellFormed, AnyLine
  <2>5. QED
    BY <2>2, <2>3, <2>4 DEF Texts
<1>4. Missing(d, m) = {} <=> Complete(d, ls)
  <2>1. Required(d) \subseteq DOMAIN Shape(d)
    BY DEF Required
  <2> HIDE DEF m
  <2>2. QED
    BY <1>2, <2>1 DEF Missing, Complete
<1>5. HoldsAcceptable(d, m)
  <2>1. SUFFICES ASSUME NEW x \in DOMAIN Shape(d), NEW i \in DOMAIN m[x], NEW k \in DOMAIN m[x][i]
                 PROVE  m[x][i][k] \in Acceptable(Shape(d)[x][k])
    BY <1>1 DEF HoldsAcceptable
  <2>2. PICK j \in S(x) : m[x][i] = Texts(ls[j])
    BY <1>2, <2>1
  <2>3. WellFormed(d, ls[j]) /\ ls[j].directive = x /\ k \in DOMAIN ls[j].fields
    BY <1>3, <2>2
  <2>4. ls[j].fields[k].text \in Acceptable(Shape(d)[x][k])
    BY <2>3 DEF WellFormed
  <2>5. m[x][i][k] = ls[j].fields[k].text
    BY <2>2, <2>3 DEF Texts
  <2>6. QED
    BY <2>4, <2>5
<1>6. IsApart(d, m)
  <2>1. SUFFICES ASSUME NEW x \in DOMAIN Repeated(d), NEW k \in DOMAIN Repeated(d)[x],
                        NEW i \in DOMAIN m[x], NEW j \in DOMAIN m[x], i # j
                 PROVE  m[x][i][Repeated(d)[x][k][1]] # m[x][j][Repeated(d)[x][k][1]]
    BY Zenon DEF IsApart
  <2> DEFINE p == Repeated(d)[x][k][1]
             a == InOrder(S(x))[i]
             b == InOrder(S(x))[j]
  <2>2. x \in DOMAIN Shape(d) /\ p \in 1..Len(Shape(d)[x])
    BY <2>1, RepeatedTypes
  <2>3. a \in S(x) /\ b \in S(x) /\ m[x][i] = Texts(ls[a]) /\ m[x][j] = Texts(ls[b]) /\ a # b
    BY <1>2, <2>1, <2>2
  <2>4. ls[a].fields[p].text # ls[b].fields[p].text
    BY <2>1, <2>3 DEF Consistent
  <2>5. p \in DOMAIN ls[a].fields /\ p \in DOMAIN ls[b].fields
    BY <1>3, <2>2, <2>3
  <2>6. Texts(ls[a])[p] = ls[a].fields[p].text /\ Texts(ls[b])[p] = ls[b].fields[p].text
    BY <2>5 DEF Texts
  <2>7. QED
    BY <2>3, <2>4, <2>6
<1>7. QED
  BY <1>4, <1>5, <1>6 DEF Valid

-----------------------------------------------------------------------------
(* What a publisher writes. *)

\* The lines of directive x are those the document has for it, one after the
\* other.
Run(d, document, ls, x) ==
  \E a \in Nat :
    /\ Of(ls, Len(ls), x) = (a + 1)..(a + Len(document[x]))
    /\ \A k \in 1..Len(document[x]) : ls[a + k] = LineOf(d, x, document[x][k])

\* A file that holds the directives X of a document and nothing else.
Holds(d, document, ls, X) ==
  /\ ls \in Seq(AnyLine)
  /\ \A x \in X : Run(d, document, ls, x)
  /\ \A i \in 1..Len(ls) : ls[i].directive \in X

LEMMA BlockFacts ==
  ASSUME NEW d \in Dialects, NEW document \in Documents(d), NEW x \in DOMAIN Shape(d)
  PROVE  /\ Len(document[x]) \in Nat /\ DOMAIN document[x] = 1..Len(document[x])
         /\ \A k \in 1..Len(document[x]) :
              /\ DOMAIN document[x][k] = 1..Len(Shape(d)[x])
              /\ LineOf(d, x, document[x][k]) \in AnyLine
         /\ Block(d, document, x) \in Seq(AnyLine)
         /\ Len(Block(d, document, x)) = Len(document[x])
         /\ \A k \in 1..Len(document[x]) : Block(d, document, x)[k] = LineOf(d, x, document[x][k])
<1>1. document[x] \in Seq(Seq(FieldTexts)) /\ \A i \in DOMAIN document[x] : Len(document[x][i]) = Len(Shape(d)[x])
  BY DEF Documents
<1>2. FieldTexts \subseteq Words /\ x \in Words
  BY WordsOfFiles
<1>3. Len(document[x]) \in Nat /\ DOMAIN document[x] = 1..Len(document[x])
  BY <1>1
<1>4. ASSUME NEW k \in 1..Len(document[x])
      PROVE  /\ DOMAIN document[x][k] = 1..Len(Shape(d)[x])
             /\ LineOf(d, x, document[x][k]) \in AnyLine
  <2> DEFINE texts == document[x][k]
             f == [i \in DOMAIN texts |-> Token(Shape(d)[x][i], texts[i])]
  <2>1. texts \in Seq(FieldTexts) /\ Len(texts) = Len(Shape(d)[x])
    BY <1>1, <1>3
  <2>2. /\ Len(texts) \in Nat /\ DOMAIN texts = 1..Len(texts)
        /\ \A i \in DOMAIN texts : texts[i] \in FieldTexts
    BY <2>1
  <2>3. \A i \in DOMAIN texts : texts[i] \in Words
    BY <1>2, <2>2, Zenon
  <2>4. \A i \in DOMAIN texts : Token(Shape(d)[x][i], texts[i]) \in Tokens
    BY <2>3 DEF Token, Tokens, Forms
  <2>5. f \in Seq(Tokens)
    BY <2>2, <2>4
  <2>6. LineOf(d, x, texts) = [directive |-> x, fields |-> f, rest |-> FALSE]
    BY DEF LineOf
  <2> HIDE DEF f, texts
  <2>7. LineOf(d, x, texts) \in AnyLine
    BY <1>2, <2>5, <2>6 DEF AnyLine
  <2>8. QED
    BY <2>1, <2>2, <2>7 DEF texts
<1>5. Block(d, document, x) = [k \in 1..Len(document[x]) |-> LineOf(d, x, document[x][k])]
  BY <1>3 DEF Block
<1> HIDE DEF Block
<1>6. /\ Block(d, document, x) \in Seq(AnyLine)
      /\ Len(Block(d, document, x)) = Len(document[x])
  BY <1>3, <1>4, <1>5
<1>7. QED
  BY <1>3, <1>4, <1>5, <1>6

LEMMA AddBlock ==
  ASSUME NEW d \in Dialects, NEW document \in Documents(d), NEW ls, NEW X,
         Holds(d, document, ls, X), NEW y \in DOMAIN Shape(d), y \notin X
  PROVE  Holds(d, document, ls \o Block(d, document, y), X \cup {y})
<1> DEFINE b == Block(d, document, y)
           c == ls \o b
           n == Len(ls)
           m == Len(document[y])
<1>1. /\ m \in Nat /\ b \in Seq(AnyLine) /\ Len(b) = m
      /\ \A k \in 1..m : b[k] = LineOf(d, y, document[y][k])
  BY BlockFacts
<1>2. n \in Nat /\ ls \in Seq(AnyLine) /\ \A i \in 1..n : ls[i].directive \in X
  BY DEF Holds
<1> HIDE DEF b
<1>3. c \in Seq(AnyLine) /\ Len(c) = n + m
      /\ \A i \in 1..(n + m) : c[i] = IF i <= n THEN ls[i] ELSE b[i - n]
  <2>1. /\ ls \o b \in Seq(AnyLine) /\ Len(ls \o b) = Len(ls) + Len(b)
        /\ \A i \in 1..(Len(ls) + Len(b)) :
             (ls \o b)[i] = IF i <= Len(ls) THEN ls[i] ELSE b[i - Len(ls)]
    BY <1>1, <1>2, ConcatProperties
  <2>2. Len(b) = m
    BY <1>1
  <2> HIDE DEF m
  <2>3. QED
    BY <2>1, <2>2
<1> HIDE DEF c, n, m
<1>4. \A i \in 1..n : c[i] = ls[i]
  BY <1>1, <1>2, <1>3
<1>5. \A k \in 1..m : c[n + k] = LineOf(d, y, document[y][k])
  <2>1. TAKE k \in 1..m
  <2>2. n + k \in 1..(n + m) /\ ~(n + k <= n) /\ (n + k) - n = k
    BY <1>1, <1>2
  <2>3. QED
    BY <1>1, <1>3, <2>2
<1>6. \A k \in 1..m : c[n + k].directive = y
  <2>1. \A k : LineOf(d, y, document[y][k]).directive = y
    BY DEF LineOf
  <2>2. QED
    BY <1>5, <2>1
<1>7. \A i : i \in 1..(n + m) <=> i \in 1..n \/ i \in (n + 1)..(n + m)
  BY <1>1, <1>2
<1>8. \A i \in (n + 1)..(n + m) : c[i].directive = y
  <2>1. TAKE i \in (n + 1)..(n + m)
  <2>2. i - n \in 1..m /\ n + (i - n) = i
    BY <1>1, <1>2
  <2>3. QED
    BY <1>6, <2>2
<1>9. \A x \in X : Of(c, n + m, x) = Of(ls, n, x)
  <2>1. TAKE x \in X
  <2>2. \A i : (i \in 1..(n + m) /\ c[i].directive = x) <=> (i \in 1..n /\ ls[i].directive = x)
    BY <1>4, <1>7, <1>8
  <2>3. QED
    BY <2>2 DEF Of
<1>10. Of(c, n + m, y) = (n + 1)..(n + m)
  <2>1. \A i \in 1..n : c[i].directive # y
    BY <1>2, <1>4
  <2>2. \A i : (i \in 1..(n + m) /\ c[i].directive = y) <=> i \in (n + 1)..(n + m)
    BY <1>7, <1>8, <2>1
  <2>3. QED
    BY <2>2 DEF Of
<1>11. \A x \in X : Run(d, document, c, x)
  <2>1. TAKE x \in X
  <2>2. PICK a \in Nat : /\ Of(ls, n, x) = (a + 1)..(a + Len(document[x]))
                         /\ \A k \in 1..Len(document[x]) : ls[a + k] = LineOf(d, x, document[x][k])
    BY DEF Holds, Run, n
  <2>3. \A k \in 1..Len(document[x]) : a + k \in Of(ls, n, x)
    <3>1. TAKE k \in 1..Len(document[x])
    <3>2. a + k \in (a + 1)..(a + Len(document[x]))
      BY <2>2
    <3>3. QED
      BY <2>2, <3>2
  <2>4. \A k \in 1..Len(document[x]) : a + k \in 1..n
    BY <2>3 DEF Of
  <2>5. \A k \in 1..Len(document[x]) : c[a + k] = LineOf(d, x, document[x][k])
    BY <1>4, <2>2, <2>4
  <2>6. QED
    BY <1>3, <1>9, <2>2, <2>5 DEF Run
<1>12. Run(d, document, c, y)
  BY <1>2, <1>3, <1>5, <1>10 DEF Run, m
<1>13. \A i \in 1..(n + m) : c[i].directive \in X \cup {y}
  BY <1>2, <1>4, <1>7, <1>8
<1>14. Holds(d, document, c, X \cup {y})
  BY <1>3, <1>11, <1>12, <1>13 DEF Holds
<1>15. QED
  BY <1>14 DEF c, b

LEMMA FirstBlock ==
  ASSUME NEW d \in Dialects, NEW document \in Documents(d), NEW y \in DOMAIN Shape(d)
  PROVE  Holds(d, document, Block(d, document, y), {y})
<1>1. Holds(d, document, <<>>, {})
  BY DEF Holds
<1>2. Holds(d, document, <<>> \o Block(d, document, y), {} \cup {y})
  BY <1>1, AddBlock
<1>3. Block(d, document, y) \in Seq(AnyLine)
  BY BlockFacts
<1>4. <<>> \o Block(d, document, y) = Block(d, document, y)
  BY <1>3, ConcatEmptySeq
<1>5. {} \cup {y} = {y}
  OBVIOUS
<1>6. QED
  BY <1>2, <1>4, <1>5

\* A file as it is written holds every directive of its document.
LEMMA SerializedHolds ==
  ASSUME NEW d \in Dialects, NEW document \in Documents(d)
  PROVE  Holds(d, document, Serialized(d, document), DOMAIN Shape(d))
<1> DEFINE B(x) == Block(d, document, x)
           H(ls, X) == Holds(d, document, ls, X)
<1>1. \A ls, X : \A y \in DOMAIN Shape(d) : H(ls, X) /\ y \notin X => H(ls \o B(y), X \cup {y})
  BY AddBlock
<1>2. \A y \in DOMAIN Shape(d) : H(B(y), {y})
  BY FirstBlock
<1>3. CASE d = "offer"
  <2>1. Serialized(d, document) =
          B("group_id") \o B("sequence") \o B("generation_id") \o B("compatibility_id")
            \o B("abi_id") \o B("member") \o B("changed_input")
    BY <1>3 DEF Serialized
  <2>2. DOMAIN Shape(d) = OfferNames
    BY <1>3, OfferShape
  <2> HIDE DEF B, H
  <2>3. H(B("group_id"), {"group_id"})
    BY <1>2, <2>2 DEF OfferNames
  <2>4. H(B("group_id") \o B("sequence"), {"group_id"} \cup {"sequence"})
    BY <1>1, <2>2, <2>3 DEF OfferNames
  <2>5. H(B("group_id") \o B("sequence") \o B("generation_id"),
          {"group_id"} \cup {"sequence"} \cup {"generation_id"})
    BY <1>1, <2>2, <2>4 DEF OfferNames
  <2>6. H(B("group_id") \o B("sequence") \o B("generation_id") \o B("compatibility_id"),
          {"group_id"} \cup {"sequence"} \cup {"generation_id"} \cup {"compatibility_id"})
    BY <1>1, <2>2, <2>5 DEF OfferNames
  <2>7. H(B("group_id") \o B("sequence") \o B("generation_id") \o B("compatibility_id")
            \o B("abi_id"),
          {"group_id"} \cup {"sequence"} \cup {"generation_id"} \cup {"compatibility_id"}
            \cup {"abi_id"})
    BY <1>1, <2>2, <2>6 DEF OfferNames
  <2>8. H(B("group_id") \o B("sequence") \o B("generation_id") \o B("compatibility_id")
            \o B("abi_id") \o B("member"),
          {"group_id"} \cup {"sequence"} \cup {"generation_id"} \cup {"compatibility_id"}
            \cup {"abi_id"} \cup {"member"})
    BY <1>1, <2>2, <2>7 DEF OfferNames
  <2>9. H(B("group_id") \o B("sequence") \o B("generation_id") \o B("compatibility_id")
            \o B("abi_id") \o B("member") \o B("changed_input"),
          {"group_id"} \cup {"sequence"} \cup {"generation_id"} \cup {"compatibility_id"}
            \cup {"abi_id"} \cup {"member"} \cup {"changed_input"})
    BY <1>1, <2>2, <2>8 DEF OfferNames
  <2>10. OfferNames = {"group_id"} \cup {"sequence"} \cup {"generation_id"}
                      \cup {"compatibility_id"} \cup {"abi_id"} \cup {"member"} \cup {"changed_input"}
    BY DEF OfferNames
  <2>11. QED
    BY <2>1, <2>2, <2>9, <2>10 DEF H
<1>4. CASE d = "wasm"
  <2>1. Serialized(d, document) =
          B("group_id") \o B("sequence") \o B("generation_id") \o B("abi_id")
            \o B("artifact") \o B("entry")
    BY <1>4 DEF Serialized
  <2>2. DOMAIN Shape(d) = WasmNames
    BY <1>4, WasmShape
  <2> HIDE DEF B, H
  <2>3. H(B("group_id"), {"group_id"})
    BY <1>2, <2>2 DEF WasmNames
  <2>4. H(B("group_id") \o B("sequence"), {"group_id"} \cup {"sequence"})
    BY <1>1, <2>2, <2>3 DEF WasmNames
  <2>5. H(B("group_id") \o B("sequence") \o B("generation_id"),
          {"group_id"} \cup {"sequence"} \cup {"generation_id"})
    BY <1>1, <2>2, <2>4 DEF WasmNames
  <2>6. H(B("group_id") \o B("sequence") \o B("generation_id") \o B("abi_id"),
          {"group_id"} \cup {"sequence"} \cup {"generation_id"} \cup {"abi_id"})
    BY <1>1, <2>2, <2>5 DEF WasmNames
  <2>7. H(B("group_id") \o B("sequence") \o B("generation_id") \o B("abi_id") \o B("artifact"),
          {"group_id"} \cup {"sequence"} \cup {"generation_id"} \cup {"abi_id"} \cup {"artifact"})
    BY <1>1, <2>2, <2>6 DEF WasmNames
  <2>8. H(B("group_id") \o B("sequence") \o B("generation_id") \o B("abi_id") \o B("artifact")
            \o B("entry"),
          {"group_id"} \cup {"sequence"} \cup {"generation_id"} \cup {"abi_id"} \cup {"artifact"}
            \cup {"entry"})
    BY <1>1, <2>2, <2>7 DEF WasmNames
  <2>9. WasmNames = {"group_id"} \cup {"sequence"} \cup {"generation_id"} \cup {"abi_id"}
                    \cup {"artifact"} \cup {"entry"}
    BY DEF WasmNames
  <2>10. QED
    BY <2>1, <2>2, <2>8, <2>9 DEF H
<1>5. CASE d = "group"
  <2>1. Serialized(d, document) =
          B("group_id") \o B("publication_key") \o B("baseline_sequence")
            \o B("compatibility_id") \o B("abi_id") \o B("generation_root_hint") \o B("member")
    BY <1>5 DEF Serialized
  <2>2. DOMAIN Shape(d) = GroupNames
    BY <1>5, GroupShape
  <2> HIDE DEF B, H
  <2>3. H(B("group_id"), {"group_id"})
    BY <1>2, <2>2 DEF GroupNames
  <2>4. H(B("group_id") \o B("publication_key"), {"group_id"} \cup {"publication_key"})
    BY <1>1, <2>2, <2>3 DEF GroupNames
  <2>5. H(B("group_id") \o B("publication_key") \o B("baseline_sequence"),
          {"group_id"} \cup {"publication_key"} \cup {"baseline_sequence"})
    BY <1>1, <2>2, <2>4 DEF GroupNames
  <2>6. H(B("group_id") \o B("publication_key") \o B("baseline_sequence")
            \o B("compatibility_id"),
          {"group_id"} \cup {"publication_key"} \cup {"baseline_sequence"}
            \cup {"compatibility_id"})
    BY <1>1, <2>2, <2>5 DEF GroupNames
  <2>7. H(B("group_id") \o B("publication_key") \o B("baseline_sequence")
            \o B("compatibility_id") \o B("abi_id"),
          {"group_id"} \cup {"publication_key"} \cup {"baseline_sequence"}
            \cup {"compatibility_id"} \cup {"abi_id"})
    BY <1>1, <2>2, <2>6 DEF GroupNames
  <2>8. H(B("group_id") \o B("publication_key") \o B("baseline_sequence")
            \o B("compatibility_id") \o B("abi_id") \o B("generation_root_hint"),
          {"group_id"} \cup {"publication_key"} \cup {"baseline_sequence"}
            \cup {"compatibility_id"} \cup {"abi_id"} \cup {"generation_root_hint"})
    BY <1>1, <2>2, <2>7 DEF GroupNames
  <2>9. H(B("group_id") \o B("publication_key") \o B("baseline_sequence")
            \o B("compatibility_id") \o B("abi_id") \o B("generation_root_hint") \o B("member"),
          {"group_id"} \cup {"publication_key"} \cup {"baseline_sequence"}
            \cup {"compatibility_id"} \cup {"abi_id"} \cup {"generation_root_hint"} \cup {"member"})
    BY <1>1, <2>2, <2>8 DEF GroupNames
  <2>10. GroupNames = {"group_id"} \cup {"publication_key"} \cup {"baseline_sequence"}
                      \cup {"compatibility_id"} \cup {"abi_id"} \cup {"generation_root_hint"}
                      \cup {"member"}
    BY DEF GroupNames
  <2>11. QED
    BY <2>1, <2>2, <2>9, <2>10 DEF H
<1>6. QED
  BY <1>3, <1>4, <1>5 DEF Dialects

\* What is written means the document it was written from.
LEMMA MeaningOfSerialized ==
  ASSUME NEW d \in Dialects, NEW document \in Documents(d),
         NEW ls, Holds(d, document, ls, DOMAIN Shape(d))
  PROVE  Meaning(d, ls, Len(ls)) = document
<1> DEFINE M == Meaning(d, ls, Len(ls))
<1>1. ASSUME NEW x \in DOMAIN Shape(d)
      PROVE  M[x] = document[x]
  <2> DEFINE m == Len(document[x])
  <2>1. PICK a \in Nat : /\ Of(ls, Len(ls), x) = (a + 1)..(a + m)
                         /\ \A k \in 1..m : ls[a + k] = LineOf(d, x, document[x][k])
    BY DEF Holds, Run
  <2>2. m \in Nat /\ DOMAIN document[x] = 1..m
    BY BlockFacts
  <2> DEFINE S == (a + 1)..(a + m)
  <2>3. Cardinality(S) = m /\ \A k \in 1..m : InOrder(S)[k] = a + k
    <3> HIDE DEF m
    <3>1. QED
      BY <2>2, OrderOfRun
  <2>4. M[x] = [k \in 1..Cardinality(S) |-> Texts(ls[InOrder(S)[k]])]
    BY <2>1 DEF Meaning
  <2>5. \A k \in 1..m : Texts(LineOf(d, x, document[x][k])) = document[x][k]
    <3>1. TAKE k \in 1..m
    <3> DEFINE texts == document[x][k]
    <3>2. texts \in Seq(FieldTexts)
      BY <2>2 DEF Documents
    <3>3. Texts(LineOf(d, x, texts)) = [i \in DOMAIN texts |-> texts[i]]
      BY DEF Texts, LineOf, Token
    <3> HIDE DEF texts
    <3>4. [i \in DOMAIN texts |-> texts[i]] = texts
      BY <3>2
    <3>5. QED
      BY <3>3, <3>4 DEF texts
  <2>6. document[x] = [k \in 1..m |-> document[x][k]]
    <3>1. document[x] \in Seq(Seq(FieldTexts))
      BY DEF Documents
    <3>2. QED
      BY <2>2, <3>1
  <2> HIDE DEF m, S, M
  <2>7. \A k \in 1..m : Texts(ls[InOrder(S)[k]]) = document[x][k]
    BY <2>1, <2>3, <2>5
  <2>8. QED
    BY <2>3, <2>4, <2>6, <2>7
<1>2. M = [x \in DOMAIN Shape(d) |-> M[x]]
  BY DEF Meaning
<1>3. document = [x \in DOMAIN Shape(d) |-> document[x]]
  BY DEF Documents
<1> HIDE DEF M
<1>4. QED
  BY <1>1, <1>2, <1>3 DEF M

\* A document that validates is written as a file that declares one.
LEMMA ValidIsConsistent ==
  ASSUME NEW d \in Dialects, NEW document \in Documents(d), Valid(d, document),
         NEW ls, Holds(d, document, ls, DOMAIN Shape(d))
  PROVE  Consistent(d, ls, Len(ls)) /\ Complete(d, ls)
<1> DEFINE n == Len(ls)
           L(x, k) == LineOf(d, x, document[x][k])
<1>1. ASSUME NEW x \in DOMAIN Shape(d)
      PROVE  /\ Len(document[x]) \in Nat /\ DOMAIN document[x] = 1..Len(document[x])
             /\ \A i \in Of(ls, n, x) : \E k \in 1..Len(document[x]) : ls[i] = L(x, k)
             /\ \A i, j \in Of(ls, n, x) : i # j =>
                  \E k, l \in 1..Len(document[x]) : k # l /\ ls[i] = L(x, k) /\ ls[j] = L(x, l)
             /\ Len(document[x]) # 0 => Of(ls, n, x) # {}
  <2> DEFINE m == Len(document[x])
             S == Of(ls, n, x)
  <2>1. PICK a \in Nat : S = (a + 1)..(a + m) /\ \A k \in 1..m : ls[a + k] = L(x, k)
    BY DEF Holds, Run
  <2>2. m \in Nat /\ DOMAIN document[x] = 1..m
    BY BlockFacts
  <2> HIDE DEF m, S, L
  <2>3. \A i \in S : i - a \in 1..m /\ ls[i] = L(x, i - a) /\ i \in Nat
    <3>1. \A i \in S : i - a \in 1..m /\ a + (i - a) = i /\ i \in Nat
      BY <2>1, <2>2
    <3>2. QED
      BY <2>1, <3>1
  <2>4. \A i, j \in S : i # j => i - a # j - a
    BY <2>3
  <2>5. m # 0 => a + 1 \in S
    BY <2>1, <2>2
  <2>6. \A i, j \in S : i # j => \E k, l \in 1..m : k # l /\ ls[i] = L(x, k) /\ ls[j] = L(x, l)
    BY <2>3, <2>4
  <2>7. \A i \in S : \E k \in 1..m : ls[i] = L(x, k)
    BY <2>3
  <2>8. QED
    BY <2>2, <2>5, <2>6, <2>7 DEF m, S
<1>2. ASSUME NEW x \in DOMAIN Shape(d), NEW k \in 1..Len(document[x])
      PROVE  /\ L(x, k).directive = x /\ L(x, k).rest = FALSE
             /\ DOMAIN L(x, k).fields = 1..Len(Shape(d)[x]) /\ Len(L(x, k).fields) = Len(Shape(d)[x])
             /\ \A i \in 1..Len(Shape(d)[x]) : L(x, k).fields[i] = Token(Shape(d)[x][i], document[x][k][i])
  <2> DEFINE texts == document[x][k]
             f == [i \in DOMAIN texts |-> Token(Shape(d)[x][i], texts[i])]
  <2>1. DOMAIN texts = 1..Len(Shape(d)[x]) /\ Len(Shape(d)[x]) \in Nat
    BY <1>2, BlockFacts, ShapeTypes
  <2>2. L(x, k) = [directive |-> x, fields |-> f, rest |-> FALSE]
    BY DEF LineOf
  <2>3. DOMAIN f = DOMAIN texts /\ \A i \in DOMAIN texts : f[i] = Token(Shape(d)[x][i], texts[i])
    OBVIOUS
  <2> HIDE DEF f, texts, L
  <2>4. Len(f) = Len(Shape(d)[x])
    BY <2>1, <2>3
  <2>5. QED
    BY <2>1, <2>2, <2>3, <2>4 DEF texts
<1>3. ASSUME NEW x \in DOMAIN Shape(d), NEW k \in 1..Len(document[x])
      PROVE  WellFormed(d, L(x, k))
  <2> DEFINE l == L(x, k)
             s == Shape(d)[x]
  <2>1. /\ l.directive = x /\ l.rest = FALSE /\ DOMAIN l.fields = 1..Len(s) /\ Len(l.fields) = Len(s)
        /\ \A i \in 1..Len(s) : l.fields[i] = Token(s[i], document[x][k][i])
    BY <1>2
  <2>2. \A kind, text : ~Malformed(kind, Token(kind, text)) /\ Token(kind, text).text = text
    BY DEF Malformed, Token
  <2>3. \A i \in 1..Len(s) : document[x][k][i] \in Acceptable(s[i])
    <3>1. TAKE i \in 1..Len(s)
    <3>2. DOMAIN document = DOMAIN Shape(d) /\ k \in DOMAIN document[x] /\ i \in DOMAIN document[x][k]
      BY <1>3, BlockFacts DEF Documents
    <3>3. QED
      BY <3>2 DEF Valid, HoldsAcceptable
  <2> HIDE DEF l, s, L
  <2>4. WellFormed(d, l)
    BY <1>3, <2>1, <2>2, <2>3 DEF WellFormed, s
  <2>5. QED
    BY <2>4 DEF l
<1>4. \A i \in 1..n : ls[i].directive = "#" \/ WellFormed(d, ls[i])
  <2>1. TAKE i \in 1..n
  <2>2. ls[i].directive \in DOMAIN Shape(d)
    BY DEF Holds
  <2>3. i \in Of(ls, n, ls[i].directive)
    BY DEF Of
  <2> HIDE DEF L
  <2>4. QED
    BY <1>1, <1>3, <2>2, <2>3
<1>5. \A x \in Singles(d) : \A i, j \in Of(ls, n, x) : i = j
  <2>1. SUFFICES ASSUME NEW x \in Singles(d), NEW i \in Of(ls, n, x), NEW j \in Of(ls, n, x), i # j
                 PROVE  FALSE
    BY Zenon
  <2>2. x \in DOMAIN Shape(d) /\ Len(document[x]) <= 1 /\ Len(document[x]) \in Nat
    BY <1>1 DEF Singles, Documents
  <2>3. PICK k \in 1..Len(document[x]), l \in 1..Len(document[x]) : k # l
    BY <1>1, <2>1, <2>2
  <2>4. QED
    BY <2>2, <2>3
<1>6. ASSUME NEW x \in DOMAIN Repeated(d), NEW r \in DOMAIN Repeated(d)[x],
             NEW i \in Of(ls, n, x), NEW j \in Of(ls, n, x), i # j
      PROVE  ls[i].fields[Repeated(d)[x][r][1]].text # ls[j].fields[Repeated(d)[x][r][1]].text
  <2> DEFINE p == Repeated(d)[x][r][1]
  <2>1. x \in DOMAIN Shape(d) /\ p \in 1..Len(Shape(d)[x])
    BY <1>6, RepeatedTypes
  <2>2. PICK k \in 1..Len(document[x]), l \in 1..Len(document[x]) :
               k # l /\ ls[i] = L(x, k) /\ ls[j] = L(x, l)
    BY <1>1, <1>6, <2>1
  <2>3. k \in DOMAIN document[x] /\ l \in DOMAIN document[x]
    BY <1>1, <2>1, <2>2
  <2>4. document[x][k][p] # document[x][l][p]
    BY <1>6, <2>2, <2>3 DEF Valid, IsApart
  <2> HIDE DEF p, L
  <2>5. L(x, k).fields[p] = Token(Shape(d)[x][p], document[x][k][p])
        /\ L(x, l).fields[p] = Token(Shape(d)[x][p], document[x][l][p])
    BY <1>2, <2>1, <2>2
  <2>6. \A kind, text : Token(kind, text).text = text
    BY DEF Token
  <2>7. ls[i].fields[p].text # ls[j].fields[p].text
    BY <2>2, <2>4, <2>5, <2>6
  <2>8. QED
    BY <2>7 DEF p
<1>7. Consistent(d, ls, n)
  BY <1>4, <1>5, <1>6, Zenon DEF Consistent
<1>8. Complete(d, ls)
  <2>1. SUFFICES ASSUME NEW x \in Required(d)
                 PROVE  Of(ls, n, x) # {}
    BY DEF Complete
  <2>2. x \in DOMAIN Shape(d) /\ document[x] # <<>>
    BY DEF Required, Valid, Missing
  <2>3. document[x] \in Seq(Seq(FieldTexts))
    BY <2>2 DEF Documents
  <2>4. Len(document[x]) # 0
    BY <2>2, <2>3
  <2>5. QED
    BY <1>1, <2>2, <2>4
<1>9. QED
  BY <1>7, <1>8

-----------------------------------------------------------------------------
(* The reader. *)

\* Damage leaves a file of lines.
LEMMA SliceOfLines ==
  ASSUME NEW ls \in Seq(AnyLine), NEW a \in Nat, 1 <= a, NEW b \in Int, b <= Len(ls)
  PROVE  /\ SubSeq(ls, a, b) \in Seq(AnyLine)
         /\ Len(SubSeq(ls, a, b)) = IF a <= b THEN b - a + 1 ELSE 0
<1>1. \A i \in a..b : ls[i] \in AnyLine
  OBVIOUS
<1>2. QED
  BY <1>1, SubSeqProperties

LEMMA TornTypes ==
  ASSUME NEW line \in AnyLine, NEW torn \in Torn(line)
  PROVE  torn \in AnyLine /\ torn.directive = line.directive
<1> DEFINE f == line.fields
<1>1. /\ line = [directive |-> line.directive, fields |-> f, rest |-> line.rest]
      /\ line.directive \in Words /\ f \in Seq(Tokens) /\ line.rest \in BOOLEAN
  BY DEF AnyLine
<1>2. \A g \in Seq(Tokens) : /\ [line EXCEPT !.fields = g] \in AnyLine
                            /\ [line EXCEPT !.fields = g].directive = line.directive
  BY <1>1 DEF AnyLine
<1>3. DOMAIN f = 1..Len(f) /\ Len(f) \in Nat /\ \A i \in DOMAIN f : f[i] \in Tokens
  BY <1>1
<1>4. CASE torn \in {[line EXCEPT !.fields = SubSeq(@, 1, n)] : n \in 0..(Len(f) - 1)}
  <2>1. PICK n \in 0..(Len(f) - 1) : torn = [line EXCEPT !.fields = SubSeq(f, 1, n)]
    BY <1>4
  <2>2. \A i \in 1..n : f[i] \in Tokens
    BY <1>3, <2>1
  <2>3. SubSeq(f, 1, n) \in Seq(Tokens)
    BY <2>2, SubSeqProperties
  <2>4. QED
    BY <1>2, <2>1, <2>3
<1>5. CASE torn \in {[line EXCEPT !.fields[n].form = "open"] :
                       n \in {i \in DOMAIN f : f[i].form = "quoted"}}
  <2>1. PICK n \in DOMAIN f : torn = [line EXCEPT !.fields = [f EXCEPT ![n] = [f[n] EXCEPT !.form = "open"]]]
    BY <1>5
  <2>2. [f[n] EXCEPT !.form = "open"] \in Tokens
    BY <1>3, <2>1 DEF Tokens, Forms
  <2>3. [f EXCEPT ![n] = [f[n] EXCEPT !.form = "open"]] \in Seq(Tokens)
    BY <1>1, <2>1, <2>2
  <2>4. QED
    BY <1>2, <2>1, <2>3
<1>6. CASE torn \in {[line EXCEPT !.fields[p[1]].text = p[2]] :
                       p \in {q \in (DOMAIN f) \X Numbers :
                                f[q[1]].form = "canonical" /\ <<q[2], f[q[1]].text>> \in Shorter}}
  <2>1. PICK n \in DOMAIN f, s \in Numbers :
          torn = [line EXCEPT !.fields = [f EXCEPT ![n] = [f[n] EXCEPT !.text = s]]]
    BY <1>6
  <2>2. [f[n] EXCEPT !.text = s] \in Tokens
    BY <1>3, <2>1, WordsOfFiles DEF Tokens, FieldTexts
  <2>3. [f EXCEPT ![n] = [f[n] EXCEPT !.text = s]] \in Seq(Tokens)
    BY <1>1, <2>1, <2>2
  <2>4. QED
    BY <1>2, <2>1, <2>3
<1>7. QED
  BY <1>4, <1>5, <1>6 DEF Torn

LEMMA DamageTypes ==
  ASSUME NEW d \in Dialects, NEW ls \in Seq(AnyLine), NEW new \in Cut(ls) \cup Edited(d, ls)
  PROVE  new \in Seq(AnyLine)
<1>1. Len(ls) \in Nat /\ DOMAIN ls = 1..Len(ls) /\ \A i \in 1..Len(ls) : ls[i] \in AnyLine
  OBVIOUS
<1>2. \A l \in Lines[d] : l \in AnyLine
  BY FilesAreFiles
<1>3. ASSUME NEW n \in 1..Len(ls)
      PROVE  RemoveAt(ls, n) \in Seq(AnyLine) /\ Len(RemoveAt(ls, n)) = Len(ls) - 1
  <2> DEFINE p == SubSeq(ls, 1, n - 1)
             q == SubSeq(ls, n + 1, Len(ls))
  <2>1. p \in Seq(AnyLine) /\ Len(p) = n - 1
    BY <1>1, SliceOfLines
  <2>2. q \in Seq(AnyLine) /\ Len(q) = Len(ls) - n
    <3> DEFINE c == Len(ls)
    <3>1. c \in Nat /\ n \in 1..c
      BY <1>1
    <3>2. \A a, b \in Nat : 1 <= a /\ b <= c =>
            SubSeq(ls, a, b) \in Seq(AnyLine)
            /\ Len(SubSeq(ls, a, b)) = IF a <= b THEN b - a + 1 ELSE 0
      BY SliceOfLines
    <3> HIDE DEF c
    <3>3. n + 1 \in Nat /\ 1 <= n + 1 /\ c <= c /\ (n + 1 <= c \/ n = c)
      BY <3>1
    <3>4. (IF n + 1 <= c THEN c - (n + 1) + 1 ELSE 0) = c - n
      BY <3>1, <3>3
    <3>5. SubSeq(ls, n + 1, c) \in Seq(AnyLine) /\ Len(SubSeq(ls, n + 1, c)) = c - n
      BY <3>1, <3>2, <3>3, <3>4
    <3>6. QED
      BY <3>5 DEF c
  <2>3. RemoveAt(ls, n) = p \o q
    BY DEF RemoveAt
  <2> HIDE DEF p, q
  <2>4. p \o q \in Seq(AnyLine) /\ Len(p \o q) = Len(p) + Len(q)
    BY <2>1, <2>2, ConcatProperties
  <2>5. (n - 1) + (Len(ls) - n) = Len(ls) - 1
    BY <1>1
  <2>6. QED
    BY <2>1, <2>2, <2>3, <2>4, <2>5
<1>4. ASSUME NEW ks \in Seq(AnyLine), NEW n \in 1..(Len(ks) + 1), NEW l \in AnyLine
      PROVE  InsertAt(ks, n, l) \in Seq(AnyLine)
  <2>1. SubSeq(ks, 1, n - 1) \in Seq(AnyLine) /\ SubSeq(ks, n, Len(ks)) \in Seq(AnyLine)
    BY SliceOfLines
  <2>2. <<l>> \in Seq(AnyLine)
    OBVIOUS
  <2>3. QED
    BY <2>1, <2>2, ConcatProperties DEF InsertAt
<1>5. CASE new \in {SubSeq(ls, 1, n) : n \in 0..(Len(ls) - 1)}
  BY <1>1, <1>5, SliceOfLines
<1>6. CASE new \in UNION {{Append(SubSeq(ls, 1, n - 1), t) : t \in Torn(ls[n])} : n \in DOMAIN ls}
  <2>1. PICK n \in 1..Len(ls) : \E t \in Torn(ls[n]) : new = Append(SubSeq(ls, 1, n - 1), t)
    BY <1>1, <1>6
  <2>5. PICK t \in Torn(ls[n]) : new = Append(SubSeq(ls, 1, n - 1), t)
    BY <2>1
  <2>2. t \in AnyLine
    BY <1>1, <2>1, <2>5, TornTypes
  <2>3. SubSeq(ls, 1, n - 1) \in Seq(AnyLine)
    BY <1>1, <2>1, SliceOfLines
  <2>4. QED
    BY <2>2, <2>3, <2>5
<1>7. CASE new \in {RemoveAt(ls, n) : n \in DOMAIN ls}
  BY <1>1, <1>3, <1>7
<1>8. CASE new \in {InsertAt(ls, m, ls[n]) : n \in DOMAIN ls, m \in 1..(Len(ls) + 1)}
  BY <1>1, <1>4, <1>8
<1>9. CASE new \in {InsertAt(RemoveAt(ls, n), m, ls[n]) : n \in DOMAIN ls, m \in DOMAIN ls}
  <2>1. PICK n \in DOMAIN ls, m \in DOMAIN ls : new = InsertAt(RemoveAt(ls, n), m, ls[n])
    BY <1>9
  <2> DEFINE ks == RemoveAt(ls, n)
  <2>2. ks \in Seq(AnyLine) /\ Len(ks) = Len(ls) - 1 /\ ls[n] \in AnyLine
    BY <1>1, <1>3, <2>1
  <2> HIDE DEF ks
  <2>3. m \in 1..(Len(ks) + 1)
    BY <1>1, <2>1, <2>2
  <2>4. InsertAt(ks, m, ls[n]) \in Seq(AnyLine)
    BY <1>4, <2>2, <2>3
  <2>5. QED
    BY <2>1, <2>4 DEF ks
<1>10. CASE new \in {InsertAt(ls, n, l) : n \in 1..(Len(ls) + 1), l \in Lines[d]}
  BY <1>1, <1>2, <1>4, <1>10
<1>11. CASE new \in {ReplaceAt(ls, n, l) : n \in DOMAIN ls, l \in Lines[d]}
  <2>1. PICK n \in DOMAIN ls, l \in Lines[d] : new = [ls EXCEPT ![n] = l]
    BY <1>11 DEF ReplaceAt
  <2>2. l \in AnyLine /\ ls \in Seq(AnyLine) /\ n \in DOMAIN ls
    BY <1>2, <2>1
  <2>3. [ls EXCEPT ![n] = l] \in Seq(AnyLine)
    BY ONLY <2>2
  <2>4. QED
    BY <2>1, <2>3
<1>12. CASE new \in Cut(ls)
  BY <1>5, <1>6, <1>12, Zenon DEF Cut
<1>13. CASE new \in Edited(d, ls)
  <2> DEFINE A == {RemoveAt(ls, n) : n \in DOMAIN ls}
             B == {InsertAt(ls, m, ls[n]) : n \in DOMAIN ls, m \in 1..(Len(ls) + 1)}
             C == {InsertAt(RemoveAt(ls, n), m, ls[n]) : n \in DOMAIN ls, m \in DOMAIN ls}
             D == {InsertAt(ls, n, l) : n \in 1..(Len(ls) + 1), l \in Lines[d]}
             E == {ReplaceAt(ls, n, l) : n \in DOMAIN ls, l \in Lines[d]}
  <2>1. Edited(d, ls) = A \cup B \cup C \cup D \cup E
    BY DEF Edited
  <2>2. /\ new \in A => new \in Seq(AnyLine)
        /\ new \in B => new \in Seq(AnyLine)
        /\ new \in C => new \in Seq(AnyLine)
        /\ new \in D => new \in Seq(AnyLine)
        /\ new \in E => new \in Seq(AnyLine)
    BY <1>7, <1>8, <1>9, <1>10, <1>11
  <2> HIDE DEF A, B, C, D, E
  <2>3. QED
    BY <1>13, <2>1, <2>2
<1>14. QED
  BY <1>12, <1>13

\* The number of lines that were read and taken.
Consumed == IF at = 0 THEN 0 ELSE at - 1

\* While a file is read, the document holds what its lines so far declare, and
\* nothing in them was wrong.
TypeInv ==
  /\ dialect \in Dialects
  /\ lines \in Seq(AnyLine)
  /\ at \in Nat

SoFarSoGood ==
  verdict = "reading" =>
    /\ errorAt = 0
    /\ at > 0 => header = "ok" /\ at - 1 <= Len(lines)
    /\ doc = Meaning(dialect, lines, Consumed)
    /\ Consistent(dialect, lines, Consumed)

ReadingInv == TypeInv /\ SoFarSoGood /\ ParsesAsDeclared

LEMMA NothingRead ==
  ASSUME NEW d, NEW ls
  PROVE  Meaning(d, ls, 0) = NoDoc(d) /\ Consistent(d, ls, 0)
<1>1. \A x : Of(ls, 0, x) = {}
  BY DEF Of
<1>2. 0 \in Nat
  OBVIOUS
<1>3. \A x \in DOMAIN Shape(d) : Meaning(d, ls, 0)[x] = <<>>
  BY <1>1, <1>2, MeaningFacts
<1>4. Meaning(d, ls, 0) = NoDoc(d)
  BY <1>3 DEF Meaning, NoDoc
<1>5. \A i \in 1..0 : FALSE
  OBVIOUS
<1>6. Consistent(d, ls, 0)
  BY <1>1, <1>5 DEF Consistent
<1>7. QED
  BY <1>4, <1>6

LEMMA ReadingStarts == Init => ReadingInv
<1> SUFFICES ASSUME Init
             PROVE  ReadingInv
  OBVIOUS
<1> USE DEF Init
<1>1. lines \in Seq(AnyLine)
  <2>1. origin \in Documents(dialect) /\ <<>> \in Seq(AnyLine)
    BY FilesAreFiles
  <2>2. Serialized(dialect, origin) \in Seq(AnyLine)
    BY <2>1, SerializedHolds DEF Holds
  <2>3. QED
    BY <2>1, <2>2
<1>2. TypeInv
  BY <1>1 DEF TypeInv
<1>3. SoFarSoGood
  BY NothingRead DEF SoFarSoGood, Consumed
<1>4. ParsesAsDeclared
  BY DEF ParsesAsDeclared, Decided
<1>5. QED
  BY <1>2, <1>3, <1>4 DEF ReadingInv

\* What ParsesAsDeclared says of a file that was read.
Judged(d, ls, v, e, document) ==
  /\ v \in Codes(d) \cup {"accepted", "loaded"}
  /\ IF e = 0
     THEN /\ Consistent(d, ls, Len(ls)) /\ Complete(d, ls)
          /\ document = Meaning(d, ls, Len(ls)) /\ Valid(d, document)
     ELSE /\ ~(Consistent(d, ls, Len(ls)) /\ Complete(d, ls))
          /\ Consistent(d, ls, e - 2)
          /\ e - 1 <= Len(ls) => ~Consistent(d, ls, e - 1)

LEMMA JudgedFiles ==
  /\ ParsesAsDeclared <=> (Decided => Judged(dialect, lines, verdict, errorAt, doc))
  /\ ParsesAsDeclared' <=> (Decided' => Judged(dialect', lines', verdict', errorAt', doc'))
BY DEF ParsesAsDeclared, Judged

LEMMA CodesAreVerdicts ==
  ASSUME NEW d
  PROVE  /\ Codes(d) \cap {"reading", "accepted", "loaded"} = {}
         /\ "missing_field" \in Codes(d)
BY DEF Codes

LEMMA DisagreementCodes ==
  ASSUME NEW o, NEW d, Disagreements(o, d) # <<>>
  PROVE  Disagreements(o, d)[1] \in
           {"group_mismatch", "compatibility_mismatch", "abi_mismatch", "membership_mismatch"}
<1> DEFINE checks == << <<o.group_id # d.group_id, "group_mismatch">>,
                        <<o.compatibility_id # d.compatibility_id, "compatibility_mismatch">>,
                        <<o.abi_id # d.abi_id, "abi_mismatch">>,
                        <<~SameMembers(o, d), "membership_mismatch">> >>
<1>1. DOMAIN checks = 1..4 /\ \A i \in 1..4 : checks[i][2] \in
        {"group_mismatch", "compatibility_mismatch", "abi_mismatch", "membership_mismatch"}
  OBVIOUS
<1>2. Disagreements(o, d) = FirstWrong(checks)
  BY DEF Disagreements
<1> HIDE DEF checks
<1>3. PICK i \in 1..4 : FirstWrong(checks) = <<checks[i][2]>>
  BY <1>1, <1>2, FirstWrongFacts
<1>4. QED
  BY <1>1, <1>2, <1>3

LEMMA LineIsRead ==
  ASSUME TypeInv, SoFarSoGood, SkipLine \/ ReadLine
  PROVE  TypeInv' /\ SoFarSoGood' /\ ParsesAsDeclared' /\ verdict' \notin {"accepted", "loaded"}
<1> DEFINE n == at - 1
<1>1. /\ verdict = "reading" /\ at > 0 /\ at <= Len(lines) /\ at' = at + 1
      /\ dialect' = dialect /\ lines' = lines /\ header' = header
      /\ dialect \in Dialects /\ lines \in Seq(AnyLine) /\ at \in Nat /\ Len(lines) \in Nat
  BY DEF TypeInv, SkipLine, ReadLine, Reading, More, file
<1>2. /\ n \in Nat /\ n < Len(lines) /\ at = n + 1 /\ Consumed = n /\ Consumed' = n + 1
      /\ at' > 0 /\ at' - 1 = n + 1 /\ n + 1 <= Len(lines)
  BY <1>1 DEF Consumed
<1>3. /\ errorAt = 0 /\ header = "ok" /\ doc = Meaning(dialect, lines, n)
      /\ Consistent(dialect, lines, n)
  BY <1>1, <1>2 DEF SoFarSoGood
<1>4. TypeInv'
  BY <1>1 DEF TypeInv
<1>5. ASSUME verdict' = "reading", errorAt' = 0, doc' = Meaning(dialect, lines, n + 1),
             Consistent(dialect, lines, n + 1)
      PROVE  SoFarSoGood' /\ ParsesAsDeclared' /\ verdict' \notin {"accepted", "loaded"}
  <2>1. SoFarSoGood'
    BY <1>1, <1>2, <1>3, <1>5 DEF SoFarSoGood
  <2>2. ParsesAsDeclared'
    BY <1>5 DEF ParsesAsDeclared, Decided
  <2>3. QED
    BY <1>5, <2>1, <2>2
<1>6. CASE SkipLine
  <2>1. lines[n + 1].directive = "#" /\ verdict' = verdict /\ errorAt' = errorAt /\ doc' = doc
    BY <1>2, <1>6 DEF SkipLine, Line
  <2>2. "#" \notin DOMAIN Shape(dialect)
    BY <1>1, ShapeTypes
  <2>3. "#" \notin Singles(dialect) /\ "#" \notin DOMAIN Repeated(dialect)
    BY <1>1, <2>2, RepeatedTypes DEF Singles
  <2>4. ~Clash(dialect, lines, n)
    BY <2>1, <2>3 DEF Clash
  <2>5. Consistent(dialect, lines, n + 1)
    BY <1>1, <1>2, <1>3, <2>1, <2>4, ConsistentOfNext
  <2>6. Meaning(dialect, lines, n + 1) = Meaning(dialect, lines, n)
    BY <1>2, <2>1, <2>2, MeaningOfNext
  <2>7. QED
    BY <1>1, <1>3, <1>4, <1>5, <2>1, <2>5, <2>6
<1>7. CASE ReadLine
  <2> DEFINE line == lines[n + 1]
             issue == Issue(dialect, line, Meaning(dialect, lines, n))
  <2>1. /\ line.directive # "#"
        /\ IF issue = <<>>
           THEN /\ doc' = [doc EXCEPT ![line.directive] = Append(@, Texts(line))]
                /\ verdict' = verdict /\ errorAt' = errorAt
           ELSE verdict' = issue[1] /\ errorAt' = at + 1 /\ doc' = doc
    BY <1>2, <1>3, <1>7 DEF ReadLine, Line, Reject
  <2>2. /\ issue = <<>> <=> Consistent(dialect, lines, n + 1)
        /\ issue # <<>> => issue[1] \in Codes(dialect)
    BY <1>1, <1>2, <1>3, <2>1, IssueDecides
  <2>3. CASE issue = <<>>
    <3>1. Consistent(dialect, lines, n + 1)
      BY <2>2, <2>3
    <3>2. line.directive \in DOMAIN Shape(dialect)
      <4>1. WellFormed(dialect, line)
        BY <1>1, <1>2, <1>3, <2>1, <3>1, ConsistentOfNext
      <4>2. QED
        BY <4>1 DEF WellFormed
    <3>3. doc' = Meaning(dialect, lines, n + 1)
      BY <1>2, <1>3, <2>1, <2>3, <3>2, MeaningOfNext
    <3>4. QED
      BY <1>1, <1>3, <1>4, <1>5, <2>1, <2>3, <3>1, <3>3
  <2>4. CASE issue # <<>>
    <3>1. verdict' \in Codes(dialect) /\ verdict' \notin {"reading", "accepted", "loaded"}
      BY <2>1, <2>2, <2>4, CodesAreVerdicts
    <3>2. ~Consistent(dialect, lines, n + 1)
      BY <2>2, <2>4
    <3>3. ~Consistent(dialect, lines, Len(lines))
      BY <1>1, <1>2, <3>2, ConsistentBefore
    <3>4. errorAt' # 0 /\ errorAt' - 2 = n /\ errorAt' - 1 = n + 1
      BY <1>2, <2>1, <2>4
    <3>5. Judged(dialect', lines', verdict', errorAt', doc')
      BY <1>1, <1>3, <3>1, <3>2, <3>3, <3>4 DEF Judged
    <3>6. SoFarSoGood'
      BY <3>1 DEF SoFarSoGood
    <3>7. QED
      BY <1>4, <3>1, <3>5, <3>6, JudgedFiles
  <2>5. QED
    BY <2>3, <2>4
<1>8. QED
  BY <1>6, <1>7

LEMMA FileIsFinished ==
  ASSUME TypeInv, SoFarSoGood, Finish
  PROVE  TypeInv' /\ SoFarSoGood' /\ ParsesAsDeclared'
<1> DEFINE n == Len(lines)
<1>1. /\ verdict = "reading" /\ at > Len(lines) /\ dialect' = dialect /\ lines' = lines
      /\ at' = at /\ doc' = doc
      /\ dialect \in Dialects /\ lines \in Seq(AnyLine) /\ at \in Nat /\ n \in Nat
  BY DEF TypeInv, Finish, Reading, file
<1>2. at = n + 1 /\ Consumed = n
  BY <1>1 DEF SoFarSoGood, Consumed
<1>3. errorAt = 0 /\ doc = Meaning(dialect, lines, n) /\ Consistent(dialect, lines, n)
  BY <1>1, <1>2 DEF SoFarSoGood
<1>4. /\ Missing(dialect, doc) = {} <=> Complete(dialect, lines)
      /\ Complete(dialect, lines) => Valid(dialect, doc)
  BY <1>1, <1>3, ConsistentIsValid
<1>5. TypeInv'
  BY <1>1 DEF TypeInv
<1>6. verdict' # "reading" => SoFarSoGood'
  BY DEF SoFarSoGood
<1>7. CASE Missing(dialect, doc) # {}
  <2>1. verdict' = "missing_field" /\ errorAt' = at + 1
    BY <1>7 DEF Finish, Reject
  <2>2. ~Complete(dialect, lines)
    BY <1>4, <1>7
  <2>3. errorAt' # 0 /\ errorAt' - 2 = n /\ errorAt' - 1 = n + 1 /\ ~(n + 1 <= n)
    BY <1>1, <1>2, <2>1
  <2>4. Judged(dialect', lines', verdict', errorAt', doc')
    BY <1>1, <1>3, <2>1, <2>2, <2>3, CodesAreVerdicts DEF Judged
  <2>5. QED
    BY <1>5, <1>6, <2>1, <2>4, JudgedFiles
<1>8. CASE Missing(dialect, doc) = {}
  <2>1. Valid(dialect, doc) /\ Complete(dialect, lines)
    BY <1>4, <1>8
  <2>2. verdict' = "accepted" /\ errorAt' = 0
    BY <1>3, <1>8, <2>1 DEF Finish
  <2>3. Judged(dialect', lines', verdict', errorAt', doc')
    BY <1>1, <1>3, <2>1, <2>2 DEF Judged
  <2>4. QED
    BY <1>5, <1>6, <2>2, <2>3, JudgedFiles
<1>9. QED
  BY <1>7, <1>8

LEMMA ReadingIsKept == ReadingInv /\ [Next]_vars => ReadingInv'
<1> SUFFICES ASSUME ReadingInv, [Next]_vars
             PROVE  ReadingInv'
  OBVIOUS
<1> USE DEF ReadingInv
<1>1. CASE Damage
  <2>1. /\ verdict = "reading" /\ verdict' = verdict /\ at = 0 /\ at' = 0 /\ errorAt' = errorAt
        /\ doc' = doc /\ dialect' = dialect /\ lines' \in Cut(lines) \cup Edited(dialect, lines)
        /\ errorAt = 0 /\ doc = Meaning(dialect, lines, 0)
    BY <1>1 DEF Damage, Reading, Begins, SoFarSoGood, Consumed
  <2>2. lines' \in Seq(AnyLine)
    BY <2>1, DamageTypes DEF TypeInv
  <2>3. TypeInv'
    BY <2>1, <2>2 DEF TypeInv
  <2>4. doc' = Meaning(dialect', lines', 0) /\ Consistent(dialect', lines', 0)
    BY <2>1, NothingRead
  <2>5. SoFarSoGood'
    BY <2>1, <2>4 DEF SoFarSoGood, Consumed
  <2>6. ParsesAsDeclared'
    BY <2>1 DEF ParsesAsDeclared, Decided
  <2>7. QED
    BY <2>3, <2>5, <2>6
<1>2. CASE ReadMarker
  <2>1. verdict' = "invalid_marker" /\ dialect' = dialect /\ lines' = lines /\ at' = at
    BY <1>2 DEF ReadMarker, Reject, file
  <2>2. TypeInv'
    BY <2>1 DEF TypeInv
  <2>3. QED
    BY <2>1, <2>2 DEF SoFarSoGood, ParsesAsDeclared, Decided
<1>3. CASE ReadHeader
  <2>1. /\ verdict = "reading" /\ at = 0 /\ dialect' = dialect /\ lines' = lines /\ doc' = doc
        /\ header' = header
    BY <1>3 DEF ReadHeader, Reading, Begins, file
  <2>2. CASE header = "ok"
    <3>1. at' = 1 /\ verdict' = verdict /\ errorAt' = errorAt
      BY <1>3, <2>2 DEF ReadHeader, HeaderIssue
    <3>2. TypeInv'
      BY <2>1, <3>1 DEF TypeInv
    <3>3. Consumed = 0 /\ Consumed' = 0 /\ 0 <= Len(lines)
      BY <2>1, <3>1 DEF Consumed, TypeInv
    <3>4. SoFarSoGood'
      BY <2>1, <2>2, <3>1, <3>3 DEF SoFarSoGood
    <3>5. ParsesAsDeclared'
      BY <2>1, <3>1 DEF ParsesAsDeclared, Decided
    <3>6. QED
      BY <3>2, <3>4, <3>5
  <2>3. CASE header # "ok"
    <3>1. at' = at /\ verdict' \in {"unsupported_version", "invalid_format"}
      BY <1>3, <2>3 DEF ReadHeader, HeaderIssue, Reject
    <3>2. TypeInv'
      BY <2>1, <3>1 DEF TypeInv
    <3>3. QED
      BY <2>1, <2>3, <3>1, <3>2 DEF SoFarSoGood, ParsesAsDeclared, Decided
  <2>4. QED
    BY <2>2, <2>3
<1>4. CASE SkipLine \/ ReadLine
  BY <1>4, LineIsRead
<1>5. CASE Finish
  BY <1>5, FileIsFinished
<1>6. CASE Deliver
  <2>1. /\ verdict = "accepted" /\ dialect = "offer" /\ dialect' = dialect /\ lines' = lines
        /\ at' = at /\ doc' = doc /\ errorAt' = errorAt /\ header' = header
        /\ verdict' = IF Disagreements(doc, Descriptor) # <<>>
                      THEN Disagreements(doc, Descriptor)[1] ELSE
                      IF ~NamedBy(marker, doc) THEN "marker_mismatch" ELSE "loaded"
    BY <1>6 DEF Deliver, file
  <2>2. verdict' \in {"group_mismatch", "compatibility_mismatch", "abi_mismatch",
                      "membership_mismatch", "marker_mismatch", "loaded"}
    BY <2>1, DisagreementCodes
  <2>3. verdict' \in Codes(dialect) \cup {"accepted", "loaded"} /\ verdict' # "reading"
    BY <2>1, <2>2 DEF Codes
  <2>4. TypeInv' /\ SoFarSoGood'
    BY <2>1, <2>3 DEF TypeInv, SoFarSoGood
  <2>5. Decided' => Decided
    BY <2>1 DEF Decided
  <2>6. Judged(dialect, lines, verdict, errorAt, doc) => Judged(dialect', lines', verdict', errorAt', doc')
    BY <2>1, <2>3 DEF Judged
  <2>7. QED
    BY <2>4, <2>5, <2>6, JudgedFiles
<1>7. CASE UNCHANGED <<dialect, header, lines, at, doc, verdict, errorAt>>
  <2>1. TypeInv'
    BY <1>7 DEF TypeInv
  <2>2. SoFarSoGood'
    BY <1>7 DEF SoFarSoGood, Consumed
  <2>3. Decided' => Decided
    BY <1>7 DEF Decided
  <2>4. ParsesAsDeclared'
    BY <1>7, <2>3, JudgedFiles
  <2>5. QED
    BY <2>1, <2>2, <2>4
<1>8. CASE ReadRecord
  BY <1>7, <1>8 DEF ReadRecord, file
<1>9. CASE ResolveRecords
  BY <1>7, <1>9 DEF ResolveRecords, file
<1>10. CASE UNCHANGED vars
  BY <1>7, <1>10 DEF vars, file
<1>11. QED
  BY <1>1, <1>2, <1>3, <1>4, <1>5, <1>6, <1>8, <1>9, <1>10 DEF Next

\* A parser accepts exactly the files that declare a document and delivers that
\* document; of any other it names the first line that is no part of one: the
\* readers of generation_offer.cpp, wasm_offer.cpp and group_descriptor.cpp, for
\* files of any length, written by a publisher and damaged in any way.
THEOREM ParsesAsDeclaredAlways == Spec => []ParsesAsDeclared
<1>1. ReadingInv => ParsesAsDeclared
  BY DEF ReadingInv
<1>2. QED
  BY <1>1, ReadingStarts, ReadingIsKept, PTL DEF Spec

-----------------------------------------------------------------------------
(* Discovery. *)

Frames == [kind : {"record"}, holds : Documents("group")] \cup [kind : {"zeros", "truncated"}]

\* The descriptors in the first n frames of the section.
LinkedUpTo(n) ==
  {doc} \cup {section[i].holds : i \in {k \in 1..n : section[k].kind = "record"}}

\* While a section is followed, the records are the descriptors passed so far,
\* and of what was passed that is no record nothing but zeros follows.
FollowedInv ==
  Discovering =>
    /\ records \in Seq(Linked) /\ ToSet(records) = LinkedUpTo(offset)
    /\ \A i \in 1..offset : section[i].kind # "record" => OnlyZeros(i)

\* A section is followed in the end of an accepted descriptor only.
SectionInv ==
  /\ section \in Seq(Frames) /\ offset \in 0..Len(section)
  /\ verdict # "accepted" \/ dialect # "group" => found = "reading" /\ offset = 0
  /\ FollowedInv
  /\ OneDescriptorPerGroup

\* The frames of a section are its indices.
LEMMA LinkedInAll ==
  ASSUME section \in Seq(Frames)
  PROVE  Linked = LinkedUpTo(Len(section))
BY DEF Linked, LinkedUpTo

LEMMA AppendedSet ==
  ASSUME NEW S, NEW s \in Seq(S), NEW x \in S
  PROVE  Append(s, x) \in Seq(S) /\ ToSet(Append(s, x)) = ToSet(s) \cup {x}
<1> DEFINE a == Append(s, x)
<1>1. /\ a \in Seq(S) /\ Len(a) = Len(s) + 1 /\ Len(s) \in Nat
      /\ \A i \in 1..Len(s) : a[i] = s[i]
      /\ a[Len(s) + 1] = x
  BY AppendProperties
<1>2. DOMAIN s = 1..Len(s) /\ DOMAIN a = 1..(Len(s) + 1)
  BY <1>1
<1> HIDE DEF a
<1>3. \A i : i \in 1..(Len(s) + 1) <=> i \in 1..Len(s) \/ i = Len(s) + 1
  BY <1>1
<1>4. ToSet(a) = ToSet(s) \cup {x}
  BY <1>1, <1>2, <1>3 DEF ToSet
<1>5. QED
  BY <1>1, <1>4 DEF a

\* The first descriptor of every group, when those of a group agree, are all
\* of them, each once.
LEMMA ResolvedFacts ==
  ASSUME NEW S, NEW rs \in Seq(S), Agreeing(rs)
  PROVE  /\ ToSet(Resolved(rs)) = ToSet(rs)
         /\ \A i, j \in DOMAIN Resolved(rs) :
              Resolved(rs)[i].group_id = Resolved(rs)[j].group_id => i = j
<1> DEFINE F == Firsts(rs)
           r == Resolved(rs)
           O == InOrder(F)
<1>1. Len(rs) \in Nat /\ DOMAIN rs = 1..Len(rs)
  OBVIOUS
<1>2. \A i \in F : i \in 1..Len(rs) /\ \A j \in 1..(i - 1) : rs[j].group_id # rs[i].group_id
  BY <1>1 DEF Firsts
<1>3. UpTo(F, Len(rs))
  BY <1>1, <1>2 DEF UpTo
<1> HIDE DEF F
<1>4. /\ Cardinality(F) \in Nat
      /\ \A k \in 1..Cardinality(F) : O[k] \in F /\ Rank(F, O[k]) = k
      /\ \A i \in F : Rank(F, i) \in 1..Cardinality(F) /\ O[Rank(F, i)] = i
  BY <1>3, OrderFacts
<1>5. DOMAIN r = 1..Cardinality(F) /\ \A k \in 1..Cardinality(F) : r[k] = rs[O[k]]
  BY DEF F, Resolved
<1> HIDE DEF r, O
<1>6. \A i, j \in F : rs[i].group_id = rs[j].group_id => i = j
  <2>1. SUFFICES ASSUME NEW i \in F, NEW j \in F, i # j
                 PROVE  rs[i].group_id # rs[j].group_id
    BY Zenon
  <2>2. i \in 1..Len(rs) /\ j \in 1..Len(rs)
    BY <1>2
  <2>3. CASE i < j
    <3>1. i \in 1..(j - 1)
      BY <1>1, <2>2, <2>3
    <3>2. QED
      BY <1>2, <3>1
  <2>4. CASE j < i
    <3>1. j \in 1..(i - 1)
      BY <1>1, <2>2, <2>4
    <3>2. QED
      BY <1>2, <3>1
  <2>5. QED
    BY <1>1, <2>1, <2>2, <2>3, <2>4
<1>7. \A i, j \in DOMAIN r : r[i].group_id = r[j].group_id => i = j
  <2>1. SUFFICES ASSUME NEW i \in 1..Cardinality(F), NEW j \in 1..Cardinality(F),
                        rs[O[i]].group_id = rs[O[j]].group_id
                 PROVE  i = j
    BY <1>5
  <2>2. O[i] = O[j]
    BY <1>4, <1>6, <2>1
  <2>3. QED
    BY <1>4, <2>2
<1>8. \A i \in 1..Len(rs) : \E k \in F : rs[k] = rs[i]
  <2>1. TAKE i \in 1..Len(rs)
  <2> DEFINE same == {k \in 1..Len(rs) : rs[k].group_id = rs[i].group_id}
  <2>2. same \subseteq Nat /\ i \in same
    BY <1>1
  <2>3. PICK k \in same : \A j \in same : k <= j
    BY <2>2, LeastNumber
  <2>4. \A j \in 1..(k - 1) : j \in 1..Len(rs) /\ ~(k <= j)
    BY <1>1, <2>3
  <2>5. k \in F
    BY <1>1, <2>3, <2>4 DEF F, Firsts
  <2>6. rs[k] = rs[i]
    BY <1>1, <2>3 DEF Agreeing
  <2>7. QED
    BY <2>5, <2>6
<1>9. ToSet(r) = ToSet(rs)
  <2>1. ASSUME NEW k \in 1..Cardinality(F)
        PROVE  \E i \in 1..Len(rs) : r[k] = rs[i]
    BY <1>2, <1>4, <1>5, <2>1
  <2>2. ASSUME NEW i \in 1..Len(rs)
        PROVE  \E k \in 1..Cardinality(F) : r[k] = rs[i]
    BY <1>4, <1>5, <1>8, <2>2
  <2>3. \A y : y \in ToSet(r) <=> \E k \in 1..Cardinality(F) : y = r[k]
    BY <1>5 DEF ToSet
  <2>4. \A y : y \in ToSet(rs) <=> \E i \in 1..Len(rs) : y = rs[i]
    BY <1>1 DEF ToSet
  <2>5. QED
    BY <2>1, <2>2, <2>3, <2>4
<1>10. QED
  BY <1>7, <1>9 DEF r

LEMMA SectionStarts == Init => SectionInv
<1> SUFFICES ASSUME Init
             PROVE  SectionInv
  OBVIOUS
<1>1. section \in Seq(Frames)
  <2>1. Sections \subseteq Seq(Frames) /\ <<>> \in Seq(Frames)
    BY FilesAreFiles DEF Frames
  <2>2. QED
    BY <2>1 DEF Init
<1>2. offset = 0 /\ 0 \in 0..Len(section)
  BY <1>1 DEF Init
<1>3. FollowedInv /\ OneDescriptorPerGroup /\ found = "reading"
  BY DEF Init, FollowedInv, Discovering, OneDescriptorPerGroup
<1>4. QED
  BY <1>1, <1>2, <1>3 DEF SectionInv

LEMMA RecordIsRead ==
  ASSUME SectionInv, ReadRecord
  PROVE  SectionInv'
<1> DEFINE n == offset + 1
           frame == section[n]
<1>1. /\ Discovering /\ offset < Len(section) /\ section \in Seq(Frames) /\ Len(section) \in Nat
      /\ offset \in Nat /\ offset' = n /\ n \in 1..Len(section)
      /\ UNCHANGED <<section, doc, verdict, dialect>>
      /\ found = "reading" /\ verdict = "accepted" /\ dialect = "group"
  BY DEF SectionInv, ReadRecord, Discovering, file
<1>2. /\ records \in Seq(Linked) /\ ToSet(records) = LinkedUpTo(offset)
      /\ \A i \in 1..offset : section[i].kind # "record" => OnlyZeros(i)
  BY <1>1 DEF SectionInv, FollowedInv
<1>3. /\ Linked' = Linked /\ LinkedUpTo(offset)' = LinkedUpTo(n)
      /\ \A i \in Nat : OnlyZeros(i)' <=> OnlyZeros(i)
  BY <1>1 DEF Linked, LinkedUpTo, OnlyZeros
<1>4. section' \in Seq(Frames) /\ offset' \in 0..Len(section')
  BY <1>1
<1>5. \A i : i \in 1..n <=> i \in 1..offset \/ i = n
  BY <1>1
<1>6. ASSUME found' = "reading", records' \in Seq(Linked), ToSet(records') = LinkedUpTo(n),
             frame.kind # "record" => OnlyZeros(n)
      PROVE  SectionInv'
  <2>1. \A i \in 1..n : section[i].kind # "record" => OnlyZeros(i)
    BY <1>2, <1>5, <1>6
  <2>2. \A i \in 1..n : section'[i].kind # "record" => OnlyZeros(i)'
    BY <1>1, <1>3, <2>1
  <2>3. FollowedInv'
    BY <1>1, <1>3, <1>6, <2>2 DEF FollowedInv
  <2>4. OneDescriptorPerGroup'
    BY <1>6 DEF OneDescriptorPerGroup
  <2>5. QED
    BY <1>1, <1>4, <2>3, <2>4 DEF SectionInv
<1>7. CASE frame.kind = "record"
  <2>1. records' = Append(records, frame.holds) /\ found' = found
    BY <1>7 DEF ReadRecord
  <2>2. frame.holds \in Linked
    BY <1>1, <1>7 DEF Linked
  <2>3. LinkedUpTo(n) = LinkedUpTo(offset) \cup {frame.holds}
    BY <1>5, <1>7 DEF LinkedUpTo
  <2>4. records' \in Seq(Linked) /\ ToSet(records') = ToSet(records) \cup {frame.holds}
    BY <1>2, <2>1, <2>2, AppendedSet
  <2>5. QED
    BY <1>1, <1>2, <1>6, <1>7, <2>1, <2>3, <2>4
<1>8. CASE frame.kind # "record" /\ OnlyZeros(n)
  <2>1. records' = records /\ found' = "reading"
    BY <1>8 DEF ReadRecord
  <2>2. LinkedUpTo(n) = LinkedUpTo(offset)
    BY <1>5, <1>8 DEF LinkedUpTo
  <2>3. QED
    BY <1>2, <1>6, <1>8, <2>1, <2>2
<1>9. CASE frame.kind # "record" /\ ~OnlyZeros(n)
  <2>1. found' = "rejected"
    BY <1>9 DEF ReadRecord
  <2>2. FollowedInv'
    BY <2>1 DEF FollowedInv, Discovering
  <2>3. \E k \in DOMAIN section' : section'[k].kind # "record" /\ ~OnlyZeros(k)'
    <3>1. n \in Nat /\ n \in DOMAIN section' /\ section'[n].kind # "record"
      BY <1>1, <1>9
    <3>2. \E k \in Nat : k = n
      BY <3>1
    <3>3. QED
      BY <1>3, <1>9, <3>1, <3>2
  <2>4. OneDescriptorPerGroup'
    BY <2>1, <2>3 DEF OneDescriptorPerGroup
  <2>5. QED
    BY <1>1, <1>4, <2>2, <2>4 DEF SectionInv
<1>10. QED
  BY <1>7, <1>8, <1>9

LEMMA RecordsAreResolved ==
  ASSUME SectionInv, ResolveRecords
  PROVE  SectionInv'
<1>1. /\ Discovering /\ offset = Len(section) /\ section \in Seq(Frames)
      /\ UNCHANGED <<section, doc, verdict, dialect, offset>>
      /\ verdict = "accepted" /\ dialect = "group"
  BY DEF SectionInv, ResolveRecords, Discovering, file
<1>2. records \in Seq(Linked) /\ ToSet(records) = Linked
  BY <1>1, LinkedInAll DEF SectionInv, FollowedInv
<1>3. Linked' = Linked
  BY <1>1 DEF Linked
<1>4. section' \in Seq(Frames) /\ offset' \in 0..Len(section')
  BY <1>1 DEF SectionInv
<1>5. found' # "reading"
  BY DEF ResolveRecords
<1>6. FollowedInv'
  BY <1>5 DEF FollowedInv, Discovering
<1>7. CASE Agreeing(records)
  <2>1. found' = "resolved" /\ records' = Resolved(records)
    BY <1>7 DEF ResolveRecords
  <2>2. /\ ToSet(Resolved(records)) = Linked
        /\ \A i, j \in DOMAIN Resolved(records) :
             Resolved(records)[i].group_id = Resolved(records)[j].group_id => i = j
    BY <1>2, <1>7, ResolvedFacts
  <2>3. OneDescriptorPerGroup'
    BY <1>3, <2>1, <2>2 DEF OneDescriptorPerGroup
  <2>4. QED
    BY <1>1, <1>4, <1>6, <2>3 DEF SectionInv
<1>8. CASE ~Agreeing(records)
  <2>1. found' = "rejected"
    BY <1>8 DEF ResolveRecords
  <2>2. \E a, b \in ToSet(records) : a # b /\ a.group_id = b.group_id
    BY <1>8 DEF Agreeing, ToSet
  <2>3. OneDescriptorPerGroup'
    BY <1>2, <1>3, <2>1, <2>2 DEF OneDescriptorPerGroup
  <2>4. QED
    BY <1>1, <1>4, <1>6, <2>3 DEF SectionInv
<1>9. QED
  BY <1>7, <1>8

LEMMA SectionIsKept == ReadingInv /\ SectionInv /\ [Next]_vars => SectionInv'
<1> SUFFICES ASSUME ReadingInv, SectionInv, [Next]_vars
             PROVE  SectionInv'
  OBVIOUS
<1>1. ASSUME UNCHANGED <<section, offset, found>>, verdict' # "accepted" \/ dialect' # "group",
             verdict # "accepted" \/ dialect # "group"
      PROVE  SectionInv'
  <2>1. found = "reading" /\ offset = 0
    BY <1>1 DEF SectionInv
  <2>2. QED
    BY <1>1, <2>1 DEF SectionInv, FollowedInv, Discovering, OneDescriptorPerGroup
<1>2. CASE Damage \/ ReadMarker \/ ReadHeader
  <2>1. /\ UNCHANGED <<section, offset, found>> /\ verdict = "reading"
        /\ verdict' = verdict \/ verdict' \in {"invalid_marker", "unsupported_version", "invalid_format"}
    BY <1>2 DEF Damage, ReadMarker, ReadHeader, Reading, NoSection, file, Reject, HeaderIssue
  <2>2. QED
    BY <1>1, <2>1
<1>3. CASE SkipLine \/ ReadLine
  <2>1. UNCHANGED <<section, offset, found>> /\ verdict = "reading"
    BY <1>3 DEF SkipLine, ReadLine, Reading, NoSection, file
  <2>2. verdict' \notin {"accepted", "loaded"}
    BY <1>3, LineIsRead DEF ReadingInv
  <2>3. QED
    BY <1>1, <2>1, <2>2
<1>4. CASE Finish
  <2>1. /\ UNCHANGED <<section, offset, found, dialect, doc>> /\ verdict = "reading"
    BY <1>4 DEF Finish, Reading, file
  <2>2. CASE verdict' # "accepted" \/ dialect # "group"
    BY <1>1, <2>1, <2>2
  <2>3. CASE verdict' = "accepted" /\ dialect = "group"
    <3>1. records' = <<doc>>
      BY <1>4, <2>3 DEF Finish, Reject
    <3>2. offset' = 0 /\ found' = "reading" /\ section' \in Seq(Frames)
      BY <2>1 DEF SectionInv
    <3>3. doc' \in Linked' /\ LinkedUpTo(offset)' = {doc'}
      BY <3>2 DEF Linked, LinkedUpTo
    <3>4. <<doc>> \in Seq(Linked') /\ ToSet(<<doc>>) = {doc} /\ doc' = doc
      BY <2>1, <3>3 DEF ToSet
    <3>5. (\A i \in 1..offset' : FALSE) /\ 0 \in 0..Len(section')
      BY <3>2
    <3>6. FollowedInv'
      BY <3>1, <3>3, <3>4, <3>5 DEF FollowedInv
    <3>7. OneDescriptorPerGroup'
      BY <3>2 DEF OneDescriptorPerGroup
    <3>8. QED
      BY <3>2, <3>5, <3>6, <3>7 DEF SectionInv
  <2>4. QED
    BY <2>1, <2>2, <2>3
<1>5. CASE Deliver
  <2>1. UNCHANGED <<section, offset, found, dialect>> /\ dialect = "offer"
    BY <1>5 DEF Deliver, NoSection, file
  <2>2. QED
    BY <1>1, <2>1
<1>6. CASE ReadRecord
  BY <1>6, RecordIsRead
<1>7. CASE ResolveRecords
  BY <1>7, RecordsAreResolved
<1>8. CASE UNCHANGED vars
  <2>1. UNCHANGED <<section, offset, found, dialect, doc, verdict, records>>
    BY <1>8 DEF vars, file
  <2>2. /\ Linked' = Linked /\ LinkedUpTo(offset)' = LinkedUpTo(offset)
        /\ \A i \in Nat : OnlyZeros(i)' <=> OnlyZeros(i)
    BY <2>1 DEF Linked, LinkedUpTo, OnlyZeros
  <2>3. FollowedInv'
    <3>1. Discovering' => Discovering
      BY <2>1 DEF Discovering
    <3>2. Discovering => /\ records \in Seq(Linked) /\ ToSet(records) = LinkedUpTo(offset)
                         /\ \A i \in 1..offset : section[i].kind # "record" => OnlyZeros(i)
      BY DEF SectionInv, FollowedInv
    <3>3. \A i \in 1..offset : i \in Nat
      OBVIOUS
    <3>4. Discovering' => /\ records' \in Seq(Linked') /\ ToSet(records') = LinkedUpTo(offset)'
                          /\ \A i \in 1..offset' : section'[i].kind # "record" => OnlyZeros(i)'
      BY <2>1, <2>2, <3>1, <3>2, <3>3
    <3>5. QED
      BY <3>4 DEF FollowedInv
  <2>4. OneDescriptorPerGroup'
    <3>1. OneDescriptorPerGroup
      BY DEF SectionInv
    <3>2. \A i \in DOMAIN section : i \in Nat
      BY DEF SectionInv
    <3>3. QED
      BY <2>1, <2>2, <3>1, <3>2 DEF OneDescriptorPerGroup
  <2>5. QED
    BY <2>1, <2>3, <2>4 DEF SectionInv
<1>9. QED
  BY <1>2, <1>3, <1>4, <1>5, <1>6, <1>7, <1>8 DEF Next

\* Discovery delivers every descriptor that was linked into the application, one
\* for each group, and refuses a section only for two descriptors that disagree
\* about a group or for frames that cannot be followed: descriptor_section.cpp
\* and resolve_descriptor_records, for sections of any length.
THEOREM OneDescriptorPerGroupAlways == Spec => []OneDescriptorPerGroup
<1>1. Init => ReadingInv /\ SectionInv
  BY ReadingStarts, SectionStarts
<1>2. ReadingInv /\ SectionInv /\ [Next]_vars => (ReadingInv /\ SectionInv)'
  BY ReadingIsKept, SectionIsKept
<1>3. SectionInv => OneDescriptorPerGroup
  BY DEF SectionInv
<1>4. QED
  BY <1>1, <1>2, <1>3, PTL DEF Spec


-----------------------------------------------------------------------------
(* What is written is read. *)

\* The document a file was written from stays what it was.
OriginInv == dialect \in Dialects /\ origin \in Written[dialect]

LEMMA OriginStarts == Init => OriginInv
BY DEF Init, OriginInv

LEMMA OriginIsKept == OriginInv /\ [Next]_vars => OriginInv'
<1> SUFFICES ASSUME OriginInv, [Next]_vars
             PROVE  OriginInv'
  OBVIOUS
<1>1. UNCHANGED <<dialect, origin>>
  BY DEF Next, Damage, ReadMarker, ReadHeader, SkipLine, ReadLine, Finish, Deliver, ReadRecord,
         ResolveRecords, vars, file
<1>2. QED
  BY <1>1 DEF OriginInv

\* In all three formats a document that validates, and that serialize_* writes
\* therefore, parses back to itself, and no reader takes one that does not: for
\* every document, of any number of members, inputs or entries.
THEOREM WrittenIsReadAlways == Spec => []WrittenIsRead
<1>1. ASSUME ReadingInv, OriginInv
      PROVE  WrittenIsRead
  <2>1. SUFFICES ASSUME Decided, lines = Serialized(dialect, origin)
                 PROVE  IF Valid(dialect, origin) THEN errorAt = 0 /\ doc = origin ELSE errorAt # 0
    BY DEF WrittenIsRead
  <2>2. dialect \in Dialects /\ origin \in Documents(dialect)
    BY <1>1, FilesAreFiles DEF OriginInv
  <2>3. Holds(dialect, origin, lines, DOMAIN Shape(dialect))
    BY <2>1, <2>2, SerializedHolds
  <2>4. Meaning(dialect, lines, Len(lines)) = origin
    BY <2>2, <2>3, MeaningOfSerialized
  <2>5. Valid(dialect, origin) => Consistent(dialect, lines, Len(lines)) /\ Complete(dialect, lines)
    BY <2>2, <2>3, ValidIsConsistent
  <2>6. Judged(dialect, lines, verdict, errorAt, doc)
    BY <1>1, <2>1, JudgedFiles DEF ReadingInv
  <2>7. QED
    BY <2>4, <2>5, <2>6 DEF Judged
<1>2. Init => ReadingInv /\ OriginInv
  BY ReadingStarts, OriginStarts
<1>3. ReadingInv /\ OriginInv /\ [Next]_vars => (ReadingInv /\ OriginInv)'
  BY ReadingIsKept, OriginIsKept
<1>4. QED
  BY <1>1, <1>2, <1>3, PTL DEF Spec

-----------------------------------------------------------------------------
(* Manifests that were cut off. *)

\* What is loaded was an offer with a header, and names the members of the
\* group.
LoadedInv ==
  /\ verdict \in {"accepted", "loaded"} => header = "ok" /\ errorAt = 0
  /\ verdict = "loaded" => dialect = "offer" /\ SameMembers(doc, Descriptor)

LEMMA LoadedStarts == Init => LoadedInv
BY DEF Init, LoadedInv

LEMMA NoDisagreement ==
  ASSUME NEW o, NEW d, Disagreements(o, d) = <<>>
  PROVE  SameMembers(o, d)
<1> DEFINE checks == << <<o.group_id # d.group_id, "group_mismatch">>,
                        <<o.compatibility_id # d.compatibility_id, "compatibility_mismatch">>,
                        <<o.abi_id # d.abi_id, "abi_mismatch">>,
                        <<~SameMembers(o, d), "membership_mismatch">> >>
<1>1. DOMAIN checks = 1..4 /\ checks[4] = <<~SameMembers(o, d), "membership_mismatch">>
  OBVIOUS
<1>5. checks[4][1] <=> ~SameMembers(o, d)
  BY <1>1
<1>2. Disagreements(o, d) = FirstWrong(checks)
  BY DEF Disagreements
<1> HIDE DEF checks
<1>3. \A i \in 1..4 : ~checks[i][1]
  BY <1>1, <1>2, FirstWrongFacts
<1>6. 4 \in 1..4
  OBVIOUS
<1>4. QED
  BY <1>3, <1>5, <1>6

LEMMA LoadedIsKept == ReadingInv /\ LoadedInv /\ [Next]_vars => LoadedInv'
<1> SUFFICES ASSUME ReadingInv, LoadedInv, [Next]_vars
             PROVE  LoadedInv'
  OBVIOUS
<1>1. CASE Damage \/ ReadMarker \/ ReadHeader
  BY <1>1 DEF Damage, ReadMarker, ReadHeader, Reading, Reject, HeaderIssue, LoadedInv
<1>2. CASE SkipLine \/ ReadLine
  BY <1>2, LineIsRead DEF ReadingInv, LoadedInv
<1>3. CASE Finish
  <2>1. /\ verdict = "reading" /\ at > 0 /\ header' = header
        /\ verdict' \in {"missing_field", "invalid_field", "accepted"}
    BY <1>3 DEF Finish, Reading, Reject, file, ReadingInv, TypeInv
  <2>2. header = "ok" /\ errorAt = 0 /\ (verdict' = "accepted" => errorAt' = errorAt)
    BY <1>3, <2>1 DEF ReadingInv, SoFarSoGood, Finish, Reject
  <2>3. QED
    BY <2>1, <2>2 DEF LoadedInv
<1>4. CASE Deliver
  <2>1. /\ verdict = "accepted" /\ dialect = "offer" /\ UNCHANGED <<header, dialect, doc, errorAt>>
        /\ verdict' = IF Disagreements(doc, Descriptor) # <<>>
                      THEN Disagreements(doc, Descriptor)[1] ELSE
                      IF ~NamedBy(marker, doc) THEN "marker_mismatch" ELSE "loaded"
    BY <1>4 DEF Deliver, file
  <2>2. verdict' = "loaded" => Disagreements(doc, Descriptor) = <<>>
    BY <2>1, DisagreementCodes
  <2>3. verdict' = "loaded" => SameMembers(doc, Descriptor)
    BY <2>2, NoDisagreement
  <2>4. SameMembers(doc, Descriptor)' <=> SameMembers(doc, Descriptor)
    BY <2>1 DEF SameMembers, Members
  <2>5. QED
    BY <2>1, <2>3, <2>4 DEF LoadedInv
<1>5. CASE UNCHANGED <<verdict, header, dialect, doc, errorAt>>
  BY <1>5 DEF LoadedInv, SameMembers, Members
<1>6. CASE ReadRecord \/ ResolveRecords
  BY <1>5, <1>6 DEF ReadRecord, ResolveRecords, file
<1>7. CASE UNCHANGED vars
  BY <1>5, <1>7 DEF vars, file
<1>8. QED
  BY <1>1, <1>2, <1>3, <1>4, <1>6, <1>7 DEF Next

\* The directives an offer has once.
OfferHead == {"group_id", "sequence", "generation_id", "compatibility_id", "abi_id"}

\* In an offer as it is written they stand before the members.
LEMMA MembersComeLast ==
  ASSUME NEW o \in Documents("offer"),
         NEW x \in OfferHead, NEW i \in Of(Serialized("offer", o), Len(Serialized("offer", o)), x),
         NEW j \in Of(Serialized("offer", o), Len(Serialized("offer", o)), "member")
  PROVE  i < j
<1> DEFINE B(y) == Block("offer", o, y)
           P == B("group_id") \o B("sequence") \o B("generation_id") \o B("compatibility_id")
                  \o B("abi_id")
           m == B("member")
           c == B("changed_input")
           S == Serialized("offer", o)
<1>1. S = P \o m \o c
  BY DEF Serialized
<1>2. DOMAIN Shape("offer") = OfferNames /\ "offer" \in Dialects
  BY OfferShape DEF Dialects
<1>3. /\ m \in Seq(AnyLine) /\ \A k \in 1..Len(m) : m[k].directive = "member"
      /\ c \in Seq(AnyLine) /\ \A k \in 1..Len(c) : c[k].directive = "changed_input"
  <2>1. Holds("offer", o, m, {"member"}) /\ Holds("offer", o, c, {"changed_input"})
    BY <1>2, FirstBlock DEF OfferNames
  <2>2. QED
    BY <2>1 DEF Holds
<1>4. P \in Seq(AnyLine) /\ \A k \in 1..Len(P) : P[k].directive \in OfferHead
  <2> DEFINE H(ls, X) == Holds("offer", o, ls, X)
  <2>1. \A ls, X : \A y \in OfferNames : H(ls, X) /\ y \notin X => H(ls \o B(y), X \cup {y})
    BY <1>2, AddBlock
  <2>2. \A y \in OfferNames : H(B(y), {y})
    BY <1>2, FirstBlock
  <2>8. \A ls : H(ls, {"group_id"} \cup {"sequence"} \cup {"generation_id"} \cup {"compatibility_id"}
                        \cup {"abi_id"}) => ls \in Seq(AnyLine) /\ \A k \in 1..Len(ls) : ls[k].directive \in OfferHead
    <3>1. {"group_id"} \cup {"sequence"} \cup {"generation_id"} \cup {"compatibility_id"}
            \cup {"abi_id"} = OfferHead
      BY DEF OfferHead
    <3>2. QED
      BY <3>1 DEF Holds
  <2> HIDE DEF B, H
  <2>3. H(B("group_id"), {"group_id"})
    BY <2>2 DEF OfferNames
  <2>4. H(B("group_id") \o B("sequence"), {"group_id"} \cup {"sequence"})
    BY <2>1, <2>3 DEF OfferNames
  <2>5. H(B("group_id") \o B("sequence") \o B("generation_id"),
          {"group_id"} \cup {"sequence"} \cup {"generation_id"})
    BY <2>1, <2>4 DEF OfferNames
  <2>6. H(B("group_id") \o B("sequence") \o B("generation_id") \o B("compatibility_id"),
          {"group_id"} \cup {"sequence"} \cup {"generation_id"} \cup {"compatibility_id"})
    BY <2>1, <2>5 DEF OfferNames
  <2>7. H(B("group_id") \o B("sequence") \o B("generation_id") \o B("compatibility_id")
            \o B("abi_id"),
          {"group_id"} \cup {"sequence"} \cup {"generation_id"} \cup {"compatibility_id"}
            \cup {"abi_id"})
    BY <2>1, <2>6 DEF OfferNames
  <2>9. QED
    BY <2>7, <2>8
<1> HIDE DEF P, m, c, S
<1> DEFINE Q == P \o m
<1>5. /\ Q \in Seq(AnyLine) /\ Len(Q) = Len(P) + Len(m)
      /\ \A k \in 1..(Len(P) + Len(m)) : Q[k] = IF k <= Len(P) THEN P[k] ELSE m[k - Len(P)]
  BY <1>3, <1>4, ConcatProperties
<1> HIDE DEF Q
<1>6. /\ S \in Seq(AnyLine) /\ Len(S) = Len(Q) + Len(c)
      /\ \A k \in 1..(Len(Q) + Len(c)) : S[k] = IF k <= Len(Q) THEN Q[k] ELSE c[k - Len(Q)]
  BY <1>1, <1>3, <1>5, ConcatProperties DEF Q
<1> DEFINE lp == Len(P)
           lm == Len(m)
           lc == Len(c)
           lq == Len(Q)
<1>7. /\ lp \in Nat /\ lm \in Nat /\ lc \in Nat /\ lq = lp + lm
      /\ \A k \in 1..lp : P[k].directive \in OfferHead
      /\ \A k \in 1..lm : m[k].directive = "member"
      /\ \A k \in 1..lc : c[k].directive = "changed_input"
      /\ \A k \in 1..(lp + lm) : Q[k] = IF k <= lp THEN P[k] ELSE m[k - lp]
      /\ \A k \in 1..(lq + lc) : S[k] = IF k <= lq THEN Q[k] ELSE c[k - lq]
  BY <1>3, <1>4, <1>5, <1>6
<1>8. i \in 1..(lq + lc) /\ S[i].directive \in OfferHead /\ j \in 1..(lq + lc) /\ S[j].directive = "member"
  BY <1>6 DEF Of, S
<1> HIDE DEF lp, lm, lc, lq
<1>9. "member" \notin OfferHead /\ "changed_input" \notin OfferHead
  BY DEF OfferHead
<1>10. i <= lp
  <2>1. SUFFICES ASSUME ~(i <= lp)
                 PROVE  FALSE
    OBVIOUS
  <2>2. CASE i <= lq
    <3>1. i \in 1..(lp + lm) /\ i - lp \in 1..lm
      BY <1>7, <1>8, <2>1, <2>2
    <3>2. S[i] = m[i - lp]
      BY <1>7, <1>8, <2>1, <2>2, <3>1
    <3>3. QED
      BY <1>7, <1>8, <1>9, <3>1, <3>2
  <2>3. CASE ~(i <= lq)
    <3>1. i - lq \in 1..lc
      BY <1>7, <1>8, <2>3
    <3>2. S[i] = c[i - lq]
      BY <1>7, <1>8, <2>3
    <3>3. QED
      BY <1>7, <1>8, <1>9, <3>1, <3>2
  <2>4. QED
    BY <2>2, <2>3
<1>11. ~(j <= lp)
  <2>1. SUFFICES ASSUME j <= lp
                 PROVE  FALSE
    OBVIOUS
  <2>2. j \in 1..lp /\ j \in 1..(lp + lm) /\ j <= lq
    BY <1>7, <1>8, <2>1
  <2>3. S[j] = P[j]
    BY <1>7, <1>8, <2>1, <2>2
  <2>4. QED
    BY <1>7, <1>8, <1>9, <2>2, <2>3
<1>12. QED
  BY <1>7, <1>8, <1>10, <1>11

\* What was cut off is as it was written, but for its last line.
LEMMA CutFacts ==
  ASSUME NEW ls \in Seq(AnyLine), NEW new \in Cut(ls)
  PROVE  /\ new \in Seq(AnyLine) /\ Len(new) \in Nat /\ Len(new) <= Len(ls)
         /\ \A i \in 1..Len(new) :
              i \in 1..Len(ls) /\ (new[i] = ls[i] \/ (i = Len(new) /\ new[i] \in Torn(ls[i])))
<1>1. Len(ls) \in Nat /\ DOMAIN ls = 1..Len(ls) /\ \A i \in 1..Len(ls) : ls[i] \in AnyLine
  OBVIOUS
<1>2. ASSUME NEW n \in 0..Len(ls)
      PROVE  /\ SubSeq(ls, 1, n) \in Seq(AnyLine) /\ Len(SubSeq(ls, 1, n)) = n
             /\ \A i \in 1..n : SubSeq(ls, 1, n)[i] = ls[i]
  <2>1. n \in Int /\ 1 \in Int /\ n - 1 + 1 = n /\ (1 <= n \/ n = 0) /\ \A i \in 1..n : ls[i] \in AnyLine
    BY <1>1
  <2>2. /\ SubSeq(ls, 1, n) \in Seq(AnyLine)
        /\ Len(SubSeq(ls, 1, n)) = IF 1 <= n THEN n - 1 + 1 ELSE 0
        /\ \A i \in 1..(n - 1 + 1) : SubSeq(ls, 1, n)[i] = ls[1 + i - 1]
    BY <2>1, SubSeqProperties
  <2>3. \A i \in 1..n : 1 + i - 1 = i
    OBVIOUS
  <2>4. QED
    BY <2>1, <2>2, <2>3
<1>3. CASE new \in {SubSeq(ls, 1, n) : n \in 0..(Len(ls) - 1)}
  <2>1. PICK n \in 0..(Len(ls) - 1) : new = SubSeq(ls, 1, n)
    BY <1>3
  <2>2. n \in 0..Len(ls) /\ n \in Nat /\ n <= Len(ls) /\ \A i \in 1..n : i \in 1..Len(ls)
    BY <1>1, <2>1
  <2>3. new \in Seq(AnyLine) /\ Len(new) = n /\ \A i \in 1..n : new[i] = ls[i]
    BY <1>2, <2>1, <2>2
  <2>4. QED
    BY <2>2, <2>3
<1>4. CASE new \in UNION {{Append(SubSeq(ls, 1, n - 1), t) : t \in Torn(ls[n])} : n \in DOMAIN ls}
  <2>1. PICK n \in 1..Len(ls) : \E t \in Torn(ls[n]) : new = Append(SubSeq(ls, 1, n - 1), t)
    BY <1>1, <1>4
  <2>2. PICK t \in Torn(ls[n]) : new = Append(SubSeq(ls, 1, n - 1), t)
    BY <2>1
  <2> DEFINE s == SubSeq(ls, 1, n - 1)
  <2>3. /\ n - 1 \in 0..Len(ls) /\ n \in Nat /\ n - 1 + 1 = n /\ n <= Len(ls)
        /\ \A i \in 1..n : i \in 1..Len(ls)
        /\ \A i \in 1..n : i \in 1..(n - 1) \/ i = n
    BY <1>1
  <2>4. s \in Seq(AnyLine) /\ Len(s) = n - 1 /\ \A i \in 1..(n - 1) : s[i] = ls[i]
    BY <1>2, <2>3
  <2>5. t \in AnyLine
    BY <1>1, <2>2, TornTypes
  <2> HIDE DEF s
  <2>6. /\ Append(s, t) \in Seq(AnyLine) /\ Len(Append(s, t)) = Len(s) + 1
        /\ \A i \in 1..Len(s) : Append(s, t)[i] = s[i]
        /\ Append(s, t)[Len(s) + 1] = t
    BY <2>4, <2>5, AppendProperties
  <2>7. /\ new \in Seq(AnyLine) /\ Len(new) = n /\ new[n] = t
        /\ \A i \in 1..(n - 1) : new[i] = ls[i]
    BY <2>2, <2>3, <2>4, <2>6 DEF s
  <2>8. QED
    BY <2>2, <2>3, <2>7
<1>5. QED
  BY <1>3, <1>4 DEF Cut

\* A line of an offer that was torn cannot be read, if it is not the number.
LEMMA TornLine ==
  ASSUME NEW o \in Documents("offer"), NEW x \in OfferNames, x # "sequence",
         NEW k \in 1..Len(o[x]), NEW torn \in Torn(LineOf("offer", x, o[x][k]))
  PROVE  torn.directive = x /\ ~WellFormed("offer", torn)
<1> DEFINE s == Shape("offer")[x]
           texts == o[x][k]
           f == [i \in DOMAIN texts |-> Token(s[i], texts[i])]
           line == LineOf("offer", x, texts)
<1>1. /\ DOMAIN Shape("offer") = OfferNames /\ "offer" \in Dialects
      /\ Len(s) \in Nat /\ DOMAIN s = 1..Len(s)
  BY OfferShape, ShapeTypes DEF Dialects
<1>2. \A i \in DOMAIN s : ~Number(s[i])
  BY OfferShape DEF Number, OfferNames
<1>3. DOMAIN texts = 1..Len(s)
  BY <1>1, BlockFacts
<1>4. line = [directive |-> x, fields |-> f, rest |-> FALSE]
  BY DEF LineOf
<1>5. DOMAIN f = 1..Len(s) /\ \A i \in 1..Len(s) : f[i] = Token(s[i], texts[i])
  BY <1>3
<1>6. \A i \in 1..Len(s) : f[i].form = "quoted"
  BY <1>1, <1>2, <1>5 DEF Token
<1>7. line \in AnyLine
  BY <1>1, BlockFacts
<1>8. torn \in AnyLine
  BY <1>7, TornTypes
<1> HIDE DEF s, texts, f, line
<1>9. f \in Seq(Tokens) /\ Len(f) = Len(s) /\ DOMAIN f = DOMAIN s
  <2>1. f \in Seq(Tokens)
    BY <1>4, <1>7 DEF AnyLine
  <2>2. QED
    BY <1>1, <1>5, <2>1
<1>10. torn \in Torn(line)
  BY DEF line, texts
<1>11. CASE torn \in {[line EXCEPT !.fields = SubSeq(@, 1, n)] : n \in 0..(Len(line.fields) - 1)}
  <2>1. PICK n \in 0..(Len(f) - 1) : torn = [line EXCEPT !.fields = SubSeq(f, 1, n)]
    BY <1>4, <1>11
  <2>2. torn.directive = x /\ torn.fields = SubSeq(f, 1, n)
    BY <1>4, <2>1
  <2>3. /\ n \in Int /\ 1 \in Int /\ n - 1 + 1 = n /\ (1 <= n \/ n = 0) /\ n # Len(s)
        /\ \A i \in 1..n : f[i] \in Tokens
    <3> DEFINE e == Len(s)
    <3>1. e \in Nat /\ n \in 0..(e - 1) /\ \A i \in 1..e : f[i] \in Tokens
      BY <1>1, <1>9, <2>1
    <3> HIDE DEF e
    <3>2. n \in Int /\ n - 1 + 1 = n /\ (1 <= n \/ n = 0) /\ n # e /\ \A i \in 1..n : i \in 1..e
      BY <3>1
    <3>3. QED
      BY <3>1, <3>2 DEF e
  <2>4. Len(SubSeq(f, 1, n)) = IF 1 <= n THEN n - 1 + 1 ELSE 0
    BY <2>3, SubSeqProperties
  <2>5. Len(torn.fields) # Len(s)
    BY <2>2, <2>3, <2>4
  <2>6. QED
    BY <2>2, <2>5 DEF WellFormed, s
<1>12. CASE torn \in {[line EXCEPT !.fields[n].form = "open"] :
                        n \in {i \in DOMAIN line.fields : line.fields[i].form = "quoted"}}
  <2>1. PICK n \in DOMAIN f : torn = [line EXCEPT !.fields = [f EXCEPT ![n] = [f[n] EXCEPT !.form = "open"]]]
    BY <1>4, <1>12
  <2>2. torn.directive = x /\ torn.fields = [f EXCEPT ![n] = [f[n] EXCEPT !.form = "open"]]
    BY <1>4, <2>1
  <2>3. f[n] \in Tokens
    BY <1>9
  <2>4. n \in DOMAIN torn.fields /\ torn.fields[n].form = "open"
    BY <2>2, <2>3 DEF Tokens
  <2>5. Malformed(s[n], torn.fields[n])
    BY <1>2, <1>9, <2>4 DEF Malformed
  <2>6. QED
    BY <2>2, <2>4, <2>5 DEF WellFormed, s
<1>13. CASE torn \in {[line EXCEPT !.fields[p[1]].text = p[2]] :
                        p \in {q \in (DOMAIN line.fields) \X Numbers :
                                 line.fields[q[1]].form = "canonical"
                                 /\ <<q[2], line.fields[q[1]].text>> \in Shorter}}
  <2>1. \E n \in DOMAIN f : f[n].form = "canonical"
    BY <1>4, <1>13
  <2>2. QED
    BY <1>5, <1>6, <2>1
<1>14. QED
  BY <1>10, <1>11, <1>12, <1>13 DEF Torn

\* Offers are written by a build that knows no more members than the
\* application that watches it.
OffersOfTheGroup == \A o \in Written["offer"] : Len(o.member) <= Len(Descriptor.member)

LEMMA CutOffers ==
  ASSUME NEW o \in Documents("offer"), Len(o.member) <= Len(Descriptor.member),
         NEW new \in Cut(Serialized("offer", o)), NEW document,
         Consistent("offer", new, Len(new)), Complete("offer", new),
         document = Meaning("offer", new, Len(new)), SameMembers(document, Descriptor)
  PROVE  \A x \in DOMAIN Shape("offer") \ {"changed_input"} : document[x] = o[x]
<1> DEFINE S == Serialized("offer", o)
           n == Len(new)
<1>1. /\ DOMAIN Shape("offer") = OfferNames /\ "offer" \in Dialects
      /\ Holds("offer", o, S, OfferNames) /\ Meaning("offer", S, Len(S)) = o
  BY OfferShape, SerializedHolds, MeaningOfSerialized DEF Dialects
<1>2. /\ new \in Seq(AnyLine) /\ n \in Nat /\ n <= Len(S)
      /\ \A i \in 1..n : i \in 1..Len(S) /\ (new[i] = S[i] \/ (i = n /\ new[i] \in Torn(S[i])))
  <2>1. S \in Seq(AnyLine)
    BY <1>1 DEF Holds
  <2>2. QED
    BY <2>1, CutFacts
<1> HIDE DEF S
<1>3. PICK last \in Of(new, n, "member") : TRUE
  <2>1. "member" \in Required("offer")
    BY <1>1 DEF Required, OfferNames
  <2>2. QED
    BY <2>1 DEF Complete
<1>4. last \in 1..n /\ new[last].directive = "member"
  BY DEF Of
<1> HIDE DEF n
<1>5. \A x \in OfferNames : \A i \in Of(S, Len(S), x) : \E k \in 1..Len(o[x]) : S[i] = LineOf("offer", x, o[x][k])
  <2>1. TAKE x \in OfferNames
  <2>2. PICK a \in Nat : /\ Of(S, Len(S), x) = (a + 1)..(a + Len(o[x]))
                         /\ \A k \in 1..Len(o[x]) : S[a + k] = LineOf("offer", x, o[x][k])
    BY <1>1 DEF Holds, Run
  <2>3. Len(o[x]) \in Nat
    BY <1>1, BlockFacts
  <2>4. \A i \in Of(S, Len(S), x) : i - a \in 1..Len(o[x]) /\ a + (i - a) = i
    BY <2>2, <2>3
  <2>5. QED
    BY <2>2, <2>4
<1>6. \A i \in 1..n : new[i] = S[i]
  <2>1. SUFFICES ASSUME NEW i \in 1..n, new[i] # S[i]
                 PROVE  FALSE
    OBVIOUS
  <2>2. i = n /\ i \in 1..Len(S) /\ new[i] \in Torn(S[i])
    BY <1>2, <2>1
  <2> DEFINE x == S[i].directive
  <2>3. x \in OfferNames /\ i \in Of(S, Len(S), x)
    BY <1>1, <2>2 DEF Holds, Of
  <2>4. PICK k \in 1..Len(o[x]) : S[i] = LineOf("offer", x, o[x][k])
    BY <1>5, <2>3
  <2> HIDE DEF x
  <2>5. CASE x # "sequence"
    <3>1. new[i].directive = x /\ ~WellFormed("offer", new[i])
      BY <2>2, <2>3, <2>4, <2>5, TornLine
    <3>2. x # "#"
      BY <2>3 DEF OfferNames
    <3>3. QED
      BY <3>1, <3>2 DEF Consistent, n
  <2>6. CASE x = "sequence"
    <3>1. new[i].directive = "sequence"
      <4>1. new[i].directive = S[i].directive
        BY <1>1, <2>2, TornTypes DEF Holds
      <4>2. QED
        BY <2>6, <4>1 DEF x
    <3>2. last # i /\ last \in 1..Len(S)
      BY <1>2, <1>4, <3>1
    <3>3. new[last] = S[last]
      BY <1>2, <1>4, <2>2, <3>2
    <3>4. last \in Of(S, Len(S), "member") /\ i \in Of(S, Len(S), "sequence") /\ "sequence" \in OfferHead
      BY <1>4, <2>3, <2>6, <3>2, <3>3 DEF Of, OfferHead
    <3>5. i < last
      BY <3>4, MembersComeLast DEF S
    <3>6. QED
      BY <1>2, <1>4, <2>2, <3>5
  <2>7. QED
    BY <2>5, <2>6
<1>7. ASSUME NEW x, Of(new, n, x) = Of(S, Len(S), x), x \in DOMAIN Shape("offer")
      PROVE  document[x] = o[x]
  <2> DEFINE T == Of(S, Len(S), x)
  <2>1. document[x] = [k \in 1..Cardinality(T) |-> Texts(new[InOrder(T)[k]])]
    BY <1>7 DEF Meaning, n
  <2>2. o[x] = [k \in 1..Cardinality(T) |-> Texts(S[InOrder(T)[k]])]
    BY <1>1, <1>7 DEF Meaning
  <2>3. UpTo(T, Len(S)) /\ T = Of(new, n, x)
    <3>1. Len(S) \in Nat
      BY <1>1 DEF Holds
    <3>2. QED
      BY <1>7, <3>1, OfFacts
  <2>4. \A k \in 1..Cardinality(T) : InOrder(T)[k] \in 1..n
    <3>1. \A k \in 1..Cardinality(T) : InOrder(T)[k] \in T
      BY <2>3, OrderFacts
    <3>2. QED
      BY <2>3, <3>1 DEF Of
  <2> HIDE DEF T
  <2>5. \A k \in 1..Cardinality(T) : Texts(new[InOrder(T)[k]]) = Texts(S[InOrder(T)[k]])
    BY <1>6, <2>4
  <2>6. QED
    BY <2>1, <2>2, <2>5
<1>8. \A x, i : i \in Of(new, n, x) <=> i \in Of(S, Len(S), x) /\ i <= n
  <2>1. \A i : i \in 1..n <=> i \in 1..Len(S) /\ i <= n
    BY <1>1, <1>2 DEF Holds
  <2>2. QED
    BY <1>6, <2>1 DEF Of
<1>9. ASSUME NEW x \in OfferHead
      PROVE  document[x] = o[x]
  <2>1. last \in Of(S, Len(S), "member")
    BY <1>8
  <2>2. \A i \in Of(S, Len(S), x) : i < last
    BY <1>9, <2>1, MembersComeLast DEF S
  <2>3. \A i \in Of(S, Len(S), x) : i <= n
    <3>1. \A i \in Of(S, Len(S), x) : i \in 1..Len(S)
      BY DEF Of
    <3>2. Len(S) \in Nat
      BY <1>1 DEF Holds
    <3>3. SUFFICES ASSUME NEW i \in Of(S, Len(S), x)
                   PROVE  i <= n
      OBVIOUS
    <3>4. i \in Nat /\ last \in Nat /\ last <= n /\ n \in Nat /\ i < last
      BY <1>2, <1>4, <2>2, <3>1, <3>2
    <3>5. QED
      BY <3>4
  <2>4. Of(new, n, x) = Of(S, Len(S), x)
    <3>1. \A i : i \in Of(new, n, x) <=> i \in Of(S, Len(S), x)
      BY <1>8, <2>3
    <3>2. QED
      BY <3>1
  <2>5. x \in DOMAIN Shape("offer")
    BY <1>1 DEF OfferHead, OfferNames
  <2>6. QED
    BY <1>7, <2>4, <2>5
<1>10. document.member = o.member
  <2> DEFINE T == Of(S, Len(S), "member")
             U == Of(new, n, "member")
  <2>1. "member" \in DOMAIN Shape("offer") /\ "member" \in DOMAIN Shape("group") /\ Descriptor \in Documents("group")
        /\ "group" \in Dialects
    BY <1>1, GroupShape, FilesAreFiles DEF OfferNames, GroupNames, Dialects
  <2>2. Len(Descriptor.member) \in Nat /\ DOMAIN Descriptor.member = 1..Len(Descriptor.member)
    BY <2>1, BlockFacts
  <2>3. Cardinality(U) \in Nat /\ DOMAIN document.member = 1..Cardinality(U)
    BY <1>2, <2>1, MeaningFacts DEF n
  <2>4. Cardinality(U) = Len(Descriptor.member)
    <3>1. DOMAIN Members(document) = DOMAIN Members(Descriptor)
      BY DEF SameMembers
    <3>2. 1..Cardinality(U) = 1..Len(Descriptor.member)
      BY <2>2, <2>3, <3>1 DEF Members
    <3> HIDE DEF U
    <3>3. QED
      BY <2>2, <2>3, <3>2
  <2>5. Cardinality(T) = Len(o.member) /\ IsFiniteSet(T) /\ Cardinality(T) \in Nat
    <3>1. Cardinality(T) \in Nat /\ DOMAIN o.member = 1..Cardinality(T)
      BY <1>1, <2>1, MeaningFacts DEF Holds
    <3>2. Len(o.member) \in Nat /\ DOMAIN o.member = 1..Len(o.member)
      BY <1>1, <2>1, BlockFacts
    <3>3. IsFiniteSet(T)
      <4>1. Len(S) \in Nat
        BY <1>1 DEF Holds
      <4>2. UpTo(T, Len(S))
        BY <4>1, OfFacts
      <4> HIDE DEF T
      <4>3. QED
        BY <4>2, RankBounds
    <3> HIDE DEF T
    <3>4. QED
      BY <3>1, <3>2, <3>3
  <2>6. U \subseteq T
    BY <1>8
  <2> HIDE DEF T, U
  <2>7. Cardinality(U) <= Cardinality(T) /\ (Cardinality(U) = Cardinality(T) => U = T)
    BY <2>5, <2>6, FS_Subset
  <2>8. Cardinality(U) = Cardinality(T)
    BY <2>2, <2>3, <2>4, <2>5, <2>7
  <2>9. QED
    BY <1>7, <2>1, <2>7, <2>8 DEF T, U
<1>11. OfferNames \ {"changed_input"} = OfferHead \cup {"member"}
  BY DEF OfferNames, OfferHead
<1>12. QED
  BY <1>1, <1>9, <1>10, <1>11

\* A manifest that was cut off while it was written is never loaded as another
\* generation, wherever it was cut: what was lost shows in a line that cannot be
\* read, in a directive that is missing, or in a member that the descriptor names
\* (validate_generation_offer_against_descriptor).  For builds that hand the
\* publisher no more members than the application was linked with.
THEOREM TornOffersAreNotLoadedAlways ==
  ASSUME OffersOfTheGroup
  PROVE  Spec => []TornOffersAreNotLoaded
<1>1. ASSUME ReadingInv, OriginInv, LoadedInv
      PROVE  TornOffersAreNotLoaded
  <2>1. SUFFICES ASSUME verdict = "loaded", lines \in Cut(Serialized(dialect, origin))
                 PROVE  \A x \in DOMAIN Shape("offer") \ {"changed_input"} : doc[x] = origin[x]
    BY DEF TornOffersAreNotLoaded
  <2>2. dialect = "offer" /\ header = "ok" /\ SameMembers(doc, Descriptor)
    BY <1>1, <2>1 DEF LoadedInv
  <2>3. origin \in Documents("offer") /\ Len(origin.member) <= Len(Descriptor.member)
    BY <1>1, <2>2, FilesAreFiles DEF OriginInv, OffersOfTheGroup
  <2>4. Judged(dialect, lines, verdict, errorAt, doc)
    BY <1>1, <2>1, <2>2, JudgedFiles DEF ReadingInv, Decided
  <2>5. errorAt = 0
    BY <1>1, <2>1 DEF LoadedInv
  <2>6. QED
    BY <2>1, <2>2, <2>3, <2>4, <2>5, CutOffers DEF Judged
<1>2. Init => ReadingInv /\ OriginInv /\ LoadedInv
  BY ReadingStarts, OriginStarts, LoadedStarts
<1>3. ReadingInv /\ OriginInv /\ LoadedInv /\ [Next]_vars => (ReadingInv /\ OriginInv /\ LoadedInv)'
  BY ReadingIsKept, OriginIsKept, LoadedIsKept
<1>4. QED
  BY <1>1, <1>2, <1>3, PTL DEF Spec
=============================================================================
