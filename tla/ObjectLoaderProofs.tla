------------------------- MODULE ObjectLoaderProofs -------------------------
(***************************************************************************)
(* Proofs about ObjectLoader: memory is given out once, every variable     *)
(* keeps its home, every call reaches its function and every redirected    *)
(* entry belongs to the function that replaces it, for any programs,       *)
(* objects, owners and numbers of generations.  What the loaders conclude  *)
(* from names is right for programs whose names are clear; each theorem    *)
(* says which part of that it needs.                                       *)
(***************************************************************************)
EXTENDS ObjectLoader, FiniteSetTheorems, WellFoundedInduction, TLAPS

-----------------------------------------------------------------------------
(* The k-th free reservation. *)

\* A set of numbers has a least one.
LEMMA LeastNumber ==
  ASSUME NEW S, S \subseteq Nat, S # {}
  PROVE  \E m \in S : \A i \in S : m <= i
<1>1. PICK m \in S : \A i \in S : ~(<<i, m>> \in OpToRel(<, Nat))
  BY WFMin, NatLessThanWellFounded
<1>2. \A i \in S : ~(i < m)
  BY <1>1 DEF OpToRel
<1>3. QED
  BY <1>2

\* A set of numbers below a bound has a greatest one.
LEMMA GreatestNumber ==
  ASSUME NEW S, S \subseteq Nat, S # {}, NEW n \in Nat, \A i \in S : i < n
  PROVE  \E m \in S : \A i \in S : i <= m
<1> DEFINE U == {u \in Nat : \A i \in S : i <= u}
<1>1. n \in U
  OBVIOUS
<1>2. PICK u \in U : \A x \in U : u <= x
  BY <1>1, LeastNumber
<1>3. SUFFICES ASSUME u \notin S
               PROVE  FALSE
  BY <1>2
<1>4. \A i \in S : i < u
  BY <1>2, <1>3
<1>5. u - 1 \in U
  <2>1. PICK i \in S : TRUE
    OBVIOUS
  <2>2. u \in Nat /\ u # 0
    BY <1>4, <2>1
  <2>3. u - 1 \in Nat /\ \A j \in S : j <= u - 1
    BY <1>4, <2>2
  <2>4. QED
    BY <2>3
<1>6. QED
  BY <1>2, <1>5

Below(S, r) == {q \in S : q < r}

\* If some number has n below it, some number has k below it, for every k
\* smaller than n.
LEMMA EveryPlaceIsTaken ==
  ASSUME NEW S, S \subseteq Nat, IsFiniteSet(S), NEW r \in S,
         NEW k \in Nat, k <= Cardinality(Below(S, r))
  PROVE  \E q \in S : Cardinality(Below(S, q)) = k
<1> DEFINE T == {q \in S : k <= Cardinality(Below(S, q))}
<1>1. \A q \in S : IsFiniteSet(Below(S, q)) /\ Cardinality(Below(S, q)) \in Nat
  <2>1. \A q \in S : Below(S, q) \in SUBSET S
    BY DEF Below
  <2>2. QED
    BY <2>1, FS_Subset, FS_CardinalityType
<1>2. PICK m \in T : \A q \in T : m <= q
  BY LeastNumber
<1>3. SUFFICES ASSUME k # Cardinality(Below(S, m))
               PROVE  FALSE
  BY <1>2
<1>4. Below(S, m) # {} /\ Below(S, m) \subseteq Nat /\ \A q \in Below(S, m) : q < m
  <2>1. k < Cardinality(Below(S, m))
    BY <1>1, <1>2, <1>3
  <2>2. Below(S, m) # {}
    BY <2>1, FS_EmptySet
  <2>3. QED
    BY <2>2 DEF Below
<1>5. PICK b \in Below(S, m) : \A q \in Below(S, m) : q <= b
  BY <1>4, GreatestNumber, m \in Nat
<1>6. Below(S, b) = Below(S, m) \ {b}
  <2>1. \A q \in S : q < b <=> q < m /\ q # b
    BY <1>5 DEF Below
  <2>2. QED
    BY <1>5, <2>1 DEF Below
<1>7. Cardinality(Below(S, b)) = Cardinality(Below(S, m)) - 1
  <2>1. m \in S /\ b \in Below(S, m) /\ IsFiniteSet(Below(S, m))
    BY <1>1, <1>2, <1>5
  <2>2. Cardinality(Below(S, m) \ {b}) = Cardinality(Below(S, m)) - 1
    BY <2>1, FS_RemoveElement
  <2>3. QED
    BY <1>6, <2>2
<1>8. b \in T /\ b < m
  <2>1. b \in S /\ b < m
    BY <1>5 DEF Below
  <2>2. k <= Cardinality(Below(S, b))
    BY <1>1, <1>2, <1>3, <1>7
  <2>3. QED
    BY <2>1, <2>2
<1>9. QED
  BY <1>2, <1>8

AllReservations == {Reservation(k) : k \in 1..Reservations}

\* The arena has finitely many reservations, each at an address.
LEMMA FreeIsFinite ==
  /\ AllReservations \subseteq Nat /\ FreeReservations \subseteq AllReservations
  /\ IsFiniteSet(FreeReservations)
<1>1. \A k \in 1..Reservations : Reservation(k) \in Nat
  <2>1. \A k \in 1..Reservations : k - 1 \in Nat
    BY ArenaIsRoomy
  <2>2. \A k \in 1..Reservations : (k - 1) * Stride \in Nat
    BY <2>1, ArenaIsRoomy
  <2>3. QED
    BY <2>2, ArenaIsRoomy DEF Reservation
<1>2. IsFiniteSet(AllReservations)
  <2> DEFINE f == [k \in 1..Reservations |-> Reservation(k)]
  <2>1. f \in Surjection(1..Reservations, AllReservations)
    BY DEF AllReservations, Surjection
  <2>2. IsFiniteSet(1..Reservations)
    BY FS_Interval, ArenaIsRoomy
  <2>3. QED
    BY <2>1, <2>2, FS_Surjection
<1>3. FreeReservations \in SUBSET AllReservations
  BY DEF FreeReservations, AllReservations
<1>4. QED
  BY <1>1, <1>2, <1>3, FS_Subset DEF AllReservations

\* When the arena has room for n reservations it has a first, a second, ...
LEMMA FreeFacts ==
  /\ \A k \in Nat : Free(k) \subseteq FreeReservations
  /\ \A n, k \in Nat : Free(n) # {} /\ 1 <= k /\ k <= n => Free(k) # {}
  /\ \A k, n \in Nat : Free(k) \cap Free(n) # {} => k = n
<1>1. \A k \in Nat : Free(k) = {r \in FreeReservations : Cardinality(Below(FreeReservations, r)) = k - 1}
  BY DEF Free, Below
<1>2. ASSUME NEW n \in Nat, NEW k \in Nat, Free(n) # {}, 1 <= k, k <= n
      PROVE  Free(k) # {}
  <2>1. PICK r \in FreeReservations : Cardinality(Below(FreeReservations, r)) = n - 1
    BY <1>1, <1>2
  <2>2. k - 1 \in Nat /\ k - 1 <= n - 1
    BY <1>2
  <2>3. FreeReservations \subseteq Nat /\ IsFiniteSet(FreeReservations)
    BY FreeIsFinite
  <2>4. PICK q \in FreeReservations : Cardinality(Below(FreeReservations, q)) = k - 1
    BY <2>1, <2>2, <2>3, EveryPlaceIsTaken
  <2>5. QED
    BY <1>1, <2>4
<1>3. QED
  BY <1>1, <1>2
-----------------------------------------------------------------------------
(* The steps of the loaders. *)

Fields == {"unit", "base", "bodies", "states", "binds", "exports", "replaces", "refs",
           "pending"}

TypeInv ==
  /\ platform \in {"elf", "pe"} /\ program \in Programs /\ manifest \subseteq Units
  /\ linked \subseteq Owners
  /\ DOMAIN candidate = Owners
  /\ \A o \in Owners : \A i \in candidate[o] : DOMAIN i = Fields

Loads(o, obj) ==
  /\ o \in Owners /\ obj \in Objects /\ o \notin linked /\ Loadable(obj)
  /\ candidate' = [candidate EXCEPT ![o] = @ \cup {Image(obj)}]
  /\ UNCHANGED <<home, linked, live, target>>

Drops(o) == o \in Owners /\ Reject(o) /\ UNCHANGED <<home, live, target>>

Links(o) ==
  /\ o \in Owners /\ o \notin linked
  /\ \A i \in candidate[o] : \A fixup \in i.pending : Answerable(o, fixup)
  /\ candidate' = [candidate EXCEPT ![o] = {Linked(o, i) : i \in @}]
  /\ linked' = linked \cup {o}
  /\ UNCHANGED <<home, live, target>>

NewTargets(o) == UNION {i.replaces : i \in candidate[o]}

Commits(o) ==
  /\ o \in Owners /\ o \in linked /\ Reject(o) /\ Publishable(o)
  /\ home' = home \cup States(o)
  /\ live' = live \cup candidate[o]
  /\ target' = NewTargets(o) \cup {p \in target : \A q \in NewTargets(o) : q[1] # p[1]}

Stays == UNCHANGED <<home, candidate, linked, live, target>>

\* Whatever happens is one of these, and the process stays the one it is.
LEMMA StepCases ==
  ASSUME [Next]_vars
  PROVE  /\ UNCHANGED <<platform, program, manifest>>
         /\ \/ \E o, obj : Loads(o, obj)
            \/ \E o : Drops(o) \/ Links(o) \/ Commits(o)
            \/ Stays
<1>1. CASE UNCHANGED vars
  BY <1>1 DEF vars, Stays
<1>2. ASSUME NEW o \in Owners, NEW obj \in Objects, LoadObject(o, obj)
      PROVE  UNCHANGED <<platform, program, manifest>> /\ (Loads(o, obj) \/ Drops(o))
  BY <1>2, Zenon DEF LoadObject, Loads, Drops
<1>3. ASSUME NEW o \in Owners, LinkGeneration(o)
      PROVE  UNCHANGED <<platform, program, manifest>> /\ (Links(o) \/ Drops(o))
  BY <1>3, Zenon DEF LinkGeneration, Links, Drops
<1>4. ASSUME NEW o \in Owners, CommitGeneration(o)
      PROVE  UNCHANGED <<platform, program, manifest>> /\ (Commits(o) \/ Drops(o))
  BY <1>4, Zenon DEF CommitGeneration, Commits, Drops, NewTargets
<1>5. ASSUME NEW o \in Owners, DropGeneration(o)
      PROVE  UNCHANGED <<platform, program, manifest>> /\ Drops(o)
  BY <1>5, Zenon DEF DropGeneration, Drops
<1>6. QED
  BY <1>1, <1>2, <1>3, <1>4, <1>5, Zenon DEF Next

\* What each of them makes of the candidates.
LEMMA LoadStep ==
  ASSUME DOMAIN candidate = Owners, NEW o, NEW obj, Loads(o, obj), NEW q \in Owners
  PROVE  candidate'[q] = IF q = o THEN candidate[o] \cup {Image(obj)} ELSE candidate[q]
BY DEF Loads

LEMMA EndStep ==
  ASSUME DOMAIN candidate = Owners, NEW o, Drops(o) \/ Commits(o), NEW q \in Owners
  PROVE  /\ candidate'[q] = IF q = o THEN {} ELSE candidate[q]
         /\ linked' = linked \ {o}
BY DEF Drops, Commits, Reject

LEMMA LinkStep ==
  ASSUME DOMAIN candidate = Owners, NEW o, Links(o), NEW q \in Owners
  PROVE  candidate'[q] = IF q = o THEN {Linked(o, i) : i \in candidate[o]} ELSE candidate[q]
BY DEF Links

\* Linking changes the references of an image and nothing else.
LEMMA LinkedFacts ==
  ASSUME NEW o, NEW i, DOMAIN i = Fields
  PROVE  LET l == Linked(o, i)
         IN /\ DOMAIN l = Fields /\ l.pending = {}
            /\ l.refs = i.refs \cup {Answer(o, fixup) : fixup \in i.pending}
            /\ l.unit = i.unit /\ l.base = i.base /\ l.bodies = i.bodies
            /\ l.states = i.states /\ l.binds = i.binds /\ l.exports = i.exports
            /\ l.replaces = i.replaces
            /\ Memory(l) = Memory(i)
BY DEF Linked, Fields, Memory

\* Types are inductive by themselves.
LEMMA TypeIsKept == TypeInv /\ [Next]_vars => TypeInv'
<1>1. SUFFICES ASSUME TypeInv, [Next]_vars
               PROVE  TypeInv'
  OBVIOUS
<1>2. UNCHANGED <<platform, program, manifest>>
  BY <1>1, StepCases
<1>3. linked' \subseteq Owners /\ DOMAIN candidate' = Owners
  <2>1. ASSUME NEW o, NEW obj, Loads(o, obj)
        PROVE  linked' \subseteq Owners /\ DOMAIN candidate' = Owners
    BY <1>1, <2>1 DEF TypeInv, Loads
  <2>2. ASSUME NEW o, Drops(o) \/ Links(o) \/ Commits(o)
        PROVE  linked' \subseteq Owners /\ DOMAIN candidate' = Owners
    BY <1>1, <2>2 DEF TypeInv, Drops, Links, Commits, Reject
  <2>3. QED
    BY <1>1, <2>1, <2>2, StepCases DEF TypeInv, Stays
<1>4. ASSUME NEW q \in Owners, NEW i \in candidate'[q]
      PROVE  DOMAIN i = Fields
  <2>1. ASSUME NEW o, NEW obj, Loads(o, obj)
        PROVE  DOMAIN i = Fields
    <3>1. DOMAIN Image(obj) = Fields
      BY DEF Image, Fields
    <3>2. i \in candidate[q] \/ i = Image(obj)
      <4>1. candidate'[q] = IF q = o THEN candidate[o] \cup {Image(obj)} ELSE candidate[q]
        BY <1>1, <2>1, LoadStep DEF TypeInv
      <4>2. QED
        BY <4>1
    <3>3. QED
      BY <1>1, <3>1, <3>2 DEF TypeInv
  <2>2. ASSUME NEW o, Drops(o) \/ Commits(o)
        PROVE  DOMAIN i = Fields
    <3>1. i \in candidate[q]
      BY <1>1, <1>4, <2>2, EndStep DEF TypeInv
    <3>2. QED
      BY <1>1, <3>1 DEF TypeInv
  <2>3. ASSUME NEW o, Links(o)
        PROVE  DOMAIN i = Fields
    <3>1. i \in candidate[q] \/ \E k \in candidate[o] : i = Linked(o, k)
      BY <1>1, <1>4, <2>3, LinkStep DEF TypeInv
    <3>2. QED
      BY <1>1, <2>3, <3>1, LinkedFacts DEF TypeInv, Links
  <2>4. QED
    BY <1>1, <1>4, <2>1, <2>2, <2>3, StepCases DEF TypeInv, Stays
<1>5. QED
  BY <1>1, <1>2, <1>3, <1>4 DEF TypeInv

\* They hold of a process that loaded nothing.
LEMMA TypeStarts == Init => TypeInv
BY DEF Init, TypeInv

-----------------------------------------------------------------------------
(* Memory. *)

\* The variables whose storage an object introduces.
NewVariables(obj) == {obj.variables[k] : k \in Introduced(obj)}

\* Each has a place of its own behind the image.
LEMMA PlaceFacts ==
  ASSUME NEW obj \in Objects
  PROVE  /\ Cardinality(Introduced(obj)) \in Nat
         /\ \A v \in NewVariables(obj) :
              Place(obj, v) \in Nat /\ 1 <= Place(obj, v)
              /\ Place(obj, v) <= Cardinality(Introduced(obj))
         /\ \A v, w \in NewVariables(obj) : Place(obj, v) = Place(obj, w) => v = w
<1> DEFINE P == Introduced(obj)
           UpTo(i) == {j \in P : j <= i}
<1>1. IsFiniteSet(P) /\ Cardinality(P) \in Nat /\ P \subseteq Nat
  <2>1. P \in SUBSET (1..Len(obj.variables)) /\ Len(obj.variables) \in Nat
    BY ObjectsAreWellFormed DEF Introduced
  <2>2. IsFiniteSet(1..Len(obj.variables)) /\ 1..Len(obj.variables) \subseteq Nat
    BY <2>1, FS_Interval
  <2>3. IsFiniteSet(P) /\ P \subseteq Nat
    BY <2>1, <2>2, FS_Subset
  <2>4. QED
    BY <2>3, FS_CardinalityType
<1>2. ASSUME NEW i \in P
      PROVE  /\ IsFiniteSet(UpTo(i)) /\ Cardinality(UpTo(i)) \in Nat
             /\ 1 <= Cardinality(UpTo(i)) /\ Cardinality(UpTo(i)) <= Cardinality(P)
  <2>1. UpTo(i) \in SUBSET P /\ i \in UpTo(i)
    BY <1>1
  <2>2. IsFiniteSet(UpTo(i)) /\ Cardinality(UpTo(i)) \in Nat /\ Cardinality(UpTo(i)) <= Cardinality(P)
    BY <1>1, <2>1, FS_Subset, FS_CardinalityType
  <2>3. Cardinality(UpTo(i)) # 0
    BY <2>1, <2>2, FS_EmptySet
  <2>4. QED
    BY <2>2, <2>3
<1>3. ASSUME NEW i \in P, NEW j \in P, i < j
      PROVE  Cardinality(UpTo(i)) # Cardinality(UpTo(j))
  <2>1. UpTo(i) \in SUBSET UpTo(j) /\ j \in UpTo(j) /\ j \notin UpTo(i)
    BY <1>1, <1>3
  <2>2. QED
    BY <1>2, <2>1, FS_Subset
<1>4. ASSUME NEW v \in NewVariables(obj)
      PROVE  \E i \in P : obj.variables[i] = v /\ Place(obj, v) = Cardinality(UpTo(i))
  BY DEF NewVariables, Place
<1>5. QED
  <2>1. ASSUME NEW v \in NewVariables(obj), NEW w \in NewVariables(obj), Place(obj, v) = Place(obj, w)
        PROVE  v = w
    <3>1. PICK i \in P : obj.variables[i] = v /\ Place(obj, v) = Cardinality(UpTo(i))
      BY <1>4
    <3>2. PICK j \in P : obj.variables[j] = w /\ Place(obj, w) = Cardinality(UpTo(j))
      BY <1>4
    <3>3. i \in Nat /\ j \in Nat /\ ~(i < j) /\ ~(j < i)
      BY <1>1, <1>3, <2>1, <3>1, <3>2
    <3>4. QED
      BY <3>1, <3>2, <3>3
  <2>2. QED
    BY <1>1, <1>2, <1>4, <2>1

\* An object that can be loaded gets free memory, and each of its new variables
\* gets its own.
LEMMA FreshMemory ==
  ASSUME NEW obj \in Objects, Loadable(obj)
  PROVE  /\ Base(obj) \in FreeReservations
         /\ \A v \in NewVariables(obj) :
              /\ HomeOf(obj, v) = FreshAddress(obj, v)
              /\ HomeOf(obj, v) \in FreeReservations /\ HomeOf(obj, v) # Base(obj)
         /\ \A v, w \in NewVariables(obj) : HomeOf(obj, v) = HomeOf(obj, w) => v = w
<1>1. Cardinality(Introduced(obj)) \in Nat /\ Free(1 + Cardinality(Introduced(obj))) # {}
  BY PlaceFacts DEF Loadable, Needed
<1>2. Base(obj) \in Free(1) /\ Base(obj) \in FreeReservations
  <2>1. Free(1) # {}
    BY <1>1, FreeFacts
  <2>2. QED
    BY <2>1, FreeFacts DEF Base
<1>3. ASSUME NEW v \in NewVariables(obj)
      PROVE  /\ HomeOf(obj, v) = FreshAddress(obj, v)
             /\ HomeOf(obj, v) \in Free(1 + Place(obj, v))
  <2>1. Free(1 + Place(obj, v)) # {}
    BY <1>1, FreeFacts, PlaceFacts
  <2>2. Committed(v, obj.unit) = {} /\ Existing(v) = {}
    BY DEF NewVariables, Introduced
  <2>3. QED
    BY <2>1, <2>2 DEF HomeOf, FreshAddress
<1>4. \A v \in NewVariables(obj) : 1 + Place(obj, v) \in Nat /\ 1 + Place(obj, v) # 1
  BY PlaceFacts
<1>5. QED
  <2>1. \A v \in NewVariables(obj) : HomeOf(obj, v) \in FreeReservations /\ HomeOf(obj, v) # Base(obj)
    BY <1>2, <1>3, <1>4, FreeFacts
  <2>2. ASSUME NEW v \in NewVariables(obj), NEW w \in NewVariables(obj), HomeOf(obj, v) = HomeOf(obj, w)
        PROVE  v = w
    <3>1. 1 + Place(obj, v) = 1 + Place(obj, w)
      BY <1>3, <1>4, <2>2, FreeFacts
    <3>2. Place(obj, v) = Place(obj, w)
      BY <3>1, PlaceFacts
    <3>3. QED
      BY <3>2, PlaceFacts
  <2>3. QED
    BY <1>2, <1>3, <2>1, <2>2

\* The memory of every image lies in the arena, and no image has two owners.
MemoryInv ==
  /\ StorageIsApart
  /\ \A i \in Images : Memory(i) \subseteq AllReservations
  /\ \A o \in Owners : \A i \in candidate[o] :
       i \notin live /\ \A q \in Owners : i \in candidate[q] => q = o

Alone(i) == \A d, e \in i.states : d.address # i.base /\ (d.address = e.address => d = e)

\* An image is committed or somebody's candidate.
LEMMA ImagesAre ==
  /\ \A i : i \in Images <=> i \in live \/ \E o \in Owners : i \in candidate[o]
  /\ \A i : i \in Images' <=> i \in live' \/ \E o \in Owners : i \in candidate'[o]
BY DEF Images

\* A fresh image, with the storage it introduces, lies in free memory.
LEMMA FreshImage ==
  ASSUME NEW obj \in Objects, Loadable(obj)
  PROVE  /\ Memory(Image(obj)) \subseteq FreeReservations
         /\ Alone(Image(obj))
<1> DEFINE State(v) == [identity |-> CHOOSE id \in Identity(v, obj.unit) : TRUE,
                        address |-> HomeOf(obj, v), size |-> Extent(obj, v),
                        align |-> obj.sections[v.section].align]
<1>1. /\ Image(obj).base = Base(obj)
      /\ \A d \in Image(obj).states : \E v \in NewVariables(obj) : d = State(v)
  BY DEF Image, NewVariables
<1>2. \A d \in Image(obj).states : \E v \in NewVariables(obj) :
        d = State(v) /\ d.address = HomeOf(obj, v)
  BY <1>1
<1>3. Memory(Image(obj)) \subseteq FreeReservations
  BY <1>1, <1>2, FreshMemory DEF Memory
<1>4. ASSUME NEW d \in Image(obj).states, NEW e \in Image(obj).states
      PROVE  d.address # Image(obj).base /\ (d.address = e.address => d = e)
  <2>1. PICK v \in NewVariables(obj) : d = State(v) /\ d.address = HomeOf(obj, v)
    BY <1>2
  <2>2. PICK w \in NewVariables(obj) : e = State(w) /\ e.address = HomeOf(obj, w)
    BY <1>2
  <2>3. QED
    BY <1>1, <2>1, <2>2, FreshMemory
<1>5. QED
  BY <1>3, <1>4 DEF Alone

\* Loading takes memory that is free, linking changes no image's memory, dropping
\* and committing only hand images on.
LEMMA MemoryIsKept == TypeInv /\ MemoryInv /\ [Next]_vars => MemoryInv'
<1>1. SUFFICES ASSUME TypeInv, MemoryInv, [Next]_vars
               PROVE  MemoryInv'
  OBVIOUS
<1> DEFINE Fits == /\ \A i \in Images' : Alone(i) /\ Memory(i) \subseteq AllReservations
                   /\ \A i, j \in Images' : i # j => Memory(i) \cap Memory(j) = {}
           Belong == \A o \in Owners : \A i \in candidate'[o] :
                       i \notin live' /\ \A q \in Owners : i \in candidate'[q] => q = o
           Homed == \A h \in home' : \E i \in live' : h \in i.states
<1>2. /\ \A i \in Images : Alone(i) /\ Memory(i) \subseteq AllReservations
      /\ \A i, j \in Images : i # j => Memory(i) \cap Memory(j) = {}
      /\ \A h \in home : \E i \in live : h \in i.states
      /\ \A o \in Owners : \A i \in candidate[o] :
           i \notin live /\ \A q \in Owners : i \in candidate[q] => q = o
  BY <1>1 DEF MemoryInv, StorageIsApart, Alone
<1>3. ASSUME Images' \subseteq Images
      PROVE  Fits
  BY <1>2, <1>3, Zenon
<1>4. ASSUME NEW o, NEW obj, Loads(o, obj)
      PROVE  Fits /\ Belong /\ Homed
  <2>1. /\ Memory(Image(obj)) \subseteq AllReservations /\ Alone(Image(obj))
        /\ \A i \in Images : Memory(i) \cap Memory(Image(obj)) = {}
    <3>1. Memory(Image(obj)) \subseteq FreeReservations /\ Alone(Image(obj))
      BY <1>4, FreshImage DEF Loads
    <3>2. FreeReservations \subseteq AllReservations
          /\ \A i \in Images : Memory(i) \cap FreeReservations = {}
      BY FreeIsFinite DEF FreeReservations, Reserved
    <3>3. QED
      BY <3>1, <3>2
  <2>2. Image(obj) \notin Images
    BY <2>1 DEF Memory
  <2>3. \A q \in Owners : candidate'[q] = IF q = o THEN candidate[o] \cup {Image(obj)} ELSE candidate[q]
    BY <1>1, <1>4, LoadStep DEF TypeInv
  <2>4. o \in Owners /\ live' = live /\ home' = home
    BY <1>4 DEF Loads
  <2>5. Images' \subseteq Images \cup {Image(obj)}
    BY <2>3, <2>4, ImagesAre
  <2>6. Fits
    BY <1>2, <2>1, <2>5
  <2>7. Belong
    BY <1>2, <2>2, <2>3, <2>4, ImagesAre
  <2>8. QED
    BY <1>2, <2>4, <2>6, <2>7
<1>5. ASSUME NEW o, Drops(o)
      PROVE  Fits /\ Belong /\ Homed
  <2>1. \A q \in Owners : candidate'[q] = IF q = o THEN {} ELSE candidate[q]
    BY <1>1, <1>5, EndStep DEF TypeInv
  <2>2. live' = live /\ home' = home
    BY <1>5 DEF Drops
  <2>3. Images' \subseteq Images
    BY <2>1, <2>2, ImagesAre
  <2>4. QED
    BY <1>2, <1>3, <2>1, <2>2, <2>3
<1>6. ASSUME NEW o, Commits(o)
      PROVE  Fits /\ Belong /\ Homed
  <2>1. \A q \in Owners : candidate'[q] = IF q = o THEN {} ELSE candidate[q]
    BY <1>1, <1>6, EndStep DEF TypeInv
  <2>2. o \in Owners /\ live' = live \cup candidate[o] /\ home' = home \cup States(o)
    BY <1>6 DEF Commits
  <2>3. Images' \subseteq Images
    BY <2>1, <2>2, ImagesAre
  <2>4. Homed
    BY <1>2, <2>2 DEF States
  <2>5. Belong
    BY <1>2, <2>1, <2>2
  <2>6. QED
    BY <1>3, <2>3, <2>4, <2>5
<1>7. ASSUME NEW o, Links(o)
      PROVE  Fits /\ Belong /\ Homed
  <2>1. \A q \in Owners : candidate'[q] = IF q = o THEN {Linked(o, i) : i \in candidate[o]} ELSE candidate[q]
    BY <1>1, <1>7, LinkStep DEF TypeInv
  <2>2. o \in Owners /\ live' = live /\ home' = home
    BY <1>7 DEF Links
  <2> DEFINE Same(j, i) == Memory(j) = Memory(i) /\ j.base = i.base /\ j.states = i.states
  <2>3. \A i \in candidate[o] : Same(Linked(o, i), i)
    BY <1>1, <2>2, LinkedFacts DEF TypeInv
  <2>4. ASSUME NEW j \in Images'
        PROVE  \/ j \in Images /\ j \notin candidate[o]
               \/ \E i \in candidate[o] : j = Linked(o, i)
    <3>1. CASE j \in live
      BY <1>2, <2>2, <3>1, ImagesAre
    <3>2. ASSUME NEW q \in Owners, q # o, j \in candidate[q]
          PROVE  j \in Images /\ j \notin candidate[o]
      BY <1>2, <2>2, <3>2, ImagesAre
    <3>3. j \in live \/ (\E q \in Owners : q # o /\ j \in candidate[q])
          \/ \E i \in candidate[o] : j = Linked(o, i)
      <4>1. j \in live' \/ \E q \in Owners : j \in candidate'[q]
        BY ImagesAre
      <4>2. ASSUME NEW q \in Owners, j \in candidate'[q], q = o
            PROVE  \E i \in candidate[o] : j = Linked(o, i)
        BY <2>1, <2>2, <4>2
      <4>3. ASSUME NEW q \in Owners, j \in candidate'[q], q # o
            PROVE  j \in candidate[q]
        BY <2>1, <2>2, <4>3
      <4>4. QED
        BY <2>2, <4>1, <4>2, <4>3
    <3>4. QED
      BY <3>1, <3>2, <3>3
  <2>5. candidate[o] \subseteq Images
    BY <2>2, ImagesAre
  <2>6. Fits
    <3>1. \A i \in Images' : Alone(i) /\ Memory(i) \subseteq AllReservations
      BY <1>2, <2>3, <2>4, <2>5 DEF Alone
    <3>2. \A i, j \in Images' : i # j => Memory(i) \cap Memory(j) = {}
      BY <1>2, <2>3, <2>4, <2>5
    <3>3. QED
      BY <3>1, <3>2
  <2>7. \A i \in candidate[o] : Linked(o, i) \in Images => Linked(o, i) = i
    BY <1>2, <2>3, <2>5 DEF Memory
  <2>8. Belong
    <3>1. ASSUME NEW q \in Owners, NEW i \in candidate'[q]
          PROVE  IF q = o THEN i \in candidate[o] \/ i \notin Images ELSE i \in candidate[q] /\ i \in Images
      <4>1. CASE q = o
        <5>1. PICK k \in candidate[o] : i = Linked(o, k)
          BY <2>1, <4>1
        <5>2. QED
          BY <2>7, <4>1, <5>1
      <4>2. CASE q # o
        BY <2>1, <4>2, ImagesAre
      <4>3. QED
        BY <4>1, <4>2
    <3>2. \A i \in live : i \in Images
      BY ImagesAre
    <3>3. ASSUME NEW q \in Owners, NEW i \in candidate'[q]
          PROVE  i \notin live'
      BY <1>2, <2>2, <3>1, <3>2
    <3>4. ASSUME NEW q \in Owners, NEW i \in candidate'[q], NEW p \in Owners, i \in candidate'[p]
          PROVE  p = q
      BY <1>2, <2>2, <3>1, <3>4
    <3>5. QED
      BY <3>3, <3>4
  <2>9. QED
    BY <1>2, <2>2, <2>6, <2>8
<1>8. ASSUME Stays
      PROVE  Fits /\ Belong /\ Homed
  BY <1>2, <1>8 DEF Stays, Images
<1>9. Fits /\ Belong /\ Homed
  BY <1>1, <1>4, <1>5, <1>6, <1>7, <1>8, StepCases
<1>10. /\ \A i \in Images' : Memory(i)' = Memory(i)
       /\ AllReservations' = AllReservations
  BY DEF Memory, AllReservations, Reservation
<1>11. QED
  BY <1>9, <1>10 DEF MemoryInv, StorageIsApart, Alone

\* There is no image at first.
LEMMA MemoryStarts == Init => MemoryInv
<1>1. ASSUME Init
      PROVE  Images = {} /\ home = {} /\ \A o \in Owners : candidate[o] = {}
  BY <1>1 DEF Init, Images
<1>2. QED
  BY <1>1 DEF MemoryInv, StorageIsApart

\* The inductive invariant of memory: every image lies in the arena and is one
\* group's candidate or committed, never both (loader::load, the retirement and
\* the commit of its handles).
THEOREM MemoryCorrect == Spec => [](TypeInv /\ MemoryInv)
<1>1. Init => TypeInv /\ MemoryInv
  BY TypeStarts, MemoryStarts
<1>2. TypeInv /\ MemoryInv /\ [Next]_vars => (TypeInv /\ MemoryInv)'
  BY TypeIsKept, MemoryIsKept
<1>3. QED
  BY <1>1, <1>2, PTL DEF Spec

\* Memory that holds code or variables is given out once, whatever is loaded,
\* refused, dropped and committed by any number of groups, and the storage of a
\* committed variable is never given back (loader::load and
\* prepare_generation_commit of both platforms).
THEOREM StorageIsApartAlways == Spec => []StorageIsApart
<1>1. MemoryInv => StorageIsApart
  BY DEF MemoryInv
<1>2. QED
  BY <1>1, MemoryCorrect, PTL

-----------------------------------------------------------------------------
(* Names. *)

\* What the lookups by name answer are definitions of the program, of that name; on
\* Windows an external one may be of the other kind.
LEMMA ProgramFacts ==
  ASSUME TypeInv
  PROVE  /\ \A d \in Range(program) : d \in Definition
         /\ \A kind, n : \A d \in Definitions(kind, n) :
              d \in Range(program) /\ d.name = n /\ (d.kind = kind \/ External(d.bind))
         /\ \A kind, n : \A d \in First(kind, n) : d \in Definitions(kind, n)
         /\ \A kind, n : \A d, e \in First(kind, n) : d = e
<1>1. program \in Seq(Definition)
  BY ProgramsAreDefinitions DEF TypeInv
<1>2. \A i \in DOMAIN program : i \in Nat /\ program[i] \in Definition /\ program[i] \in Range(program)
  BY <1>1 DEF Range
<1>3. \A d \in Range(program) : d \in Definition
  BY <1>2 DEF Range
<1>4. \A kind, n : \A i \in Named(kind, n) :
        /\ i \in DOMAIN program /\ program[i].name = n
        /\ program[i].kind = kind \/ External(program[i].bind)
  BY DEF Named, Records, Publics
<1>5. \A kind, n : \A d \in Definitions(kind, n) :
        d \in Range(program) /\ d.name = n /\ (d.kind = kind \/ External(d.bind))
  BY <1>2, <1>4 DEF Definitions
<1>6. ASSUME NEW kind, NEW n
      PROVE  \E places : /\ places \subseteq Named(kind, n)
                         /\ First(kind, n) = {program[i] : i \in {j \in places : \A k \in places : j <= k}}
  <2>1. Records(kind, n) \subseteq Named(kind, n)
    BY DEF Named
  <2>2. QED
    BY <2>1 DEF First
<1>7. ASSUME NEW kind, NEW n
      PROVE  /\ \A d \in First(kind, n) : d \in Definitions(kind, n)
             /\ \A d, e \in First(kind, n) : d = e
  <2>1. PICK places : /\ places \subseteq Named(kind, n)
                      /\ First(kind, n) = {program[i] : i \in {j \in places : \A k \in places : j <= k}}
    BY <1>6
  <2>2. places \subseteq Nat
    BY <1>2, <1>4, <2>1
  <2>3. \A i, j \in places : i <= j /\ j <= i => i = j
    BY <2>2
  <2>4. QED
    BY <2>1, <2>3 DEF Definitions
<1>8. QED
  BY <1>3, <1>5, <1>7

\* The entry a fresh function replaces is that of the same function.
LEMMA ReplacedFacts ==
  ASSUME TypeInv, NewFunctionsAreNoOthers(Programs, Objects),
         NEW obj \in Objects, NEW f \in Range(obj.functions), NEW d \in Replaced(f, obj.unit)
  PROVE  d \in Defining("function", <<Scope(f.bind, obj.unit), f.name>>)
<1>1. /\ d \in Range(program) /\ d.name = f.name /\ (d.kind = "function" \/ External(d.bind))
      /\ External(f.bind) \/ (d.bind = "local" /\ d.unit = obj.unit)
  BY ProgramFacts DEF Replaced, FunctionInSource, External
<1>2. External(f.bind) => External(d.bind) /\ d.kind = "function"
  BY <1>1 DEF NewFunctionsAreNoOthers, TypeInv
<1>3. Scope(d.bind, d.unit) = Scope(f.bind, obj.unit) /\ d.kind = "function"
  BY <1>1, <1>2 DEF Scope, External
<1>4. QED
  BY <1>1, <1>3 DEF Defining

N(name, kind, scope) == [name |-> name, kind |-> kind, scope |-> scope]

\* The name of a function an object uses means the same wherever it is met.
LEMMA NamesMeet ==
  ASSUME TypeInv, FunctionNamesAreClear(Programs, Objects), NEW obj \in Objects, NEW other \in Objects,
         NEW n, NEW scope, N(n, "function", scope) \in ObjectNames(obj),
         NEW kind2, NEW scope2,
         N(n, kind2, scope2) \in ProgramNames(program) \cup ObjectNames(other)
  PROVE  kind2 = "function" /\ (scope = "external" <=> scope2 = "external")
<1>1. program \in Programs
  BY DEF TypeInv
<1>2. \A a \in ObjectNames(obj) : \A b \in ProgramNames(program) \cup ObjectNames(other) :
        a.kind = "function" /\ a.name = b.name =>
          b.kind = "function" /\ (a.scope = "external" <=> b.scope = "external")
  BY <1>1 DEF FunctionNamesAreClear
<1>3. /\ N(n, "function", scope).name = n /\ N(n, "function", scope).kind = "function"
      /\ N(n, "function", scope).scope = scope
      /\ N(n, kind2, scope2).name = n /\ N(n, kind2, scope2).kind = kind2
      /\ N(n, kind2, scope2).scope = scope2
  BY DEF N
<1>4. QED
  BY <1>2, <1>3

\* The names of definitions are names of their program and object.
LEMMA DefinitionNames ==
  /\ \A d \in Range(program) : N(d.name, d.kind, Scope(d.bind, d.unit)) \in ProgramNames(program)
  /\ \A l \in Library : N(l.name, l.kind, "external") \in ProgramNames(program)
  /\ \A obj : \A f \in Range(obj.functions) :
       N(f.name, "function", Scope(f.bind, obj.unit)) \in ObjectNames(obj)
  /\ \A obj : \A v \in Range(obj.variables) :
       N(v.name, "object", Scope(v.bind, obj.unit)) \in ObjectNames(obj)
BY DEF N, ProgramNames, ObjectNames

\* What a reference by name names.
KindOf(r) == IF r.form \in {"call", "address"} THEN "function" ELSE "object"
ScopeOf(obj, r) ==
  IF \E x \in FunctionOf(obj, r.name) \cup VariableOf(obj, r.name) : ~External(x.bind)
  THEN obj.unit ELSE "external"

\* A reference by name wants one thing, which is among the names of its object.
LEMMA ReferenceNames ==
  ASSUME NEW obj, NEW r \in obj.references, r.form # "section"
  PROVE  /\ Wanted(obj, r) = {[thing |-> <<ScopeOf(obj, r), r.name>>, kind |-> KindOf(r),
                               inner |-> r.value]}
         /\ N(r.name, KindOf(r), ScopeOf(obj, r)) \in ObjectNames(obj)
         /\ Undefined(obj, r) => ScopeOf(obj, r) = "external"
<1>1. Wanted(obj, r) = {[thing |-> <<ScopeOf(obj, r), r.name>>, kind |-> KindOf(r),
                         inner |-> r.value]}
  BY DEF Wanted, ScopeOf, KindOf
<1> DEFINE w == [thing |-> <<ScopeOf(obj, r), r.name>>, kind |-> KindOf(r), inner |-> r.value]
<1>2. [name |-> w.thing[2], kind |-> w.kind, scope |-> w.thing[1]] \in ObjectNames(obj)
  <2>1. w \in Wanted(obj, r) /\ r \in {x \in obj.references : x.form # "section"}
    BY <1>1
  <2> DEFINE of(x) == {[name |-> y.thing[2], kind |-> y.kind, scope |-> y.thing[1]] : y \in Wanted(obj, x)}
             plain == {x \in obj.references : x.form # "section"}
  <2>2. [name |-> w.thing[2], kind |-> w.kind, scope |-> w.thing[1]] \in of(r)
    BY <2>1
  <2>3. \A n \in of(r) : n \in UNION {of(x) : x \in plain}
    BY <2>1
  <2>4. \A n \in UNION {of(x) : x \in plain} : n \in ObjectNames(obj)
    BY Zenon DEF ObjectNames
  <2>5. QED
    BY <2>2, <2>3, <2>4
<1>3. w.thing[2] = r.name /\ w.kind = KindOf(r) /\ w.thing[1] = ScopeOf(obj, r)
  OBVIOUS
<1>4. Undefined(obj, r) => ScopeOf(obj, r) = "external"
  BY DEF Undefined, ScopeOf
<1>5. QED
  BY <1>1, <1>2, <1>3, <1>4 DEF N

\* What a symbol table answers for a name that an object leaves undefined.
LEMMA ResolvedFacts ==
  ASSUME TypeInv, NEW n, NEW form, NEW x \in Resolved(n, form)
  PROVE  \/ \E d \in Range(program) : d.name = n /\ d.address = x.address
         \/ /\ \E l \in Library : l.name = n /\ l.kind = x.kind /\ l.address = x.address
            /\ \A d \in Range(program) : d.name = n /\ External(d.bind) =>
                 form = "call" /\ d.kind # "function"
<1>1. CASE platform = "pe"
  BY <1>1, ProgramFacts DEF Resolved, ResolvedPe
<1>2. CASE platform # "pe"
  <2> DEFINE kinds == IF form = "call" THEN {"function"} ELSE {"function", "object"}
             answers == {d \in Range(program) : d.name = n /\ d.kind \in kinds /\ External(d.bind)}
  <2>1. x \in ResolvedElf(n, kinds)
    BY <1>2 DEF Resolved
  <2>2. CASE answers # {}
    <3>1. \E d \in answers : x = [kind |-> d.kind, address |-> d.address]
      BY <2>1, <2>2 DEF ResolvedElf
    <3>2. QED
      BY <3>1
  <2>3. CASE answers = {}
    <3>1. \E l \in Library : l.name = n /\ x = [kind |-> l.kind, address |-> l.address]
      BY <2>1, <2>3 DEF ResolvedElf
    <3>2. \A d \in Range(program) : d.kind \in {"function", "object"}
      BY ProgramFacts DEF Definition, Kinds
    <3>3. QED
      BY <2>3, <3>1, <3>2
  <2>4. QED
    BY <2>2, <2>3
<1>3. QED
  BY <1>1, <1>2

\* What the image of an object is made of.
LEMMA ImageFacts ==
  ASSUME NEW obj
  PROVE  LET i == Image(obj)
         IN /\ \A x \in i.refs : \E r \in obj.references \ Pending(obj) :
                 \E w \in Wanted(obj, r), a \in Reached(obj, Base(obj), r) : x = Landed(w, Way(obj, r), a)
            /\ \A f \in Range(obj.functions) :
                 [thing |-> <<Scope(f.bind, obj.unit), f.name>>, address |-> Base(obj) + f.offset]
                   \in i.bodies
            /\ \A x \in i.exports :
                 \/ \E f \in Range(obj.functions) : External(f.bind) /\
                      x = [name |-> f.name, kind |-> "function", address |-> Base(obj) + f.offset]
                 \/ \E v \in Range(obj.variables) : External(v.bind) /\
                      x = [name |-> v.name, kind |-> "object", address |-> HomeOf(obj, v)]
            /\ \A f \in i.pending : \E r \in Pending(obj) :
                 f = [name |-> r.name, accepts |-> Accepts(obj, r), inner |-> r.value,
                      way |-> Way(obj, r)]
<1> DEFINE of(r) == UNION {{Landed(w, Way(obj, r), a) : a \in Reached(obj, Base(obj), r)} : w \in Wanted(obj, r)}
<1>1. Image(obj).refs = UNION {of(r) : r \in obj.references \ Pending(obj)}
  BY DEF Image
<1>2. ASSUME NEW x \in Image(obj).refs
      PROVE  \E r \in obj.references \ Pending(obj) :
               \E w \in Wanted(obj, r), a \in Reached(obj, Base(obj), r) : x = Landed(w, Way(obj, r), a)
  <2>1. PICK r \in obj.references \ Pending(obj) : x \in of(r)
    <3> HIDE DEF of
    <3>1. QED
      BY <1>1
  <2>2. PICK w \in Wanted(obj, r) : x \in {Landed(w, Way(obj, r), a) : a \in Reached(obj, Base(obj), r)}
    BY <2>1
  <2>3. QED
    BY <2>2
<1>3. QED
  BY <1>2 DEF Image

\* The definition that an object has for a function it refers to is the one meant.
LEMMA OwnDefinitions ==
  ASSUME TypeInv, FunctionNamesAreClear(Programs, Objects), NEW obj \in Objects,
         NEW r \in obj.references, r.form # "section", KindOf(r) = "function"
  PROVE  /\ \A f \in FunctionOf(obj, r.name) : ScopeOf(obj, r) = Scope(f.bind, obj.unit)
         /\ VariableOf(obj, r.name) = {}
<1>1. N(r.name, "function", ScopeOf(obj, r)) \in ObjectNames(obj)
  BY ReferenceNames
<1>2. ScopeOf(obj, r) \in {"external", obj.unit}
  BY DEF ScopeOf
<1>3. ASSUME NEW f \in FunctionOf(obj, r.name)
      PROVE  ScopeOf(obj, r) = Scope(f.bind, obj.unit)
  <2>1. N(r.name, "function", Scope(f.bind, obj.unit)) \in ObjectNames(obj)
    BY DefinitionNames DEF FunctionOf
  <2>2. ScopeOf(obj, r) = "external" <=> Scope(f.bind, obj.unit) = "external"
    BY <1>1, <2>1, NamesMeet
  <2>3. Scope(f.bind, obj.unit) \in {"external", obj.unit}
    BY DEF Scope
  <2>4. QED
    BY <1>2, <2>2, <2>3
<1>4. ASSUME NEW v \in VariableOf(obj, r.name)
      PROVE  FALSE
  <2>1. N(r.name, "object", Scope(v.bind, obj.unit)) \in ObjectNames(obj)
    BY DefinitionNames DEF VariableOf
  <2>2. "object" = "function"
    BY <1>1, <2>1, NamesMeet
  <2>3. QED
    BY <2>2
<1>5. QED
  BY <1>3, <1>4

\* The answer for a function that an object leaves undefined is that function.
LEMMA OutsideDefinitions ==
  ASSUME TypeInv, FunctionNamesAreClear(Programs, Objects), NEW obj \in Objects,
         NEW r \in obj.references, Undefined(obj, r), KindOf(r) = "function",
         NEW x \in Resolved(r.name, r.form)
  PROVE  \/ \E d \in Defining("function", <<"external", r.name>>) : x.address = d.address
         \/ \E l \in Exported("function", <<"external", r.name>>) : x.address = l.address
<1>1. N(r.name, "function", "external") \in ObjectNames(obj)
  BY ReferenceNames DEF Undefined
<1>2. CASE \E d \in Range(program) : d.name = r.name /\ d.address = x.address
  <2>1. PICK d \in Range(program) : d.name = r.name /\ d.address = x.address
    BY <1>2
  <2>2. N(r.name, d.kind, Scope(d.bind, d.unit)) \in ProgramNames(program)
    BY <2>1, DefinitionNames
  <2>3. d.kind = "function" /\ Scope(d.bind, d.unit) = "external"
    BY <1>1, <2>2, NamesMeet
  <2>4. d \in Defining("function", <<"external", r.name>>)
    BY <2>1, <2>3 DEF Defining
  <2>5. QED
    BY <2>1, <2>4
<1>3. CASE \E l \in Library : l.name = r.name /\ l.address = x.address
  <2>1. PICK l \in Library : l.name = r.name /\ l.address = x.address
    BY <1>3
  <2>2. N(r.name, l.kind, "external") \in ProgramNames(program)
    BY <2>1, DefinitionNames
  <2>3. l.kind = "function"
    BY <1>1, <2>2, NamesMeet
  <2>4. l \in Exported("function", <<"external", r.name>>)
    BY <2>1, <2>3 DEF Exported
  <2>5. QED
    BY <2>1, <2>4
<1>4. QED
  BY <1>2, <1>3, ResolvedFacts

-----------------------------------------------------------------------------
(* Calls. *)

HasBody(S, t, a) == \E j \in S : \E b \in j.bodies : b.thing = t /\ b.address = a

CallReaches(S, r) == r.kind = "function" => r.at \in EntryOf(r.thing) \/ HasBody(S, r.thing, r.at)

\* What a sibling exports as a function is one it has.
ExportsCode(S, x) ==
  x.kind = "function" =>
    /\ x.address \in Nat
    /\ \E obj \in Objects : N(x.name, "function", "external") \in ObjectNames(obj)
    /\ HasBody(S, <<"external", x.name>>, x.address)

\* What waits for a sibling is a name its object leaves undefined.
Waiting(f) ==
  \E obj \in Objects : \E r \in obj.references :
    Undefined(obj, r) /\ f.name = r.name /\ f.inner = r.value

ImageCalls(i, S) ==
  /\ \A r \in i.refs : CallReaches(S, r)
  /\ \A x \in i.exports : ExportsCode(S, x)
  /\ \A f \in i.pending : Waiting(f)

CallInv ==
  /\ \A o \in Owners : \A i \in candidate[o] :
       ImageCalls(i, candidate[o]) /\ (o \in linked => i.pending = {})
  /\ \A i \in live : ImageCalls(i, live) /\ i.pending = {}

\* More images have no fewer bodies: what is sound of one stays so.
LEMMA MoreBodies ==
  ASSUME NEW S, NEW T, \A j \in S : \E k \in T : k.bodies = j.bodies
  PROVE  \A i : ImageCalls(i, S) => ImageCalls(i, T)
<1>1. \A t, a : HasBody(S, t, a) => HasBody(T, t, a)
  BY DEF HasBody
<1>2. QED
  BY <1>1 DEF ImageCalls, CallReaches, ExportsCode

\* The calls of a fresh image that are resolved reach the program or itself.
LEMMA FreshCalls ==
  ASSUME TypeInv, FunctionNamesAreClear(Programs, Objects), FunctionsAreReferredToPlainly(Objects),
         NEW obj \in Objects, Loadable(obj)
  PROVE  ImageCalls(Image(obj), {Image(obj)})
<1> DEFINE i == Image(obj)
<1>1. Base(obj) \in Nat
  BY FreshMemory, FreeIsFinite
<1>2. \A f \in Range(obj.functions) :
        /\ HasBody({i}, <<Scope(f.bind, obj.unit), f.name>>, Base(obj) + f.offset)
        /\ Base(obj) + f.offset \in Nat /\ Base(obj) + f.offset + 0 = Base(obj) + f.offset
  <2>1. \A f \in Range(obj.functions) : f \in Function
    <3>1. obj.functions \in Seq(Function)
      BY ObjectsAreWellFormed
    <3>2. QED
      BY <3>1 DEF Range
  <2>2. ASSUME NEW f \in Range(obj.functions)
        PROVE  HasBody({i}, <<Scope(f.bind, obj.unit), f.name>>, Base(obj) + f.offset)
    <3> DEFINE b == [thing |-> <<Scope(f.bind, obj.unit), f.name>>, address |-> Base(obj) + f.offset]
    <3>1. b \in i.bodies
      BY ImageFacts
    <3>2. b.thing = <<Scope(f.bind, obj.unit), f.name>> /\ b.address = Base(obj) + f.offset
      OBVIOUS
    <3>3. QED
      BY <3>1, <3>2 DEF HasBody
  <2>3. \A f \in Range(obj.functions) : Base(obj) + f.offset \in Nat
          /\ Base(obj) + f.offset + 0 = Base(obj) + f.offset
    BY <1>1, <2>1 DEF Function
  <2>4. QED
    BY <2>2, <2>3
<1>3. ASSUME NEW x \in i.refs, x.kind = "function"
      PROVE  x.at \in EntryOf(x.thing) \/ HasBody({i}, x.thing, x.at)
  <2>1. PICK r \in obj.references \ Pending(obj) :
          \E w \in Wanted(obj, r), a \in Reached(obj, Base(obj), r) : x = Landed(w, Way(obj, r), a)
    BY ImageFacts
  <2>2. PICK w \in Wanted(obj, r), a \in Reached(obj, Base(obj), r) : x = Landed(w, Way(obj, r), a)
    BY <2>1
  <2>3. x.kind = w.kind /\ x.thing = w.thing /\ x.at = a
    BY <2>2 DEF Landed
  <2>4. r.form # "section"
    BY <1>3, <2>3 DEF Wanted
  <2>5. w = [thing |-> <<ScopeOf(obj, r), r.name>>, kind |-> KindOf(r), inner |-> r.value]
    BY <2>2, <2>4, ReferenceNames
  <2>6. KindOf(r) = "function" /\ x.thing = <<ScopeOf(obj, r), r.name>> /\ r.value = 0
    <3>1. KindOf(r) = "function" /\ x.thing = <<ScopeOf(obj, r), r.name>>
      BY <1>3, <2>3, <2>5
    <3>2. r.form \in {"call", "address"}
      BY <3>1 DEF KindOf
    <3>3. QED
      BY <3>1, <3>2 DEF FunctionsAreReferredToPlainly
  <2>7. CASE \E f \in FunctionOf(obj, r.name) : a = Base(obj) + f.offset + r.value
    <3>1. PICK f \in FunctionOf(obj, r.name) : a = Base(obj) + f.offset + r.value
      BY <2>7
    <3>2. f \in Range(obj.functions) /\ f.name = r.name
      BY DEF FunctionOf
    <3>3. a = Base(obj) + f.offset
      BY <1>2, <2>6, <3>1, <3>2
    <3>4. ScopeOf(obj, r) = Scope(f.bind, obj.unit)
      BY <2>4, <2>6, OwnDefinitions
    <3>5. QED
      BY <1>2, <2>3, <2>6, <3>2, <3>3, <3>4
  <2>8. ASSUME NEW v \in VariableOf(obj, r.name)
        PROVE  FALSE
    BY <2>4, <2>6, OwnDefinitions
  <2>9. CASE Undefined(obj, r) /\ \E y \in Resolved(r.name, r.form) : a = Outside(obj, Base(obj), r, y)
    <3>1. PICK y \in Resolved(r.name, r.form) : a = y.address + r.value
      BY <2>6, <2>9 DEF Outside, KindOf
    <3>2. x.thing = <<"external", r.name>>
      BY <2>4, <2>6, <2>9, ReferenceNames
    <3>3. \/ \E d \in Defining("function", x.thing) : y.address = d.address
          \/ \E l \in Exported("function", x.thing) : y.address = l.address
      BY <2>6, <2>9, <3>2, OutsideDefinitions
    <3>4. /\ \A d \in Defining("function", x.thing) : d.address \in Nat
          /\ \A l \in Exported("function", x.thing) : l.address \in Nat
      <4>1. \A d \in Defining("function", x.thing) : d \in Definition
        BY ProgramFacts DEF Defining
      <4>2. \A l \in Exported("function", x.thing) : l \in LibraryEntry
        BY ProgramsAreDefinitions DEF Exported
      <4>3. QED
        BY <4>1, <4>2 DEF Definition, LibraryEntry
    <3>5. a = y.address
      BY <2>6, <3>1, <3>3, <3>4
    <3>6. QED
      BY <2>3, <3>3, <3>5 DEF EntryOf
  <2>10. QED
    BY <2>2, <2>4, <2>7, <2>8, <2>9 DEF Reached
<1>4. ASSUME NEW x \in i.exports, x.kind = "function"
      PROVE  /\ x.address \in Nat
             /\ \E o \in Objects : N(x.name, "function", "external") \in ObjectNames(o)
             /\ HasBody({i}, <<"external", x.name>>, x.address)
  <2>1. PICK f \in Range(obj.functions) : External(f.bind) /\
          x = [name |-> f.name, kind |-> "function", address |-> Base(obj) + f.offset]
    BY <1>4, ImageFacts
  <2>2. x.name = f.name /\ x.address = Base(obj) + f.offset /\ Scope(f.bind, obj.unit) = "external"
    BY <2>1 DEF Scope
  <2>3. N(x.name, "function", "external") \in ObjectNames(obj)
    BY <2>2, DefinitionNames
  <2>4. x.address \in Nat /\ HasBody({i}, <<"external", x.name>>, x.address)
    BY <1>2, <2>2
  <2>5. QED
    BY <2>3, <2>4
<1>5. ASSUME NEW f \in i.pending
      PROVE  Waiting(f)
  BY ImageFacts DEF Waiting, Pending
<1>6. QED
  BY <1>3, <1>4, <1>5 DEF ImageCalls, CallReaches, ExportsCode

\* The sibling that answers has the function that was asked for.
LEMMA AnswersReach ==
  ASSUME TypeInv, FunctionNamesAreClear(Programs, Objects), FunctionsAreReferredToPlainly(Objects),
         NEW o, NEW f, Answerable(o, f), Waiting(f),
         \A x \in Exports(o) : ExportsCode(candidate[o], x)
  PROVE  CallReaches(candidate[o], Answer(o, f))
<1> DEFINE named == {y \in Exports(o) : y.name = f.name}
           x == CHOOSE y \in named : TRUE
           answer == Answer(o, f)
<1>1. named # {} /\ x \in Exports(o) /\ x.name = f.name /\ x.kind = f.accepts
  BY DEF Answerable
<1>2. /\ answer.thing = <<"external", f.name>> /\ answer.kind = f.accepts
      /\ answer.at = f.inner + x.address
  BY <1>1 DEF Answer, Landed
<1>3. SUFFICES ASSUME f.accepts = "function"
               PROVE  HasBody(candidate[o], answer.thing, answer.at)
  BY <1>2 DEF CallReaches
<1>4. /\ x.address \in Nat
      /\ \E obj \in Objects : N(f.name, "function", "external") \in ObjectNames(obj)
      /\ HasBody(candidate[o], <<"external", f.name>>, x.address)
  BY <1>1, <1>3 DEF ExportsCode
<1>5. PICK obj \in Objects : \E r \in obj.references :
        Undefined(obj, r) /\ f.name = r.name /\ f.inner = r.value
  BY DEF Waiting
<1>6. PICK r \in obj.references : Undefined(obj, r) /\ f.name = r.name /\ f.inner = r.value
  BY <1>5
<1>7. N(f.name, KindOf(r), ScopeOf(obj, r)) \in ObjectNames(obj)
  BY <1>6, ReferenceNames DEF Undefined
<1>8. KindOf(r) = "function"
  BY <1>4, <1>7, NamesMeet
<1>9. f.inner = 0
  <2>1. r.form \in {"call", "address"}
    BY <1>8 DEF KindOf
  <2>2. QED
    BY <1>6, <2>1 DEF FunctionsAreReferredToPlainly
<1>10. answer.at = x.address
  BY <1>2, <1>4, <1>9
<1>11. QED
  BY <1>2, <1>4, <1>10

\* Loading, linking and committing keep calls sound.
LEMMA CallsAreKept ==
  ASSUME FunctionNamesAreClear(Programs, Objects), FunctionsAreReferredToPlainly(Objects)
  PROVE  TypeInv /\ CallInv /\ [Next]_vars => CallInv'
<1>1. SUFFICES ASSUME TypeInv, CallInv, [Next]_vars
               PROVE  CallInv'
  OBVIOUS
<1>2. \A S, i : ImageCalls(i, S)' <=> ImageCalls(i, S)
  <2>1. program' = program
    BY <1>1, StepCases
  <2>2. \A t : EntryOf(t)' = EntryOf(t)
    BY <2>1 DEF EntryOf, Defining, Exported
  <2>3. QED
    BY <2>2 DEF ImageCalls, CallReaches, HasBody, ExportsCode, Waiting, Undefined, FunctionOf,
        VariableOf, N, ObjectNames, Wanted, Identity
<1> DEFINE Ready == \A q \in Owners : \A i \in candidate'[q] :
                      ImageCalls(i, candidate'[q]) /\ (q \in linked' => i.pending = {})
           Kept == \A i \in live' : ImageCalls(i, live') /\ i.pending = {}
<1>3. ASSUME NEW o, NEW obj, Loads(o, obj)
      PROVE  Ready /\ Kept
  <2>1. ImageCalls(Image(obj), {Image(obj)})
    BY <1>1, <1>3, FreshCalls DEF Loads
  <2>2. \A q \in Owners : candidate'[q] = IF q = o THEN candidate[o] \cup {Image(obj)} ELSE candidate[q]
    BY <1>1, <1>3, LoadStep DEF TypeInv
  <2>3. \A i : ImageCalls(i, candidate[o]) => ImageCalls(i, candidate[o] \cup {Image(obj)})
    BY MoreBodies
  <2>4. ImageCalls(Image(obj), candidate[o] \cup {Image(obj)})
    BY <2>1, MoreBodies
  <2>5. o \in Owners /\ o \notin linked /\ linked' = linked /\ live' = live
    BY <1>3 DEF Loads
  <2>6. QED
    BY <1>1, <2>2, <2>3, <2>4, <2>5 DEF CallInv
<1>4. ASSUME NEW o, Drops(o) \/ Commits(o)
      PROVE  Ready
  <2>1. \A q \in Owners : candidate'[q] = (IF q = o THEN {} ELSE candidate[q]) /\ linked' = linked \ {o}
    BY <1>1, <1>4, EndStep DEF TypeInv
  <2>2. QED
    BY <1>1, <2>1 DEF CallInv
<1>5. ASSUME NEW o, Drops(o)
      PROVE  Kept
  BY <1>1, <1>5 DEF Drops, CallInv
<1>6. ASSUME NEW o, Commits(o)
      PROVE  Kept
  <2>1. o \in Owners /\ o \in linked /\ live' = live \cup candidate[o]
    BY <1>6 DEF Commits
  <2>2. \A i : ImageCalls(i, live) \/ ImageCalls(i, candidate[o]) => ImageCalls(i, live')
    BY <2>1, MoreBodies
  <2>3. QED
    BY <1>1, <2>1, <2>2 DEF CallInv
<1>7. ASSUME NEW o, Links(o)
      PROVE  Ready /\ Kept
  <2>1. \A q \in Owners : candidate'[q] = IF q = o THEN {Linked(o, i) : i \in candidate[o]} ELSE candidate[q]
    BY <1>1, <1>7, LinkStep DEF TypeInv
  <2>2. /\ o \in Owners /\ live' = live /\ linked' = linked \cup {o}
        /\ \A i \in candidate[o] : \A f \in i.pending : Answerable(o, f)
    BY <1>7 DEF Links
  <2>3. \A i \in candidate[o] :
          LET l == Linked(o, i)
          IN /\ l.pending = {} /\ l.refs = i.refs \cup {Answer(o, f) : f \in i.pending}
             /\ l.bodies = i.bodies /\ l.exports = i.exports
    BY <1>1, <2>2, LinkedFacts DEF TypeInv
  <2> DEFINE T == {Linked(o, i) : i \in candidate[o]}
  <2>4. \A i : ImageCalls(i, candidate[o]) => ImageCalls(i, T)
    <3>1. \A j \in candidate[o] : \E k \in T : k.bodies = j.bodies
      BY <2>3
    <3>2. QED
      BY <3>1, MoreBodies
  <2>5. ASSUME NEW i \in candidate[o]
        PROVE  ImageCalls(Linked(o, i), T) /\ Linked(o, i).pending = {}
    <3> DEFINE l == Linked(o, i)
    <3>1. ImageCalls(i, candidate[o]) /\ ImageCalls(i, T)
      BY <1>1, <2>2, <2>4 DEF CallInv
    <3>2. \A x \in Exports(o) : ExportsCode(candidate[o], x)
      BY <1>1, <2>2 DEF CallInv, ImageCalls, Exports
    <3>3. \A f \in i.pending : CallReaches(candidate[o], Answer(o, f))
      BY <1>1, <2>2, <3>1, <3>2, AnswersReach DEF ImageCalls
    <3>4. \A t, a : HasBody(candidate[o], t, a) => HasBody(T, t, a)
      BY <2>3 DEF HasBody
    <3>5. \A f \in i.pending : CallReaches(T, Answer(o, f))
      BY <3>3, <3>4 DEF CallReaches
    <3>6. \A r \in l.refs : CallReaches(T, r)
      BY <2>3, <3>1, <3>5 DEF ImageCalls
    <3>7. QED
      BY <2>3, <3>1, <3>6 DEF ImageCalls
  <2>6. ASSUME NEW q \in Owners, q # o
        PROVE  candidate'[q] = candidate[q] /\ (q \in linked' => q \in linked)
    BY <2>1, <2>2, <2>6
  <2>7. candidate'[o] = T /\ \A i \in T : ImageCalls(i, T) /\ i.pending = {}
    BY <2>1, <2>2, <2>5
  <2>8. Ready
    <3>1. ASSUME NEW q \in Owners, NEW i \in candidate'[q]
          PROVE  ImageCalls(i, candidate'[q]) /\ (q \in linked' => i.pending = {})
      <4>1. CASE q = o
        <5> HIDE DEF T
        <5>1. QED
          BY <2>7, <3>1, <4>1
      <4>2. CASE q # o
        BY <1>1, <2>6, <3>1, <4>2 DEF CallInv
      <4>3. QED
        BY <4>1, <4>2
    <3>2. QED
      BY <3>1
  <2>9. QED
    BY <1>1, <2>2, <2>8 DEF CallInv
<1>8. ASSUME Stays
      PROVE  Ready /\ Kept
  BY <1>1, <1>8 DEF Stays, CallInv
<1>9. Ready /\ Kept
  BY <1>1, <1>3, <1>4, <1>5, <1>6, <1>7, <1>8, StepCases
<1>10. QED
  BY <1>2, <1>9 DEF CallInv

\* Every call of committed code, and every address of a function it takes,
\* reaches the entry of the function it names or a committed body of it, and no
\* placeholder is left (resolve_external, link_generation), for programs and
\* objects in which a name means one kind of thing in one scope and functions are
\* referred to at their beginning.
THEOREM CallsReachTheirFunctionAlways ==
  ASSUME FunctionNamesAreClear(Programs, Objects), FunctionsAreReferredToPlainly(Objects)
  PROVE  Spec => []CallsReachTheirFunction
<1>1. Init => TypeInv /\ CallInv
  <2>1. Init => CallInv
    BY DEF Init, CallInv
  <2>2. QED
    BY <2>1, TypeStarts
<1>2. TypeInv /\ CallInv /\ [Next]_vars => (TypeInv /\ CallInv)'
  BY TypeIsKept, CallsAreKept
<1>3. CallInv => CallsReachTheirFunction
  <2>1. SUFFICES ASSUME CallInv, NEW i \in live, NEW r \in i.refs, r.kind = "function"
                 PROVE  /\ i.pending = {}
                        /\ r.at \in EntryOf(r.thing) \cup
                             {b.address : b \in {c \in UNION {j.bodies : j \in live} : c.thing = r.thing}}
    BY DEF CallInv, CallsReachTheirFunction
  <2>2. r.at \in EntryOf(r.thing) \/ HasBody(live, r.thing, r.at)
    BY <2>1 DEF CallInv, ImageCalls, CallReaches
  <2>3. QED
    BY <2>1, <2>2 DEF CallInv, HasBody
<1>4. QED
  BY <1>1, <1>2, <1>3, PTL DEF Spec

-----------------------------------------------------------------------------
(* Variables. *)

\* Storage is introduced for a variable of an object that no lookup finds.
StateSound(d) ==
  /\ d.address \in Nat
  /\ \E obj \in Objects : \E v \in Range(obj.variables) :
       d.identity = <<Scope(v.bind, obj.unit), v.name>> /\ First("object", v.name) = {}

\* The storage that is, or will be with the images S, committed for a variable.
Stored(S, t, a) ==
  \/ \E h \in home : h.identity = t /\ h.address = a
  \/ \E i \in S : \E d \in i.states : d.identity = t /\ d.address = a

\* Where images S would keep a variable, were they committed.
Locates(S, t, a) == a \in Homes(t) \/ Stored(S, t, a)

\* A variable is where the lookup finds it, or else in storage of its own.
BindSound(S, b) ==
  IF First("object", b.identity[2]) # {}
  THEN \E d \in First("object", b.identity[2]) : b.address = d.address
  ELSE Stored(S, b.identity, b.address)

DataReaches(S, r) ==
  r.kind = "object" /\ r.way = "address" /\ NameIsClear(r.thing) =>
    \E a : Locates(S, r.thing, a) /\ r.at = a + r.inner

ExportsData(S, x) ==
  x.kind = "object" =>
    /\ x.address \in Nat
    /\ NameIsClear(<<"external", x.name>>) => Locates(S, <<"external", x.name>>, x.address)

ImageData(i, S) ==
  /\ \A d \in i.states : StateSound(d)
  /\ \A b \in i.binds : BindSound(S, b)
  /\ \A r \in i.refs : DataReaches(S, r)
  /\ \A x \in i.exports : ExportsData(S, x)
  /\ \A f \in i.pending : Waiting(f)

HomesAreUnique == \A g, h \in home : g.identity = h.identity => g = h

HomeInv ==
  /\ \A h \in home : StateSound(h)
  /\ HomesAreUnique
  /\ \A o \in Owners : \A i \in candidate[o] : ImageData(i, candidate[o])
  /\ \A i \in live : /\ \A b \in i.binds : BindSound({}, b)
                     /\ \A r \in i.refs : DataReaches({}, r)

\* More images have no less storage: what is sound of one stays so.
LEMMA MoreStates ==
  ASSUME NEW S, NEW T, \A j \in S : \E k \in T : k.states = j.states
  PROVE  /\ \A t, a : Locates(S, t, a) => Locates(T, t, a)
         /\ \A b : BindSound(S, b) => BindSound(T, b)
         /\ \A i : ImageData(i, S) => ImageData(i, T)
<1>1. \A t, a : Stored(S, t, a) => Stored(T, t, a)
  BY DEF Stored
<1>2. /\ \A t, a : Locates(S, t, a) => Locates(T, t, a)
      /\ \A b : BindSound(S, b) => BindSound(T, b)
  BY <1>1 DEF Locates, BindSound
<1>3. QED
  BY <1>2 DEF ImageData, DataReaches, ExportsData

\* What has storage of its own is in no program and no library.
LEMMA StorageIsNew ==
  ASSUME TypeInv, NEW h, StateSound(h), NameIsClear(h.identity)
  PROVE  Defining("object", h.identity) = {} /\ Exported("object", h.identity) = {}
<1>1. PICK obj \in Objects : \E v \in Range(obj.variables) :
        h.identity = <<Scope(v.bind, obj.unit), v.name>> /\ First("object", v.name) = {}
  BY DEF StateSound
<1>2. PICK v \in Range(obj.variables) :
        h.identity = <<Scope(v.bind, obj.unit), v.name>> /\ First("object", v.name) = {}
  BY <1>1
<1>3. h.identity[2] = v.name
  BY <1>2
<1>4. Defining("object", h.identity) = {}
  <2>1. \A d \in Range(program) : d.name = v.name => First("object", d.name) = {d}
    BY <1>3 DEF NameIsClear
  <2>2. \A d \in Defining("object", h.identity) : d \in Range(program) /\ d.name = v.name
    BY <1>3 DEF Defining
  <2>3. ASSUME NEW d \in Defining("object", h.identity)
        PROVE  FALSE
    <3>1. d.name = v.name /\ First("object", d.name) = {d}
      BY <2>1, <2>2
    <3>2. First("object", v.name) = {d}
      BY <3>1
    <3>3. QED
      BY <1>2, <3>2
  <2>4. QED
    BY <2>3
<1>5. \A l \in Library : l.name # v.name
  BY <1>3, <1>4 DEF NameIsClear
<1>6. \A l : h.identity = <<"external", l.name>> => l.name = v.name
  BY <1>3
<1>7. Exported("object", h.identity) = {}
  BY <1>5, <1>6 DEF Exported
<1>8. QED
  BY <1>4, <1>7

\* A variable with a clear name has one home.
LEMMA OneHome ==
  ASSUME TypeInv, \A h \in home : StateSound(h), HomesAreUnique,
         NEW t, NameIsClear(t), NEW a \in Homes(t), NEW b \in Homes(t)
  PROVE  a = b
<1> DEFINE defined == {d.address : d \in Defining("object", t)}
           exported == {l.address : l \in {x \in Exported("object", t) : Defining("object", t) = {}}}
           kept == {h.address : h \in {g \in home : g.identity = t}}
<1>1. Homes(t) = defined \cup exported \cup kept
  BY DEF Homes
<1>2. ASSUME NEW d \in Defining("object", t), NEW e \in Defining("object", t)
      PROVE  d = e
  <2>1. d \in Range(program) /\ d.name = t[2] /\ e \in Range(program) /\ e.name = t[2]
    BY DEF Defining
  <2>2. First("object", d.name) = {d} /\ First("object", e.name) = {e}
    BY <2>1 DEF NameIsClear
  <2>3. {d} = {e}
    BY <2>1, <2>2
  <2>4. QED
    BY <2>3
<1>3. ASSUME NEW l \in Exported("object", t), NEW x \in Exported("object", t)
      PROVE  l = x
  <2>1. l \in Library /\ x \in Library /\ t = <<"external", l.name>> /\ t = <<"external", x.name>>
    BY DEF Exported
  <2>2. l.name = t[2] /\ x.name = t[2]
    BY <2>1
  <2>3. QED
    BY <2>1, <2>2 DEF NameIsClear
<1>4. kept # {} => defined = {} /\ exported = {}
  BY StorageIsNew
<1>5. defined # {} => exported = {}
  OBVIOUS
<1>6. \A x, y \in defined : x = y
  BY <1>2
<1>7. \A x, y \in exported : x = y
  BY <1>3
<1>8. \A x, y \in kept : x = y
  BY DEF HomesAreUnique
<1> HIDE DEF defined, exported, kept
<1>9. QED
  BY <1>1, <1>4, <1>5, <1>6, <1>7, <1>8

\* Where a variable of a fresh object is bound is where it lives.
LEMMA BoundVariable ==
  ASSUME TypeInv, \A h \in home : StateSound(h),
         NEW obj \in Objects, Loadable(obj), NEW v \in Range(obj.variables)
  PROVE  LET t == <<Scope(v.bind, obj.unit), v.name>>
         IN /\ HomeOf(obj, v) \in Nat
            /\ \A id \in Identity(v, obj.unit) :
                 id = t /\ BindSound({Image(obj)}, [identity |-> id, address |-> HomeOf(obj, v)])
            /\ NameIsClear(t) => Locates({Image(obj)}, t, HomeOf(obj, v))
<1> DEFINE t == <<Scope(v.bind, obj.unit), v.name>>
           b == [identity |-> t, address |-> HomeOf(obj, v)]
<1>1. Identity(v, obj.unit) \subseteq {t}
  BY DEF Identity
<1>2. t[2] = v.name /\ b.identity = t /\ b.address = HomeOf(obj, v)
  OBVIOUS
<1>3. SUFFICES /\ HomeOf(obj, v) \in Nat
               /\ BindSound({Image(obj)}, b)
               /\ NameIsClear(t) => Locates({Image(obj)}, t, HomeOf(obj, v))
  BY <1>1
<1> HIDE DEF t, b
<1>4. CASE Committed(v, obj.unit) # {}
  <2>1. \E h \in Committed(v, obj.unit) : HomeOf(obj, v) = h.address
    BY <1>4 DEF HomeOf
  <2>2. PICK h \in home : h.identity = t /\ HomeOf(obj, v) = h.address
    BY <1>1, <2>1 DEF Committed
  <2>3. h.address \in Nat /\ First("object", v.name) = {}
    <3>1. \E other \in Objects : \E w \in Range(other.variables) :
            h.identity = <<Scope(w.bind, other.unit), w.name>> /\ First("object", w.name) = {}
      BY DEF StateSound
    <3>2. First("object", h.identity[2]) = {}
      BY <3>1
    <3>3. QED
      BY <1>2, <2>2, <3>2 DEF StateSound
  <2>4. Stored({Image(obj)}, t, HomeOf(obj, v))
    BY <2>2 DEF Stored
  <2>5. QED
    BY <1>2, <2>2, <2>3, <2>4 DEF Locates, BindSound
<1>5. CASE Committed(v, obj.unit) = {} /\ Existing(v) # {}
  <2>1. PICK d \in First("object", v.name) : HomeOf(obj, v) = d.address
    BY <1>5 DEF HomeOf, Existing
  <2>2. d \in Range(program) /\ d.name = v.name /\ d.address \in Nat
    BY ProgramFacts DEF Definition
  <2>3. BindSound({Image(obj)}, b)
    BY <1>2, <2>1 DEF BindSound
  <2>4. NameIsClear(t) => d \in Defining("object", t)
    BY <1>2, <2>2 DEF NameIsClear, Defining
  <2>5. NameIsClear(t) => d.address \in Homes(t)
    BY <2>4 DEF Homes
  <2>6. QED
    BY <2>1, <2>2, <2>3, <2>5 DEF Locates
<1>6. CASE Committed(v, obj.unit) = {} /\ Existing(v) = {}
  <2>1. v \in NewVariables(obj)
    <3>1. PICK k \in DOMAIN obj.variables : v = obj.variables[k]
      BY DEF Range
    <3>2. QED
      BY <1>6, <3>1 DEF NewVariables, Introduced
  <2>2. Identity(v, obj.unit) = {t}
    <3>1. ~Unbindable(obj, v)
      BY DEF Loadable
    <3>2. Identity(v, obj.unit) # {}
      BY <1>6, <3>1 DEF Unbindable
    <3>3. QED
      BY <1>1, <3>2
  <2> DEFINE State(u) == [identity |-> CHOOSE id \in Identity(u, obj.unit) : TRUE,
                          address |-> HomeOf(obj, u), size |-> Extent(obj, u),
                          align |-> obj.sections[u.section].align]
             d == State(v)
  <2>3. d \in Image(obj).states
    <3>1. Image(obj).states = {State(u) : u \in NewVariables(obj)}
      BY DEF Image, NewVariables
    <3>2. QED
      BY <2>1, <3>1
  <2>4. d.identity = t /\ d.address = HomeOf(obj, v)
    BY <2>2
  <2>5. Stored({Image(obj)}, t, HomeOf(obj, v))
    <3> HIDE DEF d
    <3>1. QED
      BY <2>3, <2>4 DEF Stored
  <2>6. HomeOf(obj, v) \in Nat
    BY <2>1, FreshMemory, FreeIsFinite
  <2>7. QED
    BY <1>2, <1>6, <2>5, <2>6 DEF Locates, BindSound, Existing
<1>7. QED
  BY <1>4, <1>5, <1>6

\* A section-relative access reaches the variable at its offset.
LEMMA SectionReaches ==
  ASSUME NEW obj \in Objects,
         NEW r \in obj.references, r.form = "section", Way(obj, r) = "address",
         NEW a \in Reached(obj, Base(obj), r),
         NEW v \in Range(obj.variables), v.section = r.section,
         v.value <= r.value, r.value < v.value + v.size
  PROVE  a = HomeOf(obj, v) - v.value + r.value
<1>1. a \in SectionAccess(obj, r)
  BY DEF Reached
<1>2. r.value \in Nat /\ r.trailing = 0
  BY ObjectsAreWellFormed DEF Way, ByTrampoline, Undefined, Reference
<1> DEFINE offset == IF r.kind = "rel32" THEN r.value - r.trailing ELSE r.value
           at == {w \in Range(obj.variables) :
                    w.section = r.section /\ w.value <= offset /\ offset < w.value + w.size}
<1>3. offset = r.value
  BY <1>2
<1>4. \A w \in Range(obj.variables) : w.value \in Nat /\ w.size \in Nat
  <2>1. obj.variables \in Seq(Variable)
    BY ObjectsAreWellFormed
  <2>2. \A w \in Range(obj.variables) : w \in Variable
    BY <2>1 DEF Range
  <2>3. QED
    BY <2>2 DEF Variable
<1>5. v \in at
  BY <1>3
<1>6. ASSUME NEW w \in at
      PROVE  w = v
  <2>1. w.section = v.section /\ w.value <= r.value /\ r.value < w.value + w.size
    BY <1>3
  <2>2. w # v => w.value + w.size <= v.value \/ v.value + v.size <= w.value
    BY <2>1, ObjectsAreWellFormed
  <2>3. w.value \in Nat /\ w.size \in Nat /\ v.value \in Nat /\ v.size \in Nat
    BY <1>4
  <2>4. QED
    BY <1>2, <2>1, <2>2, <2>3
<1>7. \E w \in at : a = HomeOf(obj, w) - w.value + r.value
  BY <1>1, <1>5 DEF SectionAccess
<1>8. QED
  BY <1>6, <1>7

\* The data references of a fresh image that are resolved reach a home the process
\* has, or storage the image brings along.
LEMMA FreshData ==
  ASSUME TypeInv, \A h \in home : StateSound(h), NEW obj \in Objects, Loadable(obj)
  PROVE  ImageData(Image(obj), {Image(obj)})
<1> DEFINE i == Image(obj)
           T(v) == <<Scope(v.bind, obj.unit), v.name>>
<1>1. \A v \in Range(obj.variables) :
        /\ HomeOf(obj, v) \in Nat
        /\ \A id \in Identity(v, obj.unit) :
             id = T(v) /\ BindSound({i}, [identity |-> id, address |-> HomeOf(obj, v)])
        /\ NameIsClear(T(v)) => Locates({i}, T(v), HomeOf(obj, v))
  BY BoundVariable
<1>2. ASSUME NEW d \in i.states
      PROVE  StateSound(d)
  <2>1. PICK v \in NewVariables(obj) :
          d = [identity |-> CHOOSE id \in Identity(v, obj.unit) : TRUE,
               address |-> HomeOf(obj, v), size |-> Extent(obj, v),
               align |-> obj.sections[v.section].align]
    BY DEF Image, NewVariables
  <2>2. v \in Range(obj.variables) /\ Existing(v) = {} /\ Committed(v, obj.unit) = {}
    BY DEF NewVariables, Introduced, Range
  <2>3. Identity(v, obj.unit) # {}
    BY <2>2 DEF Loadable, Unbindable
  <2>4. d.identity = <<Scope(v.bind, obj.unit), v.name>> /\ d.address \in Nat
    BY <1>1, <2>1, <2>2, <2>3
  <2>5. QED
    BY <2>2, <2>4 DEF StateSound, Existing
<1>3. ASSUME NEW x \in i.refs, x.kind = "object", x.way = "address", NameIsClear(x.thing)
      PROVE  \E b : Locates({i}, x.thing, b) /\ x.at = b + x.inner
  <2>1. PICK r \in obj.references \ Pending(obj) :
          \E w \in Wanted(obj, r), a \in Reached(obj, Base(obj), r) : x = Landed(w, Way(obj, r), a)
    BY ImageFacts
  <2>2. PICK w \in Wanted(obj, r), a \in Reached(obj, Base(obj), r) : x = Landed(w, Way(obj, r), a)
    BY <2>1
  <2>3. /\ x.kind = w.kind /\ x.thing = w.thing /\ x.at = a /\ x.inner = w.inner
        /\ Way(obj, r) = "address"
    BY <1>3, <2>2 DEF Landed
  <2>4. r.value \in Nat
    BY ObjectsAreWellFormed DEF Reference
  <2>5. CASE r.form = "section"
    <3>1. PICK v \in Range(obj.variables) :
            /\ w = [thing |-> T(v), kind |-> "object", inner |-> r.value - v.value]
            /\ v.section = r.section /\ v.value <= r.value /\ r.value < v.value + v.size
      BY <2>2, <2>5 DEF Wanted
    <3>2. x.thing = T(v) /\ x.inner = r.value - v.value
      BY <2>3, <3>1
    <3>3. a = HomeOf(obj, v) - v.value + r.value
      BY <2>2, <2>3, <2>5, <3>1, SectionReaches
    <3>4. v.value \in Nat
      <4>1. obj.variables \in Seq(Variable)
        BY ObjectsAreWellFormed
      <4>2. v \in Variable
        BY <4>1 DEF Range
      <4>3. QED
        BY <4>2 DEF Variable
    <3>5. HomeOf(obj, v) \in Nat
      BY <1>1
    <3>6. x.at = HomeOf(obj, v) + x.inner
      BY <2>3, <2>4, <3>2, <3>3, <3>4, <3>5
    <3>7. QED
      BY <1>1, <1>3, <3>2, <3>6
  <2>6. CASE r.form # "section"
    <3>1. w = [thing |-> <<ScopeOf(obj, r), r.name>>, kind |-> KindOf(r), inner |-> r.value]
      BY <2>2, <2>6, ReferenceNames
    <3>2. KindOf(r) = "object" /\ x.thing = <<ScopeOf(obj, r), r.name>> /\ x.inner = r.value
      BY <1>3, <2>3, <3>1
    <3>3. x.thing[1] = ScopeOf(obj, r) /\ x.thing[2] = r.name
      BY <3>2
    <3>4. \A kind, scope : N(r.name, kind, scope) \in ObjectNames(obj) =>
            kind = "object" /\ scope = ScopeOf(obj, r)
      <4>1. \A n \in ObjectNames(obj) : n.name = r.name => n.kind = "object" /\ n.scope = ScopeOf(obj, r)
        BY <1>3, <3>3 DEF NameIsClear
      <4>2. QED
        BY <4>1 DEF N
    <3>5. ASSUME NEW f \in FunctionOf(obj, r.name)
          PROVE  FALSE
      <4>1. N(r.name, "function", Scope(f.bind, obj.unit)) \in ObjectNames(obj)
        BY DefinitionNames DEF FunctionOf
      <4>2. "function" = "object"
        BY <3>4, <4>1
      <4>3. QED
        BY <4>2
    <3>6. ASSUME NEW v \in VariableOf(obj, r.name), a = HomeOf(obj, v) + r.value
          PROVE  Locates({i}, x.thing, HomeOf(obj, v))
      <4>1. v \in Range(obj.variables) /\ v.name = r.name
        BY DEF VariableOf
      <4>2. N(r.name, "object", Scope(v.bind, obj.unit)) \in ObjectNames(obj)
        BY <4>1, DefinitionNames
      <4>3. x.thing = T(v)
        BY <3>2, <3>4, <4>1, <4>2
      <4>4. QED
        BY <1>1, <1>3, <4>1, <4>3
    <3>7. ASSUME Undefined(obj, r), NEW y \in Resolved(r.name, r.form),
                 a = Outside(obj, Base(obj), r, y)
          PROVE  a = y.address + r.value /\ y.address \in Homes(x.thing)
      <4>1. x.thing = <<"external", r.name>>
        BY <2>6, <3>2, <3>7, ReferenceNames
      <4>2. ~ByTrampoline(obj, r) /\ a = y.address + r.value
        BY <2>3, <3>7 DEF Way, Outside
      <4>3. CASE \E d \in Range(program) : d.name = r.name /\ d.address = y.address
        <5>1. PICK d \in Range(program) : d.name = r.name /\ d.address = y.address
          BY <4>3
        <5>2. d.kind = "object" /\ Scope(d.bind, d.unit) = x.thing[1]
          BY <1>3, <3>3, <5>1 DEF NameIsClear
        <5>3. d \in Defining("object", x.thing)
          BY <3>3, <5>1, <5>2 DEF Defining
        <5>4. QED
          BY <4>2, <5>1, <5>3 DEF Homes
      <4>4. CASE /\ \E l \in Library : l.name = r.name /\ l.kind = y.kind /\ l.address = y.address
                 /\ \A d \in Range(program) : d.name = r.name /\ External(d.bind) =>
                      r.form = "call" /\ d.kind # "function"
        <5>1. PICK l \in Library : l.name = r.name /\ l.address = y.address
          BY <4>4
        <5>2. l.kind = "object"
          BY <1>3, <3>3, <5>1 DEF NameIsClear
        <5>3. l \in Exported("object", x.thing)
          BY <4>1, <5>1, <5>2 DEF Exported
        <5>4. ASSUME NEW d \in Defining("object", x.thing)
              PROVE  FALSE
          <6>1. d \in Range(program) /\ d.name = r.name /\ Scope(d.bind, d.unit) = "external"
            BY <3>3, <4>1 DEF Defining
          <6>2. External(d.bind)
            <7>1. d.unit # "external"
              BY <6>1, ProgramFacts, UnitsAreNamed DEF Definition
            <7>2. QED
              BY <6>1, <7>1 DEF Scope
          <6>3. r.form # "call"
            BY <3>2 DEF KindOf
          <6>4. QED
            BY <4>4, <6>1, <6>2, <6>3
        <5>5. QED
          BY <4>2, <5>1, <5>3, <5>4 DEF Homes
      <4>5. QED
        BY <4>3, <4>4, ResolvedFacts
    <3>8. \/ \E v \in VariableOf(obj, r.name) : a = HomeOf(obj, v) + r.value
          \/ Undefined(obj, r) /\ \E y \in Resolved(r.name, r.form) : a = Outside(obj, Base(obj), r, y)
      BY <2>2, <2>6, <3>5 DEF Reached
    <3>9. QED
      BY <2>3, <3>2, <3>6, <3>7, <3>8 DEF Locates
  <2>7. QED
    BY <2>5, <2>6
<1>4. ASSUME NEW x \in i.exports, x.kind = "object"
      PROVE  /\ x.address \in Nat
             /\ NameIsClear(<<"external", x.name>>) => Locates({i}, <<"external", x.name>>, x.address)
  <2>1. PICK v \in Range(obj.variables) : External(v.bind) /\
          x = [name |-> v.name, kind |-> "object", address |-> HomeOf(obj, v)]
    BY <1>4, ImageFacts
  <2>2. T(v) = <<"external", x.name>> /\ x.address = HomeOf(obj, v)
    BY <2>1 DEF Scope
  <2>3. QED
    BY <1>1, <2>2
<1>5. ASSUME NEW b \in i.binds
      PROVE  BindSound({i}, b)
  <2> DEFINE of(v) == {[identity |-> id, address |-> HomeOf(obj, v)] : id \in Identity(v, obj.unit)}
  <2>1. i.binds = UNION {of(v) : v \in Range(obj.variables)}
    BY DEF Image
  <2>2. PICK v \in Range(obj.variables) : b \in of(v)
    <3> HIDE DEF of, i
    <3>1. QED
      BY <1>5, <2>1
  <2>3. PICK id \in Identity(v, obj.unit) : b = [identity |-> id, address |-> HomeOf(obj, v)]
    BY <2>2
  <2>4. QED
    BY <1>1, <2>3
<1>6. ASSUME NEW f \in i.pending
      PROVE  Waiting(f)
  BY ImageFacts DEF Waiting, Pending
<1>7. QED
  BY <1>2, <1>3, <1>4, <1>5, <1>6 DEF ImageData, DataReaches, ExportsData

\* The sibling that answers has the variable that was asked for.
LEMMA AnswersReachData ==
  ASSUME NEW o, NEW f, Answerable(o, f), Waiting(f),
         \A x \in Exports(o) : ExportsData(candidate[o], x)
  PROVE  DataReaches(candidate[o], Answer(o, f))
<1> DEFINE named == {y \in Exports(o) : y.name = f.name}
           x == CHOOSE y \in named : TRUE
           answer == Answer(o, f)
<1>1. named # {} /\ x \in Exports(o) /\ x.name = f.name /\ x.kind = f.accepts
  BY DEF Answerable
<1>2. /\ answer.thing = <<"external", f.name>> /\ answer.kind = f.accepts
      /\ answer.inner = f.inner /\ answer.at = f.inner + x.address
  BY <1>1 DEF Answer, Landed
<1>3. f.inner \in Nat
  BY ObjectsAreWellFormed DEF Waiting, Reference
<1>4. ASSUME f.accepts = "object", NameIsClear(<<"external", f.name>>)
      PROVE  x.address \in Nat /\ Locates(candidate[o], <<"external", f.name>>, x.address)
  BY <1>1, <1>4 DEF ExportsData
<1>5. ASSUME f.accepts = "object", NameIsClear(<<"external", f.name>>)
      PROVE  answer.at = x.address + answer.inner
  BY <1>2, <1>3, <1>4, <1>5
<1>6. QED
  BY <1>2, <1>4, <1>5 DEF DataReaches

\* Loading, linking and committing keep the homes of variables and what reaches them.
LEMMA DataIsKept == TypeInv /\ HomeInv /\ [Next]_vars => HomeInv'
<1>1. SUFFICES ASSUME TypeInv, HomeInv, [Next]_vars
               PROVE  HomeInv'
  OBVIOUS
<1>2. program' = program /\ platform' = platform /\ home \subseteq home'
  BY <1>1, StepCases DEF Loads, Drops, Links, Commits, Stays
<1>3. /\ \A t : Homes(t) \subseteq Homes(t)'
      /\ \A kind, n : First(kind, n)' = First(kind, n)
  BY <1>2 DEF Homes, Defining, Exported, First, Named, Records, Publics
<1>4. /\ \A t : NameIsClear(t)' <=> NameIsClear(t)
      /\ \A f : Waiting(f)' <=> Waiting(f)
      /\ \A d : StateSound(d)' <=> StateSound(d)
  <2>1. \A t : NameIsClear(t)' <=> NameIsClear(t)
    BY <1>2, <1>3 DEF NameIsClear, Defining, ObjectNames, Wanted, FunctionOf, VariableOf
  <2>2. \A f : Waiting(f)' <=> Waiting(f)
    BY DEF Waiting, Undefined, FunctionOf, VariableOf
  <2>3. \A d : StateSound(d)' <=> StateSound(d)
    BY <1>3 DEF StateSound
  <2>4. QED
    BY <2>1, <2>2, <2>3
<1>5. /\ \A S, b : BindSound(S, b) => BindSound(S, b)'
      /\ \A S, r : DataReaches(S, r) => DataReaches(S, r)'
      /\ \A S, i : ImageData(i, S) => ImageData(i, S)'
  <2>1. \A S, t, a : Stored(S, t, a) => Stored(S, t, a)'
    BY <1>2 DEF Stored
  <2>2. \A S, t, a : Locates(S, t, a) => Locates(S, t, a)'
    BY <1>3, <2>1 DEF Locates
  <2>3. \A S, b : BindSound(S, b) => BindSound(S, b)'
    BY <1>3, <2>1 DEF BindSound
  <2>4. \A S, r : DataReaches(S, r) => DataReaches(S, r)'
    BY <1>4, <2>2 DEF DataReaches
  <2>5. \A S, x : ExportsData(S, x) => ExportsData(S, x)'
    BY <1>4, <2>2 DEF ExportsData
  <2>6. QED
    BY <1>4, <2>3, <2>4, <2>5 DEF ImageData
<1> DEFINE Ready == \A q \in Owners : \A i \in candidate'[q] : ImageData(i, candidate'[q])
           Sound == (\A h \in home' : StateSound(h)) /\ HomesAreUnique'
           Kept == \A i \in live' : /\ \A b \in i.binds : BindSound({}, b)'
                                    /\ \A r \in i.refs : DataReaches({}, r)'
<1>6. ASSUME home' = home, live' = live
      PROVE  Sound /\ Kept
  BY <1>1, <1>5, <1>6 DEF HomeInv, HomesAreUnique
<1>7. ASSUME NEW o, NEW obj, Loads(o, obj)
      PROVE  Ready /\ Sound /\ Kept
  <2>1. ImageData(Image(obj), {Image(obj)})
    BY <1>1, <1>7, FreshData DEF Loads, HomeInv
  <2>2. \A q \in Owners : candidate'[q] = IF q = o THEN candidate[o] \cup {Image(obj)} ELSE candidate[q]
    BY <1>1, <1>7, LoadStep DEF TypeInv
  <2>3. \A i : ImageData(i, candidate[o]) => ImageData(i, candidate[o] \cup {Image(obj)})
    BY MoreStates
  <2>4. ImageData(Image(obj), candidate[o] \cup {Image(obj)})
    BY <2>1, MoreStates
  <2>5. o \in Owners /\ home' = home /\ live' = live
    BY <1>7 DEF Loads
  <2>6. Ready
    BY <1>1, <2>2, <2>3, <2>4, <2>5 DEF HomeInv
  <2>7. QED
    BY <1>6, <2>5, <2>6
<1>8. ASSUME NEW o, Drops(o) \/ Commits(o)
      PROVE  Ready
  <2>1. \A q \in Owners : candidate'[q] = IF q = o THEN {} ELSE candidate[q]
    BY <1>1, <1>8, EndStep DEF TypeInv
  <2>2. QED
    BY <1>1, <2>1 DEF HomeInv
<1>9. ASSUME NEW o, Drops(o)
      PROVE  Sound /\ Kept
  BY <1>6, <1>9 DEF Drops
<1>10. ASSUME NEW o, Commits(o)
       PROVE  Sound /\ Kept
  <2>1. /\ o \in Owners /\ live' = live \cup candidate[o] /\ home' = home \cup States(o)
        /\ \A d \in States(o) : \A h \in home : h.identity # d.identity
        /\ \A d, e \in States(o) : d.identity = e.identity => d = e
    BY <1>10 DEF Commits, Publishable, States
  <2>2. \A d \in States(o) : StateSound(d)
    BY <1>1, <2>1 DEF HomeInv, ImageData, States
  <2>3. HomesAreUnique'
    BY <1>1, <2>1 DEF HomeInv, HomesAreUnique
  <2>4. Sound
    BY <1>1, <2>1, <2>2, <2>3 DEF HomeInv
  <2>5. /\ \A t, a : Locates(candidate[o], t, a) => Locates({}, t, a)'
        /\ \A b : BindSound(candidate[o], b) => BindSound({}, b)'
    <3>1. \A i \in candidate[o] : \A d \in i.states : d \in home'
      BY <2>1 DEF States
    <3>2. \A t, a : Stored(candidate[o], t, a) => Stored({}, t, a)'
      BY <1>2, <3>1 DEF Stored
    <3>3. QED
      BY <1>3, <3>2 DEF Locates, BindSound
  <2>6. \A i \in candidate[o] : /\ \A b \in i.binds : BindSound({}, b)'
                                /\ \A r \in i.refs : DataReaches({}, r)'
    <3>1. \A i \in candidate[o] : /\ \A b \in i.binds : BindSound(candidate[o], b)
                                  /\ \A r \in i.refs : DataReaches(candidate[o], r)
      BY <1>1, <2>1 DEF HomeInv, ImageData
    <3>2. QED
      BY <1>4, <2>5, <3>1 DEF DataReaches
  <2>7. Kept
    BY <1>1, <1>5, <2>1, <2>6 DEF HomeInv
  <2>8. QED
    BY <2>4, <2>7
<1>11. ASSUME NEW o, Links(o)
       PROVE  Ready /\ Sound /\ Kept
  <2>1. \A q \in Owners : candidate'[q] = IF q = o THEN {Linked(o, i) : i \in candidate[o]} ELSE candidate[q]
    BY <1>1, <1>11, LinkStep DEF TypeInv
  <2>2. /\ o \in Owners /\ home' = home /\ live' = live
        /\ \A i \in candidate[o] : \A f \in i.pending : Answerable(o, f)
    BY <1>11 DEF Links
  <2>3. \A i \in candidate[o] :
          LET l == Linked(o, i)
          IN /\ l.pending = {} /\ l.refs = i.refs \cup {Answer(o, f) : f \in i.pending}
             /\ l.states = i.states /\ l.binds = i.binds /\ l.exports = i.exports
    BY <1>1, <2>2, LinkedFacts DEF TypeInv
  <2> DEFINE T == {Linked(o, i) : i \in candidate[o]}
  <2>4. /\ \A t, a : Locates(candidate[o], t, a) => Locates(T, t, a)
        /\ \A i : ImageData(i, candidate[o]) => ImageData(i, T)
    <3>1. \A j \in candidate[o] : \E k \in T : k.states = j.states
      BY <2>3
    <3>2. QED
      BY <3>1, MoreStates
  <2>5. ASSUME NEW i \in candidate[o]
        PROVE  ImageData(Linked(o, i), T)
    <3> DEFINE l == Linked(o, i)
    <3>1. ImageData(i, candidate[o]) /\ ImageData(i, T)
      BY <1>1, <2>2, <2>4 DEF HomeInv
    <3>2. \A x \in Exports(o) : ExportsData(candidate[o], x)
      BY <1>1, <2>2 DEF HomeInv, ImageData, Exports
    <3>3. \A f \in i.pending : DataReaches(candidate[o], Answer(o, f))
      BY <2>2, <3>1, <3>2, AnswersReachData DEF ImageData
    <3>4. \A f \in i.pending : DataReaches(T, Answer(o, f))
      BY <2>4, <3>3 DEF DataReaches
    <3>5. \A r \in l.refs : DataReaches(T, r)
      BY <2>3, <3>1, <3>4 DEF ImageData
    <3>6. QED
      BY <2>3, <3>1, <3>5 DEF ImageData
  <2>6. candidate'[o] = T /\ \A i \in T : ImageData(i, T)
    BY <2>1, <2>2, <2>5
  <2>7. ASSUME NEW q \in Owners, q # o
        PROVE  candidate'[q] = candidate[q]
    BY <2>1, <2>7
  <2>8. Ready
    <3>1. ASSUME NEW q \in Owners, NEW i \in candidate'[q]
          PROVE  ImageData(i, candidate'[q])
      <4>1. CASE q = o
        <5> HIDE DEF T
        <5>1. QED
          BY <2>6, <3>1, <4>1
      <4>2. CASE q # o
        BY <1>1, <2>7, <3>1, <4>2 DEF HomeInv
      <4>3. QED
        BY <4>1, <4>2
    <3>2. QED
      BY <3>1
  <2>9. QED
    BY <1>6, <2>2, <2>8
<1>12. ASSUME Stays
       PROVE  Ready /\ Sound /\ Kept
  BY <1>1, <1>6, <1>12 DEF Stays, HomeInv
<1>13. Ready /\ Sound /\ Kept
  BY <1>1, <1>7, <1>8, <1>9, <1>10, <1>11, <1>12, StepCases
<1>14. QED
  BY <1>4, <1>5, <1>13 DEF HomeInv

\* Generations agree on the storage of every variable they define, whatever its name
\* is and whoever else has it, and the references of committed code to a variable
\* with a clear name reach its one home, in every generation (bind_state, the
\* relocation of loader::load, prepare_generation_commit).
THEOREM StateIsKeptAlways == Spec => []StateIsKept
<1>1. Init => TypeInv /\ HomeInv
  <2>1. Init => HomeInv
    BY DEF Init, HomeInv, HomesAreUnique
  <2>2. QED
    BY <2>1, TypeStarts
<1>2. TypeInv /\ HomeInv /\ [Next]_vars => (TypeInv /\ HomeInv)'
  BY TypeIsKept, DataIsKept
<1>3. TypeInv /\ HomeInv => BindingsAgree
  <2>1. SUFFICES ASSUME TypeInv, HomeInv, NEW i \in live, NEW j \in live,
                        NEW b \in i.binds, NEW c \in j.binds, b.identity = c.identity
                 PROVE  b.address = c.address
    BY DEF BindingsAgree
  <2>2. BindSound({}, b) /\ BindSound({}, c)
    BY <2>1 DEF HomeInv
  <2>3. CASE First("object", b.identity[2]) # {}
    BY <2>1, <2>2, <2>3, ProgramFacts DEF BindSound
  <2>4. CASE First("object", b.identity[2]) = {}
    <3>1. Stored({}, b.identity, b.address) /\ Stored({}, b.identity, c.address)
      BY <2>1, <2>2, <2>4 DEF BindSound
    <3>2. QED
      BY <2>1, <3>1 DEF Stored, HomeInv, HomesAreUnique
  <2>5. QED
    BY <2>3, <2>4
<1>4. TypeInv /\ HomeInv => ClearNamesReachHome
  <2>1. SUFFICES ASSUME TypeInv, HomeInv, NEW i \in live, NEW r \in i.refs,
                        r.kind = "object", r.way = "address", NameIsClear(r.thing)
                 PROVE  /\ \E h \in Homes(r.thing) : r.at = h + r.inner
                        /\ Cardinality(Homes(r.thing)) = 1
    BY DEF ClearNamesReachHome, AtHome
  <2>2. \E h \in Homes(r.thing) : r.at = h + r.inner
    <3>1. PICK a : Locates({}, r.thing, a) /\ r.at = a + r.inner
      BY <2>1 DEF HomeInv, DataReaches
    <3>2. a \in Homes(r.thing)
      BY <3>1 DEF Locates, Stored, Homes
    <3>3. QED
      BY <3>1, <3>2
  <2>3. PICK h \in Homes(r.thing) : r.at = h + r.inner
    BY <2>2
  <2>4. \A a \in Homes(r.thing) : a = h
    BY <2>1, OneHome DEF HomeInv
  <2>5. Homes(r.thing) = {h}
    BY <2>4
  <2>6. QED
    BY <2>2, <2>5, FS_Singleton
<1>5. TypeInv /\ HomeInv => StateIsKept
  BY <1>3, <1>4 DEF StateIsKept
<1>6. QED
  BY <1>1, <1>2, <1>5, PTL DEF Spec

-----------------------------------------------------------------------------
(* Entries that are redirected. *)

Leads(p, i) == \E b \in i.bodies : b.address = p[2] /\ p[1] \in EntryOf(b.thing)

RedirectInv ==
  /\ \A o \in Owners : \A i \in candidate[o] : \A p \in i.replaces : Leads(p, i)
  /\ RedirectsKeepIdentity

\* A fresh image replaces the entries of its own functions only.
LEMMA ReplacesItsOwn ==
  ASSUME TypeInv, NewFunctionsAreNoOthers(Programs, Objects), NEW obj \in Objects,
         NEW p \in Image(obj).replaces
  PROVE  Leads(p, Image(obj))
<1>1. PICK f \in Range(obj.functions) : \E d \in Replaced(f, obj.unit) :
        p = <<d.address, Base(obj) + f.offset>>
  BY DEF Image
<1>2. PICK d \in Replaced(f, obj.unit) : p = <<d.address, Base(obj) + f.offset>>
  BY <1>1
<1> DEFINE b == [thing |-> <<Scope(f.bind, obj.unit), f.name>>, address |-> Base(obj) + f.offset]
<1>3. b \in Image(obj).bodies
  BY DEF Image
<1>4. d.address \in EntryOf(b.thing)
  BY ReplacedFacts DEF EntryOf
<1>5. QED
  BY <1>2, <1>3, <1>4 DEF Leads

\* A commit keeps the images of the redirects it replaces and of those it leaves.
LEMMA RedirectsAreKept ==
  ASSUME NewFunctionsAreNoOthers(Programs, Objects)
  PROVE  TypeInv /\ RedirectInv /\ [Next]_vars => RedirectInv'
<1>1. SUFFICES ASSUME TypeInv, RedirectInv, [Next]_vars
               PROVE  RedirectInv'
  OBVIOUS
<1>2. \A p, i : Leads(p, i)' <=> Leads(p, i)
  <2>1. program' = program
    BY <1>1, StepCases
  <2>2. QED
    BY <2>1 DEF Leads, EntryOf, Defining, Exported
<1> DEFINE Ready == \A o \in Owners : \A i \in candidate'[o] : \A p \in i.replaces : Leads(p, i)
           Kept == \A p \in target' : \E i \in live' : Leads(p, i)
<1>3. \A p \in target : \E i \in live : Leads(p, i)
  BY <1>1 DEF RedirectInv, RedirectsKeepIdentity, Leads
<1>4. ASSUME NEW o, NEW obj, Loads(o, obj)
      PROVE  Ready /\ Kept
  <2>1. \A p \in Image(obj).replaces : Leads(p, Image(obj))
    BY <1>1, <1>4, ReplacesItsOwn DEF Loads
  <2>2. \A q \in Owners : candidate'[q] \subseteq candidate[q] \cup {Image(obj)}
    BY <1>1, <1>4, LoadStep DEF TypeInv
  <2>3. QED
    BY <1>1, <1>3, <1>4, <2>1, <2>2 DEF RedirectInv, Loads
<1>5. ASSUME NEW o, Drops(o) \/ Commits(o)
      PROVE  Ready
  <2>1. \A q \in Owners : candidate'[q] \subseteq candidate[q]
    BY <1>1, <1>5, EndStep DEF TypeInv
  <2>2. QED
    BY <1>1, <2>1 DEF RedirectInv
<1>6. ASSUME NEW o, Drops(o)
      PROVE  Kept
  BY <1>3, <1>6 DEF Drops
<1>7. ASSUME NEW o, Commits(o)
      PROVE  Kept
  BY <1>1, <1>3, <1>7 DEF Commits, NewTargets, RedirectInv
<1>8. ASSUME NEW o, Links(o)
      PROVE  Ready /\ Kept
  <2>1. ASSUME NEW q \in Owners, NEW i \in candidate'[q], NEW p \in i.replaces
        PROVE  Leads(p, i)
    <3>1. i \in candidate[q] \/ \E k \in candidate[q] : i = Linked(o, k)
      BY <1>1, <1>8, LinkStep DEF TypeInv
    <3>2. \E k \in candidate[q] : i.replaces = k.replaces /\ i.bodies = k.bodies
      BY <1>1, <3>1, LinkedFacts DEF TypeInv
    <3>3. QED
      BY <1>1, <3>2 DEF RedirectInv, Leads
  <2>2. QED
    BY <1>3, <1>8, <2>1 DEF Links
<1>9. Ready /\ Kept
  BY <1>1, <1>3, <1>4, <1>5, <1>6, <1>7, <1>8, StepCases DEF Stays, RedirectInv
<1>10. QED
  BY <1>2, <1>9 DEF RedirectInv, RedirectsKeepIdentity, Leads

\* An entry of the program is only ever redirected to a committed body of the
\* same function, of the same translation unit when it is file-static
\* (loader::load, `replaces'), for programs and objects in which no external
\* function has the name of a file-static one or of an external variable.
THEOREM RedirectsKeepIdentityAlways ==
  ASSUME NewFunctionsAreNoOthers(Programs, Objects)
  PROVE  Spec => []RedirectsKeepIdentity
<1>1. Init => TypeInv /\ RedirectInv
  <2>1. Init => RedirectInv
    BY DEF Init, RedirectInv, RedirectsKeepIdentity
  <2>2. QED
    BY <2>1, TypeStarts
<1>2. TypeInv /\ RedirectInv /\ [Next]_vars => (TypeInv /\ RedirectInv)'
  BY TypeIsKept, RedirectsAreKept
<1>3. RedirectInv => RedirectsKeepIdentity
  BY DEF RedirectInv
<1>4. QED
  BY <1>1, <1>2, <1>3, PTL DEF Spec
=============================================================================
