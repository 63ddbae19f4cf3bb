--------------------------- MODULE MonitorProofs ---------------------------
(***************************************************************************)
(* Proofs about Monitor, for any capacity, height and bounds: the screen   *)
(* is what the renderer takes it for, and the log pane is current.         *)
(***************************************************************************)
EXTENDS Monitor, SequenceTheorems, TLAPS

-----------------------------------------------------------------------------
(* The inductive invariants. *)

Calls == [kind : Kinds, from : Origins, outcome : Nat]
Snapshots == [applied : Nat, rejected : Nat, last : Nat, from : Origins]
Views == [lines : Seq(Line), offset : Nat, selecting : BOOLEAN]

\* The types of everything that the log depends on, and of the surroundings.
TypeOK ==
  /\ host \in {"working", "safe", "closing", "gone"}
  /\ call \in [Threads -> Calls]
  /\ lock \in Threads \cup {None}
  /\ session \in Snapshots
  /\ made \in Nat
  /\ overlap \in BOOLEAN /\ fatal \in BOOLEAN
  /\ place \in Placements /\ stalled \in BOOLEAN
  /\ shown \in [Kinds -> Nat]
  /\ pending \in Seq(Line)
  /\ view \in Views
  /\ written \in Nat
  /\ newest \in Seq(Line)
  /\ told \in Nat

\* The queue is bounded: queue_log drops a line only when it holds Cap of them.
QueueIsBounded == Len(pending) <= Cap

LogInv == QueueIsBounded /\ NewestLinesAreKept

\* The host records an outcome only at its safe point, and holds worker_mutex_
\* exactly while it records a managed one; so does the render thread.
CallsHoldTheLock ==
  /\ call["host"] # Idle => host = "safe"
  /\ \A t \in Threads : (call[t] # Idle /\ call[t].from = "managed") <=> lock = t

\* The panel has not counted what the session has not.
ShownIsPast == \A k \in Kinds : shown[k] <= session[k]

\* A managed outcome that is being recorded is in its counter, and the panel
\* has not seen that counter.
RecordedIsUnseen ==
  (~overlap /\ lock # None) => shown[call[lock].kind] < session[call[lock].kind]

\* A managed result that the panel has not told shows in a counter.
UntoldIsUnseen ==
  (~overlap /\ session.from = "managed" /\ session.last \notin {0, told}) =>
    \E k \in Kinds : shown[k] < session[k]

OutcomeInv == CallsHoldTheLock /\ ShownIsPast /\ RecordedIsUnseen /\ UntoldIsUnseen

-----------------------------------------------------------------------------
(* The newest lines of a log. *)

\* LastOf keeps the end of a sequence.
LEMMA LastOfProperties ==
  ASSUME NEW S, NEW s \in Seq(S), NEW n \in Nat
  PROVE  /\ LastOf(n, s) \in Seq(S)
         /\ Len(LastOf(n, s)) = Smaller(n, Len(s))
         /\ \A i \in 1..Smaller(n, Len(s)) :
              LastOf(n, s)[i] = s[Len(s) - Smaller(n, Len(s)) + i]
<1> DEFINE k == Smaller(n, Len(s))
<1>1. Len(s) \in Nat /\ k \in 0..Len(s)
  BY DEF Smaller
<1>2. \A i \in (Len(s) - k + 1)..Len(s) : s[i] \in S
  BY <1>1
<1>3. /\ SubSeq(s, Len(s) - k + 1, Len(s)) \in Seq(S)
      /\ Len(SubSeq(s, Len(s) - k + 1, Len(s))) =
           IF Len(s) - k + 1 <= Len(s) THEN Len(s) - (Len(s) - k + 1) + 1 ELSE 0
      /\ \A i \in 1..(Len(s) - (Len(s) - k + 1) + 1) :
           SubSeq(s, Len(s) - k + 1, Len(s))[i] = s[(Len(s) - k + 1) + i - 1]
  <2>1. Len(s) - k + 1 \in Int /\ Len(s) \in Int
    BY <1>1
  <2> HIDE DEF k
  <2> QED
    BY <2>1, <1>2, SubSeqProperties
<1>4. LastOf(n, s) = SubSeq(s, Len(s) - k + 1, Len(s))
  BY DEF LastOf
<1> HIDE DEF k
<1>5. \A i \in 1..k : LastOf(n, s)[i] = s[Len(s) - k + i]
  BY <1>1, <1>3, <1>4
<1> QED
  BY <1>1, <1>3, <1>4, <1>5 DEF k

\* The same, when the length is known by another name.
LEMMA LastOfLength ==
  ASSUME NEW S, NEW s \in Seq(S), NEW n \in Nat,
         NEW l, Len(s) = l, NEW m, Smaller(n, l) = m
  PROVE  /\ LastOf(n, s) \in Seq(S) /\ Len(LastOf(n, s)) = m
         /\ \A i \in 1..m : LastOf(n, s)[i] = s[l - m + i]
BY LastOfProperties

\* What a sequence ends with does not depend on what was cut off before.
LEMMA LastOfCut ==
  ASSUME NEW S, NEW s \in Seq(S), NEW t \in Seq(S), NEW n \in Nat
  PROVE  LastOf(n, LastOf(n, s) \o t) = LastOf(n, s \o t)
<1> DEFINE c == LastOf(n, s)
           k == Smaller(n, Len(s))
           m == Smaller(n, Len(s) + Len(t))
<1>1. /\ c \in Seq(S) /\ Len(c) = k
      /\ \A i \in 1..k : c[i] = s[Len(s) - k + i]
  BY LastOfProperties
<1>2. Len(s) \in Nat /\ Len(t) \in Nat /\ k \in Nat /\ m \in Nat
  BY DEF Smaller
<1> HIDE DEF c
<1>3. /\ c \o t \in Seq(S) /\ Len(c \o t) = k + Len(t)
      /\ \A i \in 1..(k + Len(t)) : (c \o t)[i] = IF i <= k THEN c[i] ELSE t[i - k]
  BY <1>1, ConcatProperties
<1>4. /\ s \o t \in Seq(S) /\ Len(s \o t) = Len(s) + Len(t)
      /\ \A i \in 1..(Len(s) + Len(t)) :
           (s \o t)[i] = IF i <= Len(s) THEN s[i] ELSE t[i - Len(s)]
  BY ConcatProperties
<1>5. Smaller(n, k + Len(t)) = m
  BY <1>2 DEF Smaller
<1>6. /\ LastOf(n, c \o t) \in Seq(S) /\ Len(LastOf(n, c \o t)) = m
      /\ \A i \in 1..m : LastOf(n, c \o t)[i] = (c \o t)[k + Len(t) - m + i]
  <2> HIDE DEF k, m
  <2> DEFINE u == c \o t
  <2>2. u \in Seq(S) /\ Len(u) = k + Len(t)
    BY <1>3
  <2> HIDE DEF u
  <2>3. /\ LastOf(n, u) \in Seq(S) /\ Len(LastOf(n, u)) = m
        /\ \A i \in 1..m : LastOf(n, u)[i] = u[k + Len(t) - m + i]
    <3>1. Smaller(n, Len(u)) = m
      BY <1>5, <2>2
    <3>2. /\ LastOf(n, u) \in Seq(S) /\ Len(LastOf(n, u)) = m
          /\ \A i \in 1..m : LastOf(n, u)[i] = u[Len(u) - m + i]
      BY <2>2, <3>1, LastOfProperties
    <3> QED
      BY <1>2, <2>2, <3>2
  <2> QED
    BY <2>3 DEF u
<1>7. /\ LastOf(n, s \o t) \in Seq(S) /\ Len(LastOf(n, s \o t)) = m
      /\ \A i \in 1..m : LastOf(n, s \o t)[i] = (s \o t)[Len(s) + Len(t) - m + i]
  <2>1. Smaller(n, Len(s) + Len(t)) = m
    OBVIOUS
  <2> HIDE DEF m
  <2> DEFINE u == s \o t
  <2>2. u \in Seq(S) /\ Len(u) = Len(s) + Len(t)
    BY <1>4
  <2> HIDE DEF u
  <2>3. /\ LastOf(n, u) \in Seq(S) /\ Len(LastOf(n, u)) = m
        /\ \A i \in 1..m : LastOf(n, u)[i] = u[Len(s) + Len(t) - m + i]
    BY <2>2, <2>1, LastOfLength
  <2> QED
    BY <2>3 DEF u
<1>8. k <= Len(s) /\ m <= k + Len(t)
  BY <1>2 DEF Smaller
<1> HIDE DEF k, m
<1>9. ASSUME NEW i \in 1..m
      PROVE  LastOf(n, c \o t)[i] = LastOf(n, s \o t)[i]
  <2> DEFINE j == k + Len(t) - m + i
  <2>1. j \in 1..(k + Len(t)) /\ Len(s) + Len(t) - m + i = j + Len(s) - k
    BY <1>2, <1>8
  <2>2. LastOf(n, c \o t)[i] = (c \o t)[j] /\ LastOf(n, s \o t)[i] = (s \o t)[j + Len(s) - k]
    BY <1>6, <1>7, <2>1
  <2>3. j + Len(s) - k \in 1..(Len(s) + Len(t))
    BY <1>2, <1>8, <2>1
  <2> HIDE DEF j
  <2>4. CASE j <= k
    <3>1. (c \o t)[j] = c[j] /\ c[j] = s[Len(s) - k + j]
      BY <1>1, <1>2, <1>3, <2>1, <2>4
    <3>2. (s \o t)[j + Len(s) - k] = s[j + Len(s) - k]
      BY <1>2, <1>4, <1>8, <2>1, <2>3, <2>4
    <3>3. Len(s) - k + j = j + Len(s) - k
      BY <1>2, <2>1
    <3> QED
      BY <2>2, <3>1, <3>2, <3>3
  <2>5. CASE ~(j <= k)
    <3>1. (c \o t)[j] = t[j - k]
      BY <1>3, <2>1, <2>5
    <3>2. (s \o t)[j + Len(s) - k] = t[j + Len(s) - k - Len(s)]
      BY <1>2, <1>4, <1>8, <2>1, <2>3, <2>5
    <3>3. j + Len(s) - k - Len(s) = j - k
      BY <1>2, <2>1
    <3> QED
      BY <2>2, <3>1, <3>2, <3>3
  <2> QED
    BY <2>4, <2>5
<1>10. LastOf(n, c \o t) = LastOf(n, s \o t)
  BY <1>6, <1>7, <1>9, SeqEqual
<1> QED
  BY <1>10 DEF c

\* Nor on what was cut off in its middle, as long as enough is left behind it.
LEMMA LastOfTail ==
  ASSUME NEW S, NEW s \in Seq(S), NEW t \in Seq(S), NEW n \in Nat
  PROVE  LastOf(n, s \o LastOf(n, t)) = LastOf(n, s \o t)
<1> DEFINE c == LastOf(n, t)
           k == Smaller(n, Len(t))
           m == Smaller(n, Len(s) + Len(t))
<1>1. /\ c \in Seq(S) /\ Len(c) = k
      /\ \A i \in 1..k : c[i] = t[Len(t) - k + i]
  BY LastOfProperties
<1>2. Len(s) \in Nat /\ Len(t) \in Nat /\ k \in Nat /\ m \in Nat
  BY DEF Smaller
<1> HIDE DEF c
<1>3. /\ s \o c \in Seq(S) /\ Len(s \o c) = Len(s) + k
      /\ \A i \in 1..(Len(s) + k) : (s \o c)[i] = IF i <= Len(s) THEN s[i] ELSE c[i - Len(s)]
  BY <1>1, ConcatProperties
<1>4. /\ s \o t \in Seq(S) /\ Len(s \o t) = Len(s) + Len(t)
      /\ \A i \in 1..(Len(s) + Len(t)) :
           (s \o t)[i] = IF i <= Len(s) THEN s[i] ELSE t[i - Len(s)]
  BY ConcatProperties
<1>5. Smaller(n, Len(s) + k) = m
  BY <1>2 DEF Smaller
<1>6. /\ LastOf(n, s \o c) \in Seq(S) /\ Len(LastOf(n, s \o c)) = m
      /\ \A i \in 1..m : LastOf(n, s \o c)[i] = (s \o c)[Len(s) + k - m + i]
  <2> HIDE DEF k, m
  <2> DEFINE u == s \o c
  <2>2. u \in Seq(S) /\ Len(u) = Len(s) + k
    BY <1>3
  <2> HIDE DEF u
  <2>3. /\ LastOf(n, u) \in Seq(S) /\ Len(LastOf(n, u)) = m
        /\ \A i \in 1..m : LastOf(n, u)[i] = u[Len(s) + k - m + i]
    <3>1. Smaller(n, Len(u)) = m
      BY <1>5, <2>2
    <3>2. /\ LastOf(n, u) \in Seq(S) /\ Len(LastOf(n, u)) = m
          /\ \A i \in 1..m : LastOf(n, u)[i] = u[Len(u) - m + i]
      BY <2>2, <3>1, LastOfProperties
    <3> QED
      BY <1>2, <2>2, <3>2
  <2> QED
    BY <2>3 DEF u
<1>7. /\ LastOf(n, s \o t) \in Seq(S) /\ Len(LastOf(n, s \o t)) = m
      /\ \A i \in 1..m : LastOf(n, s \o t)[i] = (s \o t)[Len(s) + Len(t) - m + i]
  <2>1. Smaller(n, Len(s) + Len(t)) = m
    OBVIOUS
  <2> HIDE DEF m
  <2> DEFINE u == s \o t
  <2>2. u \in Seq(S) /\ Len(u) = Len(s) + Len(t)
    BY <1>4
  <2> HIDE DEF u
  <2>3. /\ LastOf(n, u) \in Seq(S) /\ Len(LastOf(n, u)) = m
        /\ \A i \in 1..m : LastOf(n, u)[i] = u[Len(s) + Len(t) - m + i]
    BY <2>2, <2>1, LastOfLength
  <2> QED
    BY <2>3 DEF u
<1>8. k <= Len(t) /\ m <= Len(s) + k /\ (k = Len(t) \/ m = k)
  BY <1>2 DEF Smaller
<1> HIDE DEF k, m
<1>9. ASSUME NEW i \in 1..m
      PROVE  LastOf(n, s \o c)[i] = LastOf(n, s \o t)[i]
  <2> DEFINE j == Len(s) + k - m + i
  <2>1. j \in 1..(Len(s) + k) /\ Len(s) + Len(t) - m + i = j + Len(t) - k
    BY <1>2, <1>8
  <2>2. LastOf(n, s \o c)[i] = (s \o c)[j] /\ LastOf(n, s \o t)[i] = (s \o t)[j + Len(t) - k]
    BY <1>6, <1>7, <2>1
  <2>3. j + Len(t) - k \in 1..(Len(s) + Len(t))
    BY <1>2, <1>8, <2>1
  <2>4. j <= Len(s) => k = Len(t)
    BY <1>2, <1>8
  <2> HIDE DEF j
  <2>5. CASE j <= Len(s)
    BY <1>2, <1>3, <1>4, <2>1, <2>2, <2>3, <2>4, <2>5
  <2>6. CASE ~(j <= Len(s))
    <3>1. (s \o c)[j] = c[j - Len(s)] /\ c[j - Len(s)] = t[Len(t) - k + (j - Len(s))]
      BY <1>1, <1>2, <1>3, <2>1, <2>6
    <3>2. (s \o t)[j + Len(t) - k] = t[j + Len(t) - k - Len(s)]
      BY <1>2, <1>4, <1>8, <2>1, <2>3, <2>6
    <3>3. Len(t) - k + (j - Len(s)) = j + Len(t) - k - Len(s)
      BY <1>2, <2>1
    <3> QED
      BY <2>2, <3>1, <3>2, <3>3
  <2> QED
    BY <2>5, <2>6
<1>10. LastOf(n, s \o c) = LastOf(n, s \o t)
  BY <1>6, <1>7, <1>9, SeqEqual
<1> QED
  BY <1>10 DEF c

-----------------------------------------------------------------------------
(* The log queue. *)

\* queue_log keeps the newest Cap lines, as long as there were no more before.
LEMMA QueuedIsNewest ==
  ASSUME NEW q \in Seq(Line), NEW line \in Line, Len(q) <= Cap
  PROVE  /\ Queued(q, line) \in Seq(Line)
         /\ Len(Queued(q, line)) <= Cap
         /\ Queued(q, line) = LastOf(Cap, q \o <<line>>)
<1> DEFINE s == q \o <<line>>
           n == Smaller(Cap, Len(q) + 1)
<1>1. Cap \in Nat \ {0} /\ Len(q) \in Nat
  BY CapacitiesArePositive
<1>2. s \in Seq(Line) /\ s = Append(q, line) /\ Len(s) = Len(q) + 1
  BY AppendProperties, AppendIsConcat
<1>3. \A i \in 1..(Len(q) + 1) : s[i] = IF i <= Len(q) THEN q[i] ELSE line
  BY <1>1, <1>2, AppendProperties
<1>4. n \in Nat
  BY <1>1 DEF Smaller
<1> HIDE DEF s
<1>5. /\ LastOf(Cap, s) \in Seq(Line) /\ Len(LastOf(Cap, s)) = n
      /\ \A i \in 1..n : LastOf(Cap, s)[i] = s[Len(q) + 1 - n + i]
  <2>1. Smaller(Cap, Len(s)) = n
    BY <1>2
  <2> HIDE DEF n
  <2>2. /\ LastOf(Cap, s) \in Seq(Line) /\ Len(LastOf(Cap, s)) = n
        /\ \A i \in 1..n : LastOf(Cap, s)[i] = s[Len(s) - n + i]
    BY <1>1, <1>2, <2>1, LastOfProperties
  <2>3. Len(s) = Len(q) + 1
    BY <1>2
  <2> QED
    BY <1>1, <1>4, <2>2, <2>3
<1>6. CASE Len(q) >= Cap
  <2>1. q # <<>> /\ Len(q) = Cap /\ n = Cap
    BY <1>1, <1>6 DEF Smaller
  <2>2. /\ Tail(q) \in Seq(Line) /\ Len(Tail(q)) = Cap - 1
        /\ \A i \in 1..(Cap - 1) : Tail(q)[i] = q[i + 1]
    BY <1>1, <2>1, HeadTailProperties
  <2>3. Queued(q, line) = Append(Tail(q), line)
    BY <1>6 DEF Queued
  <2>4. /\ Queued(q, line) \in Seq(Line) /\ Len(Queued(q, line)) = Cap
        /\ \A i \in 1..(Cap - 1) : Queued(q, line)[i] = q[i + 1]
        /\ Queued(q, line)[Cap] = line
    BY <1>1, <2>2, <2>3, AppendProperties
  <2>5. ASSUME NEW i \in 1..Cap
        PROVE  Queued(q, line)[i] = LastOf(Cap, s)[i]
    BY <1>1, <1>3, <1>5, <2>1, <2>4
  <2> HIDE DEF n
  <2>6. Queued(q, line) = LastOf(Cap, s)
    BY <1>5, <2>1, <2>4, <2>5, SeqEqual
  <2> QED
    BY <1>1, <2>4, <2>6 DEF s
<1>7. CASE ~(Len(q) >= Cap)
  <2>1. n = Len(q) + 1
    BY <1>1, <1>7 DEF Smaller
  <2>2. Queued(q, line) = s
    BY <1>2, <1>7 DEF Queued
  <2> HIDE DEF n
  <2>3. \A i \in 1..Len(s) : LastOf(Cap, s)[i] = s[i]
    BY <1>1, <1>2, <1>5, <2>1
  <2>4. LastOf(Cap, s) = s
    BY <1>2, <1>5, <2>1, <2>3, SeqEqual
  <2> QED
    BY <1>1, <1>2, <1>7, <2>2, <2>4 DEF s
<1> QED
  BY <1>6, <1>7

\* Of what is in the pane and what is held back, the newest Cap lines are the
\* same whether a line was queued or put behind all of them.
LEMMA QueuedKeepsNewest ==
  ASSUME NEW v \in Seq(Line), NEW q \in Seq(Line), NEW line \in Line, Len(q) <= Cap
  PROVE  LastOf(Cap, v \o Queued(q, line)) = LastOf(Cap, (v \o q) \o <<line>>)
<1>1. Cap \in Nat
  BY CapacitiesArePositive
<1>2. <<line>> \in Seq(Line) /\ q \o <<line>> \in Seq(Line)
  BY ConcatProperties
<1>3. LastOf(Cap, v \o LastOf(Cap, q \o <<line>>)) = LastOf(Cap, v \o (q \o <<line>>))
  BY <1>1, <1>2, LastOfTail
<1>4. v \o (q \o <<line>>) = (v \o q) \o <<line>>
  BY <1>2, ConcatAssociative
<1> QED
  BY <1>3, <1>4, QueuedIsNewest

\* The lines of a snapshot are lines.
LEMMA NewsType ==
  ASSUME NEW s \in Snapshots, NEW k \in Kinds
  PROVE  /\ NewsOf(s, k) \in Seq(Line)
         /\ NewsOf(s, k) # <<>> =>
              NewsOf(s, k)[1] \in Line /\ NewsOf(s, k) = <<NewsOf(s, k)[1]>>
<1>1. [label |-> k, tells |-> s.last] \in Line
  BY DEF Snapshots, Line
<1>2. CASE s[k] > shown[k]
  BY <1>1, <1>2 DEF NewsOf
<1>3. CASE ~(s[k] > shown[k])
  BY <1>3 DEF NewsOf
<1> QED
  BY <1>2, <1>3

\* A counter that rose is queued like a line of the host.
LEMMA QueuedNewsKeepsNewest ==
  ASSUME NEW v \in Seq(Line), NEW q \in Seq(Line), Len(q) <= Cap,
         NEW s \in Snapshots, NEW k \in Kinds
  PROVE  /\ QueuedNews(q, s, k) \in Seq(Line)
         /\ Len(QueuedNews(q, s, k)) <= Cap
         /\ LastOf(Cap, v \o QueuedNews(q, s, k)) = LastOf(Cap, (v \o q) \o NewsOf(s, k))
<1>1. NewsOf(s, k) \in Seq(Line) /\ v \o q \in Seq(Line)
  BY NewsType, ConcatProperties
<1>2. CASE NewsOf(s, k) = <<>>
  <2>1. (v \o q) \o NewsOf(s, k) = v \o q
    BY <1>1, <1>2, ConcatEmptySeq
  <2> QED
    BY <1>2, <2>1 DEF QueuedNews
<1>3. CASE NewsOf(s, k) # <<>>
  <2> DEFINE line == NewsOf(s, k)[1]
  <2>1. line \in Line /\ NewsOf(s, k) = <<line>>
    BY <1>3, NewsType
  <2>2. QueuedNews(q, s, k) = Queued(q, line)
    BY <1>3 DEF QueuedNews
  <2> HIDE DEF line
  <2>3. Queued(q, line) \in Seq(Line) /\ Len(Queued(q, line)) <= Cap
    BY <2>1, QueuedIsNewest
  <2>4. LastOf(Cap, v \o Queued(q, line)) = LastOf(Cap, (v \o q) \o <<line>>)
    BY <2>1, QueuedKeepsNewest
  <2> QED
    BY <2>1, <2>2, <2>3, <2>4
<1> QED
  BY <1>2, <1>3

\* So is everything a snapshot tells.
LEMMA QueuedToldKeepsNewest ==
  ASSUME NEW v \in Seq(Line), NEW q \in Seq(Line), Len(q) <= Cap, NEW s \in Snapshots
  PROVE  /\ Told(s) \in Seq(Line)
         /\ QueuedTold(q, s) \in Seq(Line)
         /\ Len(QueuedTold(q, s)) <= Cap
         /\ LastOf(Cap, v \o QueuedTold(q, s)) = LastOf(Cap, (v \o q) \o Told(s))
<1> DEFINE a == NewsOf(s, "applied")
           r == NewsOf(s, "rejected")
           p == QueuedNews(q, s, "applied")
<1>1. Cap \in Nat /\ "applied" \in Kinds /\ "rejected" \in Kinds
  BY CapacitiesArePositive DEF Kinds
<1>2. a \in Seq(Line) /\ r \in Seq(Line)
  BY <1>1, NewsType
<1>3. /\ p \in Seq(Line) /\ Len(p) <= Cap
      /\ LastOf(Cap, v \o p) = LastOf(Cap, (v \o q) \o a)
  BY <1>1, QueuedNewsKeepsNewest
<1>4. QueuedTold(q, s) = QueuedNews(p, s, "rejected") /\ Told(s) = a \o r
  BY DEF QueuedTold, Told
<1> HIDE DEF a, r, p
<1>5. /\ QueuedTold(q, s) \in Seq(Line) /\ Len(QueuedTold(q, s)) <= Cap
      /\ LastOf(Cap, v \o QueuedTold(q, s)) = LastOf(Cap, (v \o p) \o r)
  BY <1>1, <1>3, <1>4, QueuedNewsKeepsNewest DEF r
<1>6. v \o p \in Seq(Line) /\ v \o q \in Seq(Line) /\ (v \o q) \o a \in Seq(Line)
      /\ a \o r \in Seq(Line)
  BY <1>2, <1>3, ConcatProperties
<1>7. LastOf(Cap, (v \o p) \o r) = LastOf(Cap, LastOf(Cap, v \o p) \o r)
  BY <1>1, <1>2, <1>6, LastOfCut
<1>8. LastOf(Cap, LastOf(Cap, (v \o q) \o a) \o r) = LastOf(Cap, ((v \o q) \o a) \o r)
  BY <1>1, <1>2, <1>6, LastOfCut
<1>9. ((v \o q) \o a) \o r = (v \o q) \o (a \o r)
  <2> DEFINE u == v \o q
  <2>1. u \in Seq(Line)
    BY <1>6
  <2> HIDE DEF u
  <2>2. (u \o a) \o r = u \o (a \o r)
    BY <1>2, <2>1, ConcatAssociative
  <2>3. QED
    BY <2>2 DEF u
<1> QED
  BY <1>3, <1>4, <1>5, <1>6, <1>7, <1>8, <1>9

-----------------------------------------------------------------------------
(* Type correctness. *)

\* A call that counts an outcome: which one it is, and what it may change.
LEMMA CountOutcomeEffect ==
  ASSUME TypeOK, NEW t \in Threads, CountOutcome(t)
  PROVE  /\ made' \in Nat /\ overlap' \in BOOLEAN /\ fatal' = fatal
         /\ session' \in Snapshots
         /\ session'.last = session.last /\ session'.from = session.from
         /\ \A k \in Kinds : session[k] <= session'[k]
         /\ \E c \in Calls :
              /\ c # Idle
              /\ call' = [call EXCEPT ![t] = c]
              /\ c.from = "managed" => lock = None
              /\ lock' = IF c.from = "managed" THEN t ELSE lock
              /\ ~overlap' => session'[c.kind] = session[c.kind] + 1
<1>1. PICK kind \in Kinds, from \in Origins :
        /\ from = "managed" => lock = None
        /\ lock' = IF from = "managed" THEN t ELSE lock
        /\ call' = [call EXCEPT ![t] = [kind |-> kind, from |-> from, outcome |-> made + 1]]
        /\ \/ session' = [session EXCEPT ![kind] = @ + 1]
           \/ /\ \E u \in Threads \ {t} : call[u] # Idle /\ call[u].kind = kind
              /\ session' = session
  BY DEF CountOutcome
<1>2. fatal' = fatal /\ made' = made + 1 /\ overlap' = (overlap \/ \E u \in Threads \ {t} : call[u] # Idle)
  BY DEF CountOutcome
<1>3. made' \in Nat /\ overlap' \in BOOLEAN
  BY <1>2 DEF TypeOK
<1>4. /\ session' \in Snapshots
      /\ session'.last = session.last /\ session'.from = session.from
      /\ \A k \in Kinds : session[k] <= session'[k]
      /\ session' # session => session'[kind] = session[kind] + 1
  <2>1. CASE session' = session
    BY <2>1 DEF TypeOK, Snapshots, Kinds
  <2>2. CASE session' = [session EXCEPT ![kind] = @ + 1]
    <3>1. CASE kind = "applied"
      BY <2>2, <3>1 DEF TypeOK, Snapshots, Kinds
    <3>2. CASE kind = "rejected"
      BY <2>2, <3>2 DEF TypeOK, Snapshots, Kinds
    <3> QED
      BY <3>1, <3>2 DEF Kinds
  <2> QED
    BY <1>1, <2>1, <2>2
<1>5. ~overlap' => session'[kind] = session[kind] + 1
  <2>1. CASE session' = [session EXCEPT ![kind] = @ + 1]
    BY <2>1 DEF TypeOK, Snapshots, Kinds
  <2>2. CASE \E u \in Threads \ {t} : call[u] # Idle /\ call[u].kind = kind
    BY <1>2, <2>2
  <2> QED
    BY <1>1, <2>1, <2>2
<1> DEFINE c == [kind |-> kind, from |-> from, outcome |-> made + 1]
<1>6. c \in Calls /\ c # Idle /\ c.from = from /\ c.kind = kind
  <2>1. c.outcome # 0 /\ Idle.outcome = 0
    BY DEF TypeOK, Idle
  <2> QED
    BY <2>1 DEF Calls, TypeOK
<1>7. call' = [call EXCEPT ![t] = c]
  BY <1>1
<1> HIDE DEF c
<1> QED
  BY <1>1, <1>2, <1>3, <1>4, <1>5, <1>6, <1>7

\* The initial values have their types.
LEMMA TypeInit == Init => TypeOK
<1> SUFFICES ASSUME Init PROVE TypeOK
  OBVIOUS
<1>1. Idle \in Calls /\ NoStats \in Snapshots
  BY DEF Idle, Calls, Kinds, Origins, NoStats, Snapshots
<1>2. [lines |-> <<>>, offset |-> 0, selecting |-> FALSE] \in Views
  BY EmptySeq DEF Views
<1> QED
  BY <1>1, <1>2, EmptySeq DEF Init, TypeOK

\* Keys and the mouse leave the lines of the pane alone, and scrolling stays
\* within them.
LEMMA ViewEventEffect ==
  ASSUME TypeOK, NEW e \in Events, ViewEvent(e)
  PROVE  view' \in Views /\ view'.lines = view.lines
<1>1. Len(view.lines) \in Nat /\ view \in Views
  BY DEF TypeOK, Views
<1>2. ASSUME NEW up \in BOOLEAN, NEW n \in Nat
      PROVE  Scrolled(up, n) \in Nat
  <2>1. Highest \in Nat
    BY <1>1, CapacitiesArePositive DEF Highest
  <2> QED
    BY <1>1, <2>1 DEF Scrolled, Smaller, Views
<1>3. ASSUME NEW o \in Nat
      PROVE  [view EXCEPT !.offset = o] \in Views /\ [view EXCEPT !.offset = o].lines = view.lines
  BY <1>1 DEF Views
<1>4. ASSUME NEW b \in BOOLEAN
      PROVE  [view EXCEPT !.selecting = b] \in Views
             /\ [view EXCEPT !.selecting = b].lines = view.lines
  BY <1>1 DEF Views
<1>5. CASE Wheel(e = "wheel up")
  BY <1>1, <1>2, <1>3, <1>5 DEF Wheel
<1>6. CASE Press
  BY <1>1, <1>4, <1>6 DEF Press
<1>7. CASE Drag(e)
  BY <1>1, <1>2, <1>3, <1>7 DEF Drag
<1>8. CASE CopySelection
  BY <1>1, <1>4, <1>8 DEF CopySelection
<1> QED
  BY <1>5, <1>6, <1>7, <1>8 DEF ViewEvent

\* A dispatched event calls update(), closes the panel or moves the view.
LEMMA DispatchEffect ==
  ASSUME TypeOK, NEW e \in Events, Dispatch(e)
  PROVE  /\ view' \in Views /\ view'.lines = view.lines
         /\ UNCHANGED calls \/ CountOutcome("render")
<1>1. view \in Views
  BY DEF TypeOK
<1>2. CASE ViewEvent(e) /\ UNCHANGED calls
  BY <1>2, ViewEventEffect
<1>3. CASE Escape /\ UNCHANGED calls
  BY <1>1, <1>3 DEF Escape, Views
<1>4. CASE UNCHANGED <<view, calls>>
  BY <1>1, <1>4
<1>5. CASE CountOutcome("render") /\ UNCHANGED <<view, running>>
  BY <1>1, <1>5
<1> QED
  BY <1>2, <1>3, <1>4, <1>5 DEF Dispatch

\* Every step keeps the types.
LEMMA TypeNext == TypeOK /\ [Next]_vars => TypeOK'
<1> SUFFICES ASSUME TypeOK, [Next]_vars PROVE TypeOK'
  OBVIOUS
<1>1. CASE LogLine
  <2> DEFINE line == [label |-> "app", tells |-> written + 1]
  <2>1. line \in Line /\ written' = written + 1
    BY <1>1 DEF LogLine, Line, TypeOK
  <2>2. pending' = Queued(pending, line) /\ newest' = LastOf(Cap, Append(newest, line))
    BY <1>1 DEF LogLine
  <2> HIDE DEF line
  <2>3. pending' \in Seq(Line)
    <3>1. Tail(pending) \in Seq(Line) \/ pending = <<>>
      BY HeadTailProperties DEF TypeOK
    <3>2. Len(pending) >= Cap => pending # <<>>
      BY CapacitiesArePositive
    <3> QED
      BY <2>1, <2>2, <3>1, <3>2, AppendProperties DEF Queued, TypeOK
  <2>4. Append(newest, line) \in Seq(Line)
    BY <2>1, AppendProperties DEF TypeOK
  <2>5. newest' \in Seq(Line)
    BY <2>2, <2>4, CapacitiesArePositive, LastOfProperties
  <2> QED
    BY <1>1, <2>1, <2>3, <2>5 DEF LogLine, TypeOK, calls, panel, display
<1>2. CASE HostCallsUpdate
  <2>1. CountOutcome("host") /\ "host" \in Threads
    BY <1>2 DEF HostCallsUpdate, Threads
  <2> QED
    BY <1>2, <2>1, CountOutcomeEffect DEF HostCallsUpdate, TypeOK, panel, logs, display
<1>3. ASSUME NEW t \in Threads, RecordOutcome(t) PROVE TypeOK'
  <2>1. session' \in Snapshots
    BY <1>3 DEF RecordOutcome, TypeOK, Snapshots, Calls
  <2>2. Idle \in Calls
    BY DEF Idle, Calls, Kinds, Origins
  <2> QED
    BY <1>3, <2>1, <2>2 DEF RecordOutcome, TypeOK, panel, logs, display
<1>4. CASE Destroy
  BY <1>4 DEF Destroy, TypeOK, calls, logs, display
<1>5. CASE Join \/ EnterLoop \/ Rest \/ AskSnapshot \/ SnapshotThrows \/ EndInput \/ LeaveLoop
  BY <1>5 DEF Join, EnterLoop, Rest, AskSnapshot, SnapshotThrows, EndInput, LeaveLoop, TypeOK,
              calls, panel, logs, display
<1>6. CASE Observe
  <2>1. session \in Snapshots /\ Cap \in Nat
    BY CapacitiesArePositive DEF TypeOK
  <2>2. /\ shown' = [k \in Kinds |-> session[k]]
        /\ newest' = LastOf(Cap, newest \o Told(session))
        /\ told' = IF Told(session) = <<>> THEN told ELSE session.last
        /\ \/ pending' = QueuedTold(pending, session) /\ view' = view
           \/ pending' = <<>> /\ view' = [view EXCEPT
                !.lines = LastOf(Cap, view.lines \o QueuedTold(pending, session))]
        /\ UNCHANGED <<host, calls, written, place, stalled>>
    BY <1>6 DEF Observe, Pushed, display
  <2>3. NewsOf(session, "applied") \in Seq(Line) /\ NewsOf(session, "rejected") \in Seq(Line)
    BY <2>1, NewsType DEF Kinds
  <2>4. Told(session) \in Seq(Line) /\ newest \o Told(session) \in Seq(Line)
    BY <2>3, ConcatProperties DEF Told, TypeOK
  <2>5. newest' \in Seq(Line)
    BY <2>1, <2>2, <2>4, LastOfProperties
  <2>6. ASSUME NEW q \in Seq(Line), NEW k \in Kinds
        PROVE  QueuedNews(q, session, k) \in Seq(Line)
    <3>1. Tail(q) \in Seq(Line) \/ q = <<>>
      BY HeadTailProperties
    <3>2. Len(q) >= Cap => q # <<>>
      BY CapacitiesArePositive
    <3> QED
      BY <2>1, <3>1, <3>2, NewsType, AppendProperties DEF QueuedNews, Queued
  <2>7. QueuedTold(pending, session) \in Seq(Line)
    BY <2>6 DEF QueuedTold, Kinds, TypeOK
  <2>8. view.lines \o QueuedTold(pending, session) \in Seq(Line)
    BY <2>7, ConcatProperties DEF TypeOK, Views
  <2>9. LastOf(Cap, view.lines \o QueuedTold(pending, session)) \in Seq(Line)
    BY <2>1, <2>8, LastOfProperties
  <2>10. pending' \in Seq(Line) /\ view' \in Views
    BY <2>2, <2>7, <2>9, EmptySeq DEF TypeOK, Views
  <2>11. shown' \in [Kinds -> Nat] /\ told' \in Nat
    BY <2>1, <2>2 DEF TypeOK, Snapshots, Kinds
  <2> QED
    BY <2>2, <2>5, <2>10, <2>11 DEF TypeOK, calls
<1>7. CASE DrawFrame
  BY <1>7 DEF DrawFrame, TypeOK, calls, logs
<1>8. CASE HandleEvent
  <2>1. PICK e \in Events : Dispatch(e)
    BY <1>8 DEF HandleEvent
  <2>2. view' \in Views /\ (UNCHANGED calls \/ CountOutcome("render"))
    BY <2>1, DispatchEffect
  <2>3. UNCHANGED <<host, shown, logs, place, stalled>>
    BY <1>8 DEF HandleEvent, display
  <2>4. CASE UNCHANGED calls
    BY <2>2, <2>3, <2>4 DEF TypeOK, calls, logs
  <2>5. CASE CountOutcome("render")
    <3>1. "render" \in Threads
      BY DEF Threads
    <3> QED
      BY <2>2, <2>3, <2>5, <3>1, CountOutcomeEffect DEF TypeOK, logs
  <2> QED
    BY <2>2, <2>4, <2>5
<1>9. CASE UNCHANGED vars
  BY <1>9 DEF vars, TypeOK, calls, panel, logs, display
<1>10. CASE Surroundings
  BY <1>10 DEF Surroundings, SessionFails, TerminalStops, TerminalResumes, TypeOK, calls, panel,
               logs, display
<1> QED
  BY <1>1, <1>2, <1>3, <1>4, <1>5, <1>6, <1>7, <1>8, <1>9, <1>10
     DEF Next, HostStep, RenderStep, Threads

\* The monitor's variables keep their types, whatever the capacity and the
\* height of the pane.
THEOREM TypeCorrect == Spec => []TypeOK
<1> QED
  BY TypeInit, TypeNext, PTL DEF Spec

-----------------------------------------------------------------------------
(* The screen. *)

\* A frame is what it shows in every row.
LEMMA FrameIsItsRows ==
  ASSUME NEW roomy \in BOOLEAN
  PROVE  Frame(roomy) = [r \in Rows |-> Frame(roomy)[r]]
<1> DEFINE a == [counts |-> <<stats.applied, stats.rejected>>, last |-> stats.last]
           b == IF roomy THEN [lines |-> Visible, held |-> Len(pending)]
                ELSE [lines |-> <<>>, held |-> 0]
<1>1. Frame(roomy) = <<a, b>>
  BY DEF Frame
<1> HIDE DEF a, b
<1> QED
  BY <1>1 DEF Rows

\* A frame that is drawn whole leaves its rows on a screen that was what the
\* renderer took it for, or was to be drawn anew.
LEMMA ScreenNext == ScreenIsTheFrame /\ [Next]_vars => ScreenIsTheFrame'
<1> SUFFICES ASSUME ScreenIsTheFrame, [Next]_vars PROVE ScreenIsTheFrame'
  OBVIOUS
<1>1. CASE DrawFrame
  <2>1. PICK roomy \in BOOLEAN : \E stop \in Stops(Frame(roomy)) :
          /\ screen' = Received(Frame(roomy), stop)
          /\ drawn' = Remembered(Frame(roomy), stop)
    BY <1>1 DEF DrawFrame
  <2>5. PICK stop \in Stops(Frame(roomy)) :
          /\ screen' = Received(Frame(roomy), stop)
          /\ drawn' = Remembered(Frame(roomy), stop)
    BY <2>1
  <2> DEFINE f == Frame(roomy)
  <2>2. f = [r \in Rows |-> f[r]]
    BY FrameIsItsRows
  <2> HIDE DEF f
  <2>3. CASE stop = Whole
    <3>1. \A r \in Rows : ~(r > stop) /\ r # stop
      BY <2>3 DEF Rows, Whole
    <3>2. screen' = [r \in Rows |-> IF r \notin Emitted(f) THEN screen[r] ELSE f[r]]
      BY <2>5, <3>1 DEF Received, f
    <3>3. \A r \in Rows : r \notin Emitted(f) => screen[r] = f[r]
      BY DEF Emitted, ScreenIsTheFrame
    <3>4. screen' = [r \in Rows |-> f[r]]
      BY <3>2, <3>3
    <3>5. drawn' = f
      BY <2>5, <2>3 DEF Remembered, f
    <3> QED
      BY <2>2, <3>4, <3>5 DEF ScreenIsTheFrame
  <2>4. CASE stop # Whole
    BY <2>5, <2>4 DEF Remembered, ScreenIsTheFrame
  <2> QED
    BY <2>3, <2>4
<1>2. CASE UNCHANGED <<drawn, screen>>
  BY <1>2 DEF ScreenIsTheFrame
<1>3. DrawFrame \/ UNCHANGED <<drawn, screen>>
  BY DEF Next, HostStep, RenderStep, Surroundings, LogLine, HostCallsUpdate, RecordOutcome,
         Destroy, Join, EnterLoop, Rest, AskSnapshot, SnapshotThrows, Observe, EndInput,
         LeaveLoop, HandleEvent, SessionFails, TerminalStops, TerminalResumes, vars, display
<1> QED
  BY <1>1, <1>2, <1>3

\* What the renderer takes its next difference against is on the screen,
\* wherever the display cut the frames before.
THEOREM ScreenIsTheFrameAlways == Spec => []ScreenIsTheFrame
<1>1. Init => ScreenIsTheFrame
  BY DEF Init, ScreenIsTheFrame
<1> QED
  BY <1>1, ScreenNext, PTL DEF Spec

-----------------------------------------------------------------------------
(* The log. *)

\* The queue is bounded and the newest lines are kept, whoever logs them.
LEMMA LogNext == TypeOK /\ LogInv /\ [Next]_vars => LogInv'
<1> SUFFICES ASSUME TypeOK, LogInv, [Next]_vars PROVE LogInv'
  OBVIOUS
<1>1. /\ Cap \in Nat /\ view.lines \in Seq(Line) /\ pending \in Seq(Line)
      /\ newest \in Seq(Line) /\ Len(pending) <= Cap
      /\ newest = LastOf(Cap, view.lines \o pending)
  BY CapacitiesArePositive DEF TypeOK, Views, LogInv, QueueIsBounded, NewestLinesAreKept
<1>2. view.lines \o pending \in Seq(Line)
  BY <1>1, ConcatProperties
<1>3. CASE LogLine
  <2> DEFINE line == [label |-> "app", tells |-> written + 1]
  <2>1. line \in Line
    BY DEF Line, TypeOK
  <2>2. pending' = Queued(pending, line) /\ newest' = LastOf(Cap, Append(newest, line))
        /\ view' = view
    BY <1>3 DEF LogLine, panel
  <2> HIDE DEF line
  <2>3. Len(pending') <= Cap
    BY <1>1, <2>1, <2>2, QueuedIsNewest
  <2>4. <<line>> \in Seq(Line) /\ Append(newest, line) = newest \o <<line>>
    BY <1>1, <2>1, AppendIsConcat
  <2>5. LastOf(Cap, view.lines \o pending') = LastOf(Cap, (view.lines \o pending) \o <<line>>)
    BY <1>1, <2>1, <2>2, QueuedKeepsNewest
  <2>6. LastOf(Cap, newest \o <<line>>) = LastOf(Cap, (view.lines \o pending) \o <<line>>)
    BY <1>1, <1>2, <2>4, LastOfCut
  <2> QED
    BY <2>2, <2>3, <2>4, <2>5, <2>6 DEF LogInv, QueueIsBounded, NewestLinesAreKept
<1>4. CASE Observe
  <2> DEFINE q == QueuedTold(pending, session)
             t == Told(session)
  <2>1. /\ newest' = LastOf(Cap, newest \o t)
        /\ \/ pending' = q /\ view' = view
           \/ pending' = <<>> /\ view' = [view EXCEPT !.lines = LastOf(Cap, view.lines \o q)]
    BY <1>4 DEF Observe, Pushed
  <2>2. session \in Snapshots
    BY DEF TypeOK
  <2>3. /\ t \in Seq(Line) /\ q \in Seq(Line) /\ Len(q) <= Cap
        /\ LastOf(Cap, view.lines \o q) = LastOf(Cap, (view.lines \o pending) \o t)
    BY <1>1, <2>2, QueuedToldKeepsNewest
  <2> HIDE DEF q, t
  <2>4. newest' = LastOf(Cap, (view.lines \o pending) \o t)
    BY <1>1, <1>2, <2>1, <2>3, LastOfCut
  <2>5. CASE pending' = q /\ view' = view
    BY <2>3, <2>4, <2>5 DEF LogInv, QueueIsBounded, NewestLinesAreKept
  <2>6. CASE pending' = <<>> /\ view' = [view EXCEPT !.lines = LastOf(Cap, view.lines \o q)]
    <3> DEFINE u == view.lines \o q
    <3>1. u \in Seq(Line)
      BY <1>1, <2>3, ConcatProperties
    <3>2. view'.lines = LastOf(Cap, u)
      BY <2>6 DEF TypeOK, Views
    <3> HIDE DEF u
    <3>3. LastOf(Cap, LastOf(Cap, u) \o <<>>) = LastOf(Cap, u \o <<>>) /\ u \o <<>> = u
      BY <1>1, <3>1, EmptySeq, ConcatEmptySeq, LastOfCut
    <3>4. Len(pending') <= Cap
      BY <1>1, <2>6
    <3>5. LastOf(Cap, view'.lines \o pending') = newest'
      BY <2>3, <2>4, <2>6, <3>2, <3>3 DEF u
    <3> QED
      BY <3>4, <3>5 DEF LogInv, QueueIsBounded, NewestLinesAreKept
  <2> QED
    BY <2>1, <2>5, <2>6
<1>5. CASE HandleEvent
  <2>1. PICK e \in Events : Dispatch(e)
    BY <1>5 DEF HandleEvent
  <2>2. view'.lines = view.lines
    BY <2>1, DispatchEffect
  <2>3. pending' = pending /\ newest' = newest
    BY <1>5 DEF HandleEvent, logs
  <2> QED
    BY <2>2, <2>3 DEF LogInv, QueueIsBounded, NewestLinesAreKept
<1>6. CASE UNCHANGED <<view, pending, newest>>
  BY <1>6 DEF LogInv, QueueIsBounded, NewestLinesAreKept
<1>7. LogLine \/ Observe \/ HandleEvent \/ UNCHANGED <<view, pending, newest>>
  BY DEF Next, HostStep, RenderStep, Surroundings, HostCallsUpdate, RecordOutcome, Destroy,
         Join, EnterLoop, Rest, AskSnapshot, SnapshotThrows, DrawFrame, EndInput, LeaveLoop,
         SessionFails, TerminalStops, TerminalResumes, vars, panel, logs
<1> QED
  BY <1>3, <1>4, <1>5, <1>6, <1>7

-----------------------------------------------------------------------------
(* Outcomes. *)

\* A call that counts an outcome and one that records it keep what is known of
\* the lock, of the counters and of what the panel has not told.
LEMMA OutcomeCounted ==
  ASSUME TypeOK, OutcomeInv, NEW t \in Threads, CountOutcome(t),
         t = "host" => host' = "safe", t # "host" => host' = host,
         call[t] = Idle,
         UNCHANGED <<shown, told>>
  PROVE  OutcomeInv'
<1>1. /\ session' \in Snapshots
      /\ session'.last = session.last /\ session'.from = session.from
      /\ \A k \in Kinds : session[k] <= session'[k]
  BY CountOutcomeEffect
<1>2. PICK c \in Calls :
        /\ c # Idle
        /\ call' = [call EXCEPT ![t] = c]
        /\ c.from = "managed" => lock = None
        /\ lock' = IF c.from = "managed" THEN t ELSE lock
        /\ ~overlap' => session'[c.kind] = session[c.kind] + 1
  BY CountOutcomeEffect
<1>3. overlap' = (overlap \/ \E u \in Threads \ {t} : call[u] # Idle)
  BY DEF CountOutcome
<1>4. /\ \A k \in Kinds : session[k] \in Nat /\ session'[k] \in Nat /\ shown[k] \in Nat
      /\ \A k \in Kinds : shown[k] <= session[k]
  BY <1>1 DEF TypeOK, Snapshots, Kinds, OutcomeInv, ShownIsPast
<1>5. CallsHoldTheLock'
  <2>1. call'["host"] # Idle => host' = "safe"
    BY <1>2 DEF OutcomeInv, CallsHoldTheLock, TypeOK, Threads
  <2>2. ASSUME NEW u \in Threads
        PROVE  (call'[u] # Idle /\ call'[u].from = "managed") <=> lock' = u
    <3>1. CASE u = t
      BY <1>2, <3>1, NoneIsNoThread DEF OutcomeInv, CallsHoldTheLock, TypeOK
    <3>2. CASE u # t
      BY <1>2, <3>2, NoneIsNoThread DEF OutcomeInv, CallsHoldTheLock, TypeOK
    <3> QED
      BY <3>1, <3>2
  <2> QED
    BY <2>1, <2>2 DEF CallsHoldTheLock
<1>6. ShownIsPast'
  BY <1>1, <1>4 DEF ShownIsPast
<1>7. RecordedIsUnseen'
  <2> SUFFICES ASSUME ~overlap', lock' # None
               PROVE  shown[call'[lock'].kind] < session'[call'[lock'].kind]
    BY DEF RecordedIsUnseen
  <2>1. CASE c.from = "managed"
    <3>1. lock' = t /\ call'[t] = c /\ c.kind \in Kinds
      BY <1>2, <2>1 DEF TypeOK, Calls
    <3>2. shown[c.kind] < session'[c.kind]
      BY <1>2, <1>4, <3>1
    <3> QED
      BY <3>1, <3>2
  <2>2. CASE c.from # "managed"
    <3>1. lock' = lock /\ lock \in Threads /\ lock # t
      BY <1>2, <2>2 DEF TypeOK, OutcomeInv, CallsHoldTheLock
    <3>2. call[lock] # Idle
      BY <3>1 DEF OutcomeInv, CallsHoldTheLock
    <3> QED
      BY <1>3, <3>1, <3>2
  <2> QED
    BY <2>1, <2>2
<1>8. UntoldIsUnseen'
  <2> SUFFICES ASSUME ~overlap', session'.from = "managed", session'.last \notin {0, told}
               PROVE  \E k \in Kinds : shown[k] < session'[k]
    BY DEF UntoldIsUnseen
  <2>1. PICK k \in Kinds : shown[k] < session[k]
    BY <1>1, <1>3 DEF OutcomeInv, UntoldIsUnseen
  <2>2. shown[k] < session'[k]
    BY <1>1, <1>4, <2>1
  <2> QED
    BY <2>2
<1> QED
  BY <1>5, <1>6, <1>7, <1>8 DEF OutcomeInv

\* Every step keeps what is known of the lock, the counters and the results.
LEMMA OutcomeNext == TypeOK /\ OutcomeInv /\ [Next]_vars => OutcomeInv'
<1> SUFFICES ASSUME TypeOK, OutcomeInv, [Next]_vars PROVE OutcomeInv'
  OBVIOUS
<1>1. CASE HostCallsUpdate
  <2>1. CountOutcome("host") /\ "host" \in Threads
    BY <1>1 DEF HostCallsUpdate, Threads
  <2>2. call["host"] = Idle /\ host' = "safe" /\ UNCHANGED <<shown, told>>
    BY <1>1 DEF HostCallsUpdate, OutcomeInv, CallsHoldTheLock, panel, logs
  <2> QED
    BY <2>1, <2>2, OutcomeCounted
<1>2. ASSUME NEW t \in Threads, RecordOutcome(t) PROVE OutcomeInv'
  <2>1. /\ call[t] # Idle
        /\ session' = [session EXCEPT !.last = call[t].outcome, !.from = call[t].from]
        /\ lock' = IF lock = t THEN None ELSE lock
        /\ call' = [call EXCEPT ![t] = Idle]
        /\ host' = IF t = "host" THEN "working" ELSE host
        /\ UNCHANGED <<overlap, shown, told>>
    BY <1>2 DEF RecordOutcome, panel, logs
  <2>2. \A k \in Kinds : session'[k] = session[k]
    BY <2>1 DEF TypeOK, Snapshots, Kinds
  <2>3. session'.from = call[t].from /\ session'.last = call[t].outcome
    BY <2>1 DEF TypeOK, Snapshots
  <2>4. CallsHoldTheLock'
    BY <2>1, NoneIsNoThread DEF OutcomeInv, CallsHoldTheLock, TypeOK, Threads
  <2>5. ShownIsPast'
    BY <2>1, <2>2 DEF OutcomeInv, ShownIsPast
  <2>6. RecordedIsUnseen'
    <3> SUFFICES ASSUME ~overlap', lock' # None
                 PROVE  shown[call'[lock'].kind] < session'[call'[lock'].kind]
      BY <2>1 DEF RecordedIsUnseen
    <3>1. lock' = lock /\ lock # t /\ lock \in Threads
      BY <2>1 DEF TypeOK
    <3>2. call'[lock'] = call[lock] /\ call[lock].kind \in Kinds
      BY <2>1, <3>1 DEF TypeOK, Calls
    <3>3. shown[call[lock].kind] < session[call[lock].kind]
      BY <2>1, <3>1, NoneIsNoThread DEF OutcomeInv, RecordedIsUnseen
    <3> QED
      BY <2>2, <3>2, <3>3
  <2>7. UntoldIsUnseen'
    <3> SUFFICES ASSUME ~overlap, call[t].from = "managed"
                 PROVE  \E k \in Kinds : shown[k] < session[k]
      BY <2>1, <2>2, <2>3 DEF UntoldIsUnseen
    <3>1. lock = t
      BY <2>1 DEF OutcomeInv, CallsHoldTheLock
    <3>2. call[t].kind \in Kinds
      BY DEF TypeOK, Calls
    <3> QED
      BY <3>1, <3>2, NoneIsNoThread DEF OutcomeInv, RecordedIsUnseen
  <2> QED
    BY <2>4, <2>5, <2>6, <2>7 DEF OutcomeInv
<1>3. CASE Observe
  <2>1. /\ lock = None /\ UNCHANGED <<host, call, lock, session, overlap>>
        /\ shown' = [k \in Kinds |-> session[k]]
        /\ told' = IF Told(session) = <<>> THEN told ELSE session.last
    BY <1>3 DEF Observe, calls
  <2>2. \A k \in Kinds : session[k] \in Nat /\ shown[k] \in Nat
    BY DEF TypeOK, Snapshots, Kinds
  <2>3. CallsHoldTheLock' /\ RecordedIsUnseen'
    BY <2>1 DEF OutcomeInv, CallsHoldTheLock, RecordedIsUnseen
  <2>4. ShownIsPast'
    BY <2>1, <2>2 DEF ShownIsPast
  <2>5. ASSUME NEW k \in Kinds, shown[k] < session[k]
        PROVE  Told(session) # <<>>
    <3> DEFINE a == NewsOf(session, "applied")
               r == NewsOf(session, "rejected")
    <3>1. a \in Seq(Line) /\ r \in Seq(Line)
      BY NewsType DEF TypeOK, Kinds
    <3>2. NewsOf(session, k) # <<>>
      BY <2>2, <2>5 DEF NewsOf
    <3>3. a # <<>> \/ r # <<>>
      BY <3>2 DEF Kinds
    <3>4. Told(session) = a \o r
      BY DEF Told
    <3> HIDE DEF a, r
    <3>5. Len(a) + Len(r) # 0 /\ Len(a \o r) = Len(a) + Len(r)
      BY <3>1, <3>3, EmptySeq, ConcatProperties
    <3> QED
      BY <3>4, <3>5
  <2>6. UntoldIsUnseen'
    <3> SUFFICES ASSUME ~overlap, session.from = "managed", session.last \notin {0, told'}
                 PROVE  FALSE
      BY <2>1 DEF UntoldIsUnseen
    <3>1. Told(session) = <<>> /\ told' = told
      BY <2>1
    <3>2. PICK k \in Kinds : shown[k] < session[k]
      BY <3>1 DEF OutcomeInv, UntoldIsUnseen
    <3> QED
      BY <2>5, <3>1, <3>2
  <2> QED
    BY <2>3, <2>4, <2>6 DEF OutcomeInv
<1>4. CASE HandleEvent
  <2>1. PICK e \in Events : Dispatch(e)
    BY <1>4 DEF HandleEvent
  <2>2. UNCHANGED calls \/ CountOutcome("render")
    BY <2>1, DispatchEffect
  <2>3. call["render"] = Idle /\ UNCHANGED <<host, shown, told>> /\ "render" \in Threads
    BY <1>4 DEF HandleEvent, logs, Threads
  <2>4. CASE UNCHANGED calls
    BY <2>3, <2>4 DEF calls, OutcomeInv, CallsHoldTheLock, ShownIsPast, RecordedIsUnseen,
                      UntoldIsUnseen
  <2>5. CASE CountOutcome("render")
    BY <2>3, <2>5, OutcomeCounted
  <2> QED
    BY <2>2, <2>4, <2>5
<1>5. CASE /\ UNCHANGED <<call, lock, session, overlap, shown, told>>
           /\ host' = host \/ host = "working" \/ host = "closing"
  BY <1>5 DEF OutcomeInv, CallsHoldTheLock, ShownIsPast, RecordedIsUnseen, UntoldIsUnseen
<1>6. \/ HostCallsUpdate \/ (\E t \in Threads : RecordOutcome(t)) \/ Observe \/ HandleEvent
      \/ /\ UNCHANGED <<call, lock, session, overlap, shown, told>>
         /\ host' = host \/ host = "working" \/ host = "closing"
  BY DEF Next, HostStep, RenderStep, Surroundings, Threads, LogLine, Destroy, Join, EnterLoop,
         Rest, AskSnapshot, SnapshotThrows, DrawFrame, EndInput, LeaveLoop, SessionFails,
         TerminalStops, TerminalResumes, vars, panel, logs, calls
<1> QED
  BY <1>1, <1>2, <1>3, <1>4, <1>5, <1>6

\* Nothing new is lost on the way into the log pane, and the result of a
\* managed reload is told once the panel has caught up with the counters.
THEOREM LogIsCurrentAlways == Spec => []LogIsCurrent
<1>1. Init => LogInv
  <2> SUFFICES ASSUME Init PROVE LogInv
    OBVIOUS
  <2>1. Cap \in Nat
    BY CapacitiesArePositive
  <2>2. view.lines = <<>> /\ pending = <<>> /\ newest = <<>> /\ Len(pending) = 0
    BY DEF Init
  <2>3. view.lines \o pending = <<>>
    BY <2>2
  <2>4. LastOf(Cap, <<>>) = <<>>
    BY <2>1 DEF LastOf, Smaller
  <2> QED
    BY <2>1, <2>2, <2>3, <2>4 DEF LogInv, QueueIsBounded, NewestLinesAreKept
<1>2. Init => OutcomeInv
  <2> SUFFICES ASSUME Init PROVE OutcomeInv
    OBVIOUS
  <2>1. CallsHoldTheLock
    BY NoneIsNoThread DEF Init, CallsHoldTheLock, Threads
  <2>2. shown = [k \in Kinds |-> 0] /\ session = NoStats
    BY DEF Init
  <2>3. \A k \in Kinds : session[k] = 0
    BY <2>2 DEF NoStats, Kinds
  <2>4. ShownIsPast
    BY <2>2, <2>3 DEF ShownIsPast
  <2>5. RecordedIsUnseen /\ UntoldIsUnseen
    BY <2>2 DEF Init, RecordedIsUnseen, UntoldIsUnseen, NoStats
  <2> QED
    BY <2>1, <2>4, <2>5 DEF OutcomeInv
<1>3. TypeOK /\ LogInv /\ OutcomeInv => LogIsCurrent
  <2> SUFFICES ASSUME TypeOK, OutcomeInv PROVE LatestOutcomeIsTold
    BY DEF LogInv, LogIsCurrent
  <2>1. \A k \in Kinds : shown[k] \in Nat
    BY DEF TypeOK
  <2> QED
    BY <2>1 DEF OutcomeInv, UntoldIsUnseen, LatestOutcomeIsTold
<1> QED
  BY <1>1, <1>2, <1>3, TypeInit, TypeNext, LogNext, OutcomeNext, PTL DEF Spec
=============================================================================
