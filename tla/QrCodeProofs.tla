---------------------------- MODULE QrCodeProofs ----------------------------
(***************************************************************************)
(* Proofs about QrCode, for every set of texts and every level asked for.  *)
(***************************************************************************)
EXTENDS QrCode, FiniteSetTheorems, SequenceTheorems, WellFoundedInduction, TLAPS

-----------------------------------------------------------------------------
(* Induction over the numbers and over the finite sets, stated with sets   *)
(* so that the provers can use it.                                         *)

\* Of a collection of finite sets, some contains no other.
LEMMA SmallestSet ==
  ASSUME NEW T, T # {}, \A s \in T : IsFiniteSet(s)
  PROVE  \E s \in T : \A r \in T : r \subseteq s => r = s
<1> DEFINE U == UNION T
<1>1. IsWellFoundedOn(StrictSubsetOrdering(U), FiniteSubsetsOf(U))
  BY FS_StrictSubsetOrderingWellFounded
<1>2. T \subseteq FiniteSubsetsOf(U)
  BY DEF FiniteSubsetsOf
<1>3. PICK s \in T : \A r \in T : <<r, s>> \notin StrictSubsetOrdering(U)
  BY <1>1, <1>2, WFMin
<1> QED
  BY <1>3, Zenon DEF StrictSubsetOrdering

\* A set that holds zero and the successor of each of its numbers holds all.
LEMMA Induction ==
  ASSUME NEW S, 0 \in S, \A n \in Nat : n \in S => n + 1 \in S
  PROVE  Nat \subseteq S
<1> DEFINE T == {1..n : n \in Nat \ S}
<1> SUFFICES ASSUME NEW m \in Nat \ S PROVE FALSE
  OBVIOUS
<1>1. T # {} /\ \A s \in T : IsFiniteSet(s)
  <2>1. 1..m \in T
    OBVIOUS
  <2>2. ASSUME NEW s \in T PROVE IsFiniteSet(s)
    <3>1. PICK n \in Nat \ S : s = 1..n
      OBVIOUS
    <3> QED
      BY <3>1, FS_Interval
  <2> QED
    BY <2>1, <2>2
<1>2. PICK s \in T : \A r \in T : r \subseteq s => r = s
  <2> HIDE DEF T
  <2> QED
    BY <1>1, SmallestSet
<1>3. PICK n \in Nat \ S : s = 1..n
  OBVIOUS
<1>4. n - 1 \in Nat \ S
  OBVIOUS
<1>5. 1..(n - 1) \in T
  BY <1>4
<1>6. 1..(n - 1) \subseteq 1..n /\ n \in 1..n /\ n \notin 1..(n - 1)
  BY <1>4
<1> QED
  BY <1>2, <1>3, <1>5, <1>6, Zenon

\* A function on 0..n that computes each value from the one before exists.
LEMMA Recursion ==
  ASSUME NEW V, NEW c \in V, NEW n \in Nat, NEW g \in [1..n -> [V -> V]]
  PROVE  \E F \in [0..n -> V] : F[0] = c /\ \A k \in 1..n : F[k] = g[k][F[k - 1]]
<1> DEFINE Computes(F, m) ==
             F[0] = c /\ \A k \in 1..m : F[k] = g[k][F[k - 1]]
           S == {m \in Nat : m <= n => \E F \in [0..m -> V] : Computes(F, m)}
<1>1. 0 \in S
  <2>1. [k \in 0..0 |-> c] \in [0..0 -> V] /\ Computes([k \in 0..0 |-> c], 0)
    OBVIOUS
  <2> QED
    BY <2>1
<1>2. ASSUME NEW m \in Nat, m \in S PROVE m + 1 \in S
  <2> SUFFICES ASSUME m + 1 <= n
               PROVE  \E F \in [0..(m + 1) -> V] : Computes(F, m + 1)
    OBVIOUS
  <2>1. PICK F \in [0..m -> V] : Computes(F, m)
    BY <1>2
  <2> DEFINE G == [k \in 0..(m + 1) |-> IF k = m + 1 THEN g[m + 1][F[m]] ELSE F[k]]
  <2>2. G \in [0..(m + 1) -> V]
    BY <2>1
  <2>3. Computes(G, m + 1)
    BY <2>1
  <2> QED
    BY <2>2, <2>3
<1>3. n \in S
  <2> HIDE DEF S
  <2> QED
    BY <1>1, <1>2, Induction
<1> QED
  BY <1>3

\* F adds up the values of h over every subset of S, one element after the
\* other.
SumsUp(F, S, h) ==
  F = [s \in SUBSET S |-> IF s = {} THEN 0
                          ELSE LET x == CHOOSE x \in s : TRUE IN h[x] + F[s \ {x}]]

\* What taking an element out of a finite set does.
LEMMA TakeOut ==
  ASSUME NEW S, IsFiniteSet(S), NEW s \in SUBSET S
  PROVE  LET x == CHOOSE x \in s : TRUE IN
         /\ IsFiniteSet(s) /\ Cardinality(s) \in Nat /\ Cardinality(s) <= Cardinality(S)
         /\ s # {} => /\ x \in S /\ s \ {x} \in SUBSET S
                      /\ Cardinality(s \ {x}) = Cardinality(s) - 1
<1>1. IsFiniteSet(s) /\ Cardinality(s) \in Nat /\ Cardinality(s) <= Cardinality(S)
  BY FS_Subset, FS_CardinalityType
<1>2. ASSUME s # {}
      PROVE  LET x == CHOOSE x \in s : TRUE IN
             x \in s /\ Cardinality(s \ {x}) = Cardinality(s) - 1
  BY <1>1, <1>2, FS_RemoveElement
<1> QED
  BY <1>1, <1>2

LEMMA SumExists ==
  ASSUME NEW S, IsFiniteSet(S), NEW h \in [S -> Nat]
  PROVE  \E F : SumsUp(F, S, h)
<1> DEFINE Some(s) == CHOOSE x \in s : TRUE
           Small(m) == {s \in SUBSET S : Cardinality(s) <= m}
           Adds(F, m) ==
             \A s \in Small(m) : F[s] = IF s = {} THEN 0 ELSE h[Some(s)] + F[s \ {Some(s)}]
           N == {m \in Nat : \E F \in [Small(m) -> Nat] : Adds(F, m)}
<1>1. ASSUME NEW s \in SUBSET S
      PROVE  /\ Cardinality(s) \in Nat /\ Cardinality(s) <= Cardinality(S)
             /\ s # {} => /\ Some(s) \in S /\ s \ {Some(s)} \in SUBSET S
                          /\ Cardinality(s \ {Some(s)}) = Cardinality(s) - 1
  BY TakeOut
<1>2. \A s \in SUBSET S : Cardinality(s) \in Nat /\ Cardinality(s) <= Cardinality(S)
  BY <1>1
<1> HIDE DEF Some
<1>3. 0 \in N
  <2> DEFINE F == [s \in Small(0) |-> 0]
  <2>1. \A s \in Small(0) : s = {}
    <3> SUFFICES ASSUME NEW s \in SUBSET S, Cardinality(s) <= 0, s # {} PROVE FALSE
      OBVIOUS
    <3>1. Cardinality(s \ {Some(s)}) \in Nat
      BY <1>1
    <3> QED
      BY <1>1, <3>1
  <2>2. F \in [Small(0) -> Nat] /\ Adds(F, 0)
    BY <2>1
  <2> QED
    BY <2>2
<1>4. ASSUME NEW m \in Nat, m \in N PROVE m + 1 \in N
  <2>1. PICK F \in [Small(m) -> Nat] : Adds(F, m)
    BY <1>4
  <2> DEFINE G == [s \in Small(m + 1) |-> IF s = {} THEN 0 ELSE h[Some(s)] + F[s \ {Some(s)}]]
  <2>2. ASSUME NEW s \in Small(m + 1), s # {}
        PROVE  s \ {Some(s)} \in Small(m) /\ h[Some(s)] \in Nat
    BY <1>1, <2>2
  <2>3. \A s \in Small(m) : s \in Small(m + 1) /\ G[s] = F[s]
    BY <1>2, <2>1
  <2>4. G \in [Small(m + 1) -> Nat]
    BY <2>1, <2>2
  <2>5. Adds(G, m + 1)
    BY <2>2, <2>3
  <2> HIDE DEF G, Small, Adds
  <2> QED
    BY <2>4, <2>5
<1>5. Cardinality(S) \in N
  <2> HIDE DEF N
  <2>1. Nat \subseteq N
    BY <1>3, <1>4, Induction
  <2>2. Cardinality(S) \in Nat
    BY FS_CardinalityType
  <2> QED
    BY <2>1, <2>2
<1>6. PICK F \in [Small(Cardinality(S)) -> Nat] : Adds(F, Cardinality(S))
  BY <1>5
<1>7. Small(Cardinality(S)) = SUBSET S
  BY <1>2
<1>8. F = [s \in SUBSET S |-> IF s = {} THEN 0 ELSE h[Some(s)] + F[s \ {Some(s)}]]
  BY <1>6, <1>7
<1> QED
  BY <1>8 DEF Some, SumsUp

\* A sum is at most the number of its terms times the largest of them.
LEMMA SumBound ==
  ASSUME NEW S, IsFiniteSet(S), NEW h \in [S -> Nat],
         NEW B \in Nat, \A x \in S : h[x] <= B, NEW F, SumsUp(F, S, h)
  PROVE  F[S] \in Nat /\ F[S] <= Cardinality(S) * B
<1> DEFINE Some(s) == CHOOSE x \in s : TRUE
           Bounded(s) == F[s] \in Nat /\ F[s] <= Cardinality(s) * B
           N == {m \in Nat : \A s \in SUBSET S : Cardinality(s) <= m => Bounded(s)}
<1>1. ASSUME NEW s \in SUBSET S
      PROVE  /\ Cardinality(s) \in Nat /\ Cardinality(s) <= Cardinality(S)
             /\ s # {} => /\ Some(s) \in S /\ s \ {Some(s)} \in SUBSET S
                          /\ Cardinality(s \ {Some(s)}) = Cardinality(s) - 1
  BY TakeOut
<1>2. \A s \in SUBSET S : Cardinality(s) \in Nat
  BY <1>1
<1>3. \A s \in SUBSET S : F[s] = IF s = {} THEN 0 ELSE h[Some(s)] + F[s \ {Some(s)}]
  BY Zenon DEF SumsUp
<1> HIDE DEF Some
<1>4. ASSUME NEW m \in Nat, \A s \in SUBSET S : Cardinality(s) <= m - 1 => Bounded(s)
      PROVE  m \in N
  <2> SUFFICES ASSUME NEW s \in SUBSET S, Cardinality(s) <= m PROVE Bounded(s)
    OBVIOUS
  <2>1. CASE s = {}
    <3>1. F[s] = 0
      BY <1>3, <2>1
    <3>2. Cardinality(s) = 0
      BY <2>1, FS_EmptySet
    <3> QED
      BY <3>1, <3>2
  <2>2. CASE s # {}
    <3> DEFINE r == s \ {Some(s)}
    <3>1. h[Some(s)] \in Nat /\ h[Some(s)] <= B
      BY <1>1, <2>2
    <3>2. r \in SUBSET S /\ Cardinality(r) = Cardinality(s) - 1 /\ Cardinality(s) \in Nat
      BY <1>1, <2>2
    <3>3. F[s] = h[Some(s)] + F[r]
      BY <1>3, <2>2
    <3> HIDE DEF r
    <3>4. F[r] \in Nat /\ F[r] <= (Cardinality(s) - 1) * B
      BY <1>4, <3>2
    <3>5. (Cardinality(s) - 1) * B + B = Cardinality(s) * B
      BY <3>2
    <3> QED
      BY <3>1, <3>2, <3>3, <3>4, <3>5
  <2> QED
    BY <2>1, <2>2
<1>5. 0 \in N
  <2>1. \A s \in SUBSET S : ~ (Cardinality(s) <= 0 - 1)
    BY <1>2
  <2> QED
    BY <1>4, <2>1
<1>6. ASSUME NEW m \in Nat, m \in N PROVE m + 1 \in N
  BY <1>4, <1>6
<1>7. Cardinality(S) \in N
  <2> HIDE DEF N
  <2>1. Nat \subseteq N
    BY <1>5, <1>6, Induction
  <2>2. Cardinality(S) \in Nat
    BY FS_CardinalityType
  <2> QED
    BY <2>1, <2>2
<1> QED
  BY <1>2, <1>7

-----------------------------------------------------------------------------
(* The penalty score is as small as getPenaltyScore asserts.               *)

Histories == {q \in Seq(Int) : Len(q) = 7}

\* What the scan of a line of colors knows.
Scans(C) == [color : C, run : Int, history : Histories, score : Nat]

LEMMA SizeOf == ASSUME NEW ver \in 1..40 PROVE Size(ver) \in Nat /\ Size(ver) \in 21..177
BY DEF Size

LEMMA CountBounds == \A h : CountPatterns(h) \in 0..2
BY DEF CountPatterns

LEMMA HistoryTyped ==
  ASSUME NEW ver \in 1..40, NEW run \in Int, NEW history \in Histories
  PROVE  AddHistory(run, history, ver) \in Histories
<1>1. run + (IF history[1] = 0 THEN Size(ver) ELSE 0) \in Int
  BY SizeOf
<1>2. SubSeq(history, 1, 6) \in Seq(Int) /\ Len(SubSeq(history, 1, 6)) = 6
  <2>1. history \in Seq(Int) /\ Len(history) = 7
    BY DEF Histories
  <2>2. ASSUME NEW i \in 1..6 PROVE history[i] \in Int
    <3>1. i \in 1..Len(history)
      BY <2>1
    <3> QED
      BY <2>1, <3>1, ElementOfSeq
  <2> QED
    BY <2>2, SubSeqProperties
<1> QED
  BY <1>1, <1>2 DEF AddHistory, Histories

LEMMA HistoryShifted ==
  ASSUME NEW ver \in 1..40, NEW run \in Int, NEW history \in Histories, NEW i \in 1..6
  PROVE  AddHistory(run, history, ver)[i + 1] = history[i]
<1> DEFINE first == run + (IF history[1] = 0 THEN Size(ver) ELSE 0)
<1>1. history \in Seq(Int) /\ Len(history) = 7
  BY DEF Histories
<1>2. SubSeq(history, 1, 6) \in Seq(Int) /\ Len(SubSeq(history, 1, 6)) = 6
      /\ SubSeq(history, 1, 6)[i] = history[i]
  <2>1. ASSUME NEW j \in 1..6 PROVE history[j] \in Int
    <3>1. j \in 1..Len(history)
      BY <1>1
    <3> QED
      BY <1>1, <3>1, ElementOfSeq
  <2>2. history[1 + i - 1] = history[i]
    OBVIOUS
  <2> QED
    BY <2>1, <2>2, SubSeqProperties
<1> HIDE DEF first
<1>3. (<<first>> \o SubSeq(history, 1, 6))[i + 1] = SubSeq(history, 1, 6)[i]
  BY <1>2
<1> QED
  BY <1>2, <1>3 DEF AddHistory, first

\* A run of three times the length of the next but one shows that a pattern
\* may just have been counted: then neither this change of color nor the next
\* completes another, because its middle run cannot be a ninth of itself.
JustCounted(h) == h[2] > 0 /\ h[4] = 3 * h[2]

OnceCounted(h) == h[3] > 0 /\ h[5] = 3 * h[3]

\* By how much the score may be above thirty points a module.
Ahead(h) == IF JustCounted(h) THEN 50 ELSE IF OnceCounted(h) THEN 20 ELSE 0

\* A change of color at the history h.
LEMMA ChangeBound ==
  ASSUME NEW ver \in 1..40, NEW run \in Int, NEW h \in Histories
  PROVE  40 * CountPatterns(AddHistory(run, h, ver)) + Ahead(h)
           <= 30 + Ahead(AddHistory(run, h, ver))
<1> DEFINE new == AddHistory(run, h, ver)
           count == CountPatterns(new)
<1>1. \A i \in 1..7 : h[i] \in Int /\ new[i] \in Int
  <2>1. new \in Histories
    BY HistoryTyped
  <2> HIDE DEF new
  <2>2. h \in Seq(Int) /\ Len(h) = 7 /\ new \in Seq(Int) /\ Len(new) = 7
    BY <2>1 DEF Histories
  <2>3. \A i \in 1..7 : i \in 1..Len(h) /\ i \in 1..Len(new)
    BY <2>2
  <2> QED
    BY <2>2, <2>3, ElementOfSeq
<1>2. /\ new[3] = h[2] /\ new[4] = h[3] /\ new[5] = h[4] /\ new[6] = h[5]
  <2>1. \A i \in 1..6 : new[i + 1] = h[i]
    BY HistoryShifted
  <2> HIDE DEF new
  <2>2. new[2 + 1] = h[2] /\ new[3 + 1] = h[3] /\ new[4 + 1] = h[4] /\ new[5 + 1] = h[5]
    BY <2>1
  <2> QED
    BY <2>2
<1>3. count \in 0..2
  BY CountBounds
<1>4. count # 0 =>
        new[2] > 0 /\ new[3] = new[2] /\ new[4] = 3 * new[2] /\ new[5] = new[2] /\ new[6] = new[2]
  <2> HIDE DEF new
  <2> QED
    BY DEF CountPatterns
<1>5. h[2] \in Int /\ h[3] \in Int /\ h[4] \in Int /\ h[5] \in Int /\ new[2] \in Int
  BY <1>1
<1> HIDE DEF new, count
<1>6. CASE JustCounted(h)
  <2>1. count = 0
    BY <1>2, <1>4, <1>5, <1>6 DEF JustCounted
  <2>2. OnceCounted(new)
    BY <1>2, <1>6 DEF JustCounted, OnceCounted
  <2> QED
    BY <1>6, <2>1, <2>2 DEF Ahead, new, count
<1>7. CASE ~JustCounted(h) /\ OnceCounted(h)
  <2>1. count = 0
    BY <1>2, <1>4, <1>5, <1>7 DEF OnceCounted
  <2> QED
    BY <1>7, <2>1 DEF Ahead, new, count
<1>8. CASE ~JustCounted(h) /\ ~OnceCounted(h)
  <2>1. count # 0 => JustCounted(new)
    BY <1>4 DEF JustCounted
  <2> QED
    BY <1>3, <1>8, <2>1 DEF Ahead, new, count
<1> QED
  BY <1>6, <1>7, <1>8

Within(s, k) == s.score <= 30 * k + Ahead(s.history)

\* One module keeps the score of a line within its bound.
LEMMA ScanStep ==
  ASSUME NEW ver \in 1..40, NEW C, NEW s \in Scans(C), NEW b \in C
  PROVE  /\ ScanModule(s, b, ver) \in Scans(C)
         /\ \A k \in Nat : Within(s, k) => Within(ScanModule(s, b, ver), k + 1)
<1>0. /\ s.color \in C /\ s.run \in Int /\ s.history \in Histories /\ s.score \in Nat
      /\ s = [color |-> s.color, run |-> s.run, history |-> s.history, score |-> s.score]
  BY DEF Scans
<1>1. \A h : Ahead(h) \in {0, 20, 50}
  BY DEF Ahead
<1>2. CASE b = s.color
  <2> DEFINE more == IF s.run = 4 THEN 3 ELSE IF s.run > 4 THEN 1 ELSE 0
  <2>1. more \in 0..3
    BY <1>0
  <2>2. ScanModule(s, b, ver) =
          [color |-> s.color, run |-> s.run + 1, history |-> s.history, score |-> s.score + more]
    BY <1>0, <1>2 DEF ScanModule
  <2> HIDE DEF more
  <2>3. ScanModule(s, b, ver) \in Scans(C)
    BY <1>0, <2>1, <2>2 DEF Scans
  <2>4. ASSUME NEW k \in Nat, Within(s, k) PROVE Within(ScanModule(s, b, ver), k + 1)
    <3>1. s.score <= 30 * k + Ahead(s.history)
      BY <2>4 DEF Within
    <3>2. ScanModule(s, b, ver).score = s.score + more
          /\ ScanModule(s, b, ver).history = s.history
      BY <2>2
    <3>3. s.score + more <= 30 * (k + 1) + Ahead(s.history)
      BY <1>0, <1>1, <2>1, <3>1
    <3> QED
      BY <3>2, <3>3 DEF Within
  <2> QED
    BY <2>3, <2>4
<1>3. CASE b # s.color
  <2> DEFINE history == AddHistory(s.run, s.history, ver)
             count == CountPatterns(history)
             more == IF s.color THEN 0 ELSE 40 * count
  <2>1. more \in Nat /\ more <= 40 * count
    BY CountBounds
  <2>2. ScanModule(s, b, ver) =
          [color |-> b, run |-> 1, history |-> history, score |-> s.score + more]
    BY <1>3 DEF ScanModule
  <2>3. history \in Histories
    BY <1>0, HistoryTyped
  <2>4. 40 * count + Ahead(s.history) <= 30 + Ahead(history)
    BY <1>0, ChangeBound
  <2>5. count \in 0..2
    BY CountBounds
  <2> HIDE DEF more, count, history
  <2>6. ScanModule(s, b, ver) \in Scans(C)
    BY <1>0, <2>1, <2>2, <2>3 DEF Scans
  <2>7. ASSUME NEW k \in Nat, Within(s, k) PROVE Within(ScanModule(s, b, ver), k + 1)
    <3>1. s.score <= 30 * k + Ahead(s.history)
      BY <2>7 DEF Within
    <3>2. ScanModule(s, b, ver).score = s.score + more
          /\ ScanModule(s, b, ver).history = history
      BY <2>2
    <3>3. Ahead(s.history) \in Int /\ Ahead(history) \in Int
      BY <1>1
    <3>4. s.score + more <= 30 * (k + 1) + Ahead(history)
      BY <1>0, <2>1, <2>4, <2>5, <3>1, <3>3
    <3> QED
      BY <3>2, <3>4 DEF Within
  <2> QED
    BY <2>6, <2>7
<1> QED
  BY <1>2, <1>3

Stays(T, line, n, ver) == \A s \in T, k \in 1..n : ScanModule(s, line[k], ver) \in T

Follows(F, start, line, n, ver) ==
  F[0] = start /\ \A k \in 1..n : F[k] = ScanModule(F[k - 1], line[k], ver)

LEMMA ScanExists ==
  ASSUME NEW ver, NEW n \in Nat, NEW line, NEW T, NEW start \in T
  PROVE  Stays(T, line, n, ver) => \E F \in [0..n -> T] : Follows(F, start, line, n, ver)
<1>0. HAVE Stays(T, line, n, ver)
<1> DEFINE g == [k \in 1..n |-> [s \in T |-> ScanModule(s, line[k], ver)]]
<1>1. g \in [1..n -> [T -> T]]
  BY <1>0 DEF Stays
<1>2. PICK F \in [0..n -> T] : F[0] = start /\ \A k \in 1..n : F[k] = g[k][F[k - 1]]
  <2> HIDE DEF g
  <2> QED
    BY <1>1, Recursion
<1>3. ASSUME NEW k \in 1..n
      PROVE  F[k] = ScanModule(F[k - 1], line[k], ver)
  <2>1. F[k - 1] \in T /\ F[k] = g[k][F[k - 1]]
    BY <1>2
  <2> QED
    BY <2>1, Zenon
<1> QED
  BY <1>2, <1>3 DEF Follows

\* The scan of a line of n modules, from the state start on.
Scan(line, start, n, ver) ==
  CHOOSE f : f = [k \in 0..n |-> IF k = 0 THEN start ELSE ScanModule(f[k - 1], line[k], ver)]

\* The scan of colors begins with the start and goes on module by module.
Colored(line, n, C) == \A k \in 1..n : line[k] \in C

Stay(scan, n, T) == \A k \in 0..n : scan[k] \in T

LEMMA ScanFollows ==
  ASSUME NEW ver \in 1..40, NEW n \in Nat, NEW line, NEW C, NEW start \in Scans(C),
         Colored(line, n, C)
  PROVE  /\ Follows(Scan(line, start, n, ver), start, line, n, ver)
         /\ Stay(Scan(line, start, n, ver), n, Scans(C))
<1> DEFINE scan == Scan(line, start, n, ver)
<1>0. \A k \in 1..n : line[k] \in C
  BY DEF Colored
<1>1. \A s \in Scans(C), k \in 1..n : ScanModule(s, line[k], ver) \in Scans(C)
  BY <1>0, ScanStep
<1>2. \E F : F = [k \in 0..n |-> IF k = 0 THEN start ELSE ScanModule(F[k - 1], line[k], ver)]
  <2> DEFINE T == Scans(C)
  <2>1. start \in T
    OBVIOUS
  <2>2. Stays(T, line, n, ver)
    BY <1>1, Zenon DEF Stays
  <2> HIDE DEF T
  <2>3. PICK F \in [0..n -> T] : Follows(F, start, line, n, ver)
    BY <2>1, <2>2, ScanExists
  <2>4. F = [k \in 0..n |-> IF k = 0 THEN start ELSE ScanModule(F[k - 1], line[k], ver)]
    BY <2>3 DEF Follows
  <2> QED
    BY <2>4
<1>3. scan = [k \in 0..n |-> IF k = 0 THEN start ELSE ScanModule(scan[k - 1], line[k], ver)]
  BY <1>2, Zenon DEF Scan
<1> HIDE DEF scan
<1>4. scan[0] = start /\ \A k \in 1..n : scan[k] = ScanModule(scan[k - 1], line[k], ver)
  <2>1. \A k \in 0..n :
          scan[k] = IF k = 0 THEN start ELSE ScanModule(scan[k - 1], line[k], ver)
    BY <1>3, Zenon
  <2> QED
    BY <2>1
<1> DEFINE N == {k \in Nat : k <= n => scan[k] \in Scans(C)}
<1>5. ASSUME NEW k \in Nat, k \in N PROVE k + 1 \in N
  <2> SUFFICES ASSUME k + 1 <= n PROVE scan[k + 1] \in Scans(C)
    OBVIOUS
  <2>1. scan[k] \in Scans(C) /\ k + 1 \in 1..n /\ k + 1 - 1 = k
    BY <1>5
  <2>2. scan[k + 1] = ScanModule(scan[k], line[k + 1], ver)
    BY <1>4, <2>1
  <2> QED
    BY <1>1, <2>1, <2>2
<1>6. Nat \subseteq N
  <2>1. 0 \in N
    BY <1>4
  <2> HIDE DEF N
  <2> QED
    BY <1>5, <2>1, Induction
<1>7. \A k \in 0..n : scan[k] \in Scans(C)
  BY <1>6
<1> QED
  BY <1>4, <1>7 DEF Follows, Stay, scan

LEMMA ScanBound ==
  ASSUME NEW ver \in 1..40, NEW n \in Nat, NEW line, NEW C, NEW start \in Scans(C)
  PROVE  start.score = 0 /\ (\A k \in 1..n : line[k] \in C) =>
           /\ Scan(line, start, n, ver)[n] \in Scans(C)
           /\ Within(Scan(line, start, n, ver)[n], n)
<1> DEFINE scan == Scan(line, start, n, ver)
<1>0. SUFFICES ASSUME start.score = 0, \A k \in 1..n : line[k] \in C
               PROVE  scan[n] \in Scans(C) /\ Within(scan[n], n)
  OBVIOUS
<1>1. Colored(line, n, C)
  BY <1>0 DEF Colored
<1>2. Follows(scan, start, line, n, ver) /\ Stay(scan, n, Scans(C))
  BY <1>1, ScanFollows
<1> HIDE DEF scan
<1>6. scan[0] = start /\ \A k \in 1..n : scan[k] = ScanModule(scan[k - 1], line[k], ver)
  BY <1>2, Zenon DEF Follows
<1> DEFINE N == {k \in Nat : k <= n => scan[k] \in Scans(C) /\ Within(scan[k], k)}
<1>7. 0 \in N
  <2>1. Ahead(start.history) \in {0, 20, 50}
    BY DEF Ahead
  <2> QED
    BY <1>0, <1>6, <2>1 DEF Within
<1>8. ASSUME NEW k \in Nat, k \in N PROVE k + 1 \in N
  <2> SUFFICES ASSUME k + 1 <= n
               PROVE  scan[k + 1] \in Scans(C) /\ Within(scan[k + 1], k + 1)
    OBVIOUS
  <2>1. scan[k] \in Scans(C) /\ Within(scan[k], k)
    BY <1>8
  <2>2. k + 1 \in 1..n
    OBVIOUS
  <2>3. scan[k + 1] = ScanModule(scan[k], line[k + 1], ver) /\ line[k + 1] \in C
    BY <1>0, <1>6, <2>2
  <2>4. ScanModule(scan[k], line[k + 1], ver) \in Scans(C)
        /\ Within(ScanModule(scan[k], line[k + 1], ver), k + 1)
    BY <2>1, <2>3, ScanStep
  <2> QED
    BY <2>3, <2>4
<1>9. n \in N
  <2> HIDE DEF N
  <2> QED
    BY <1>7, <1>8, Induction
<1> QED
  BY <1>9

\* The score of a line.
LEMMA LineBound ==
  ASSUME NEW ver \in 1..40, NEW n, n = Size(ver), NEW line
  PROVE  LineScore(line, ver) \in Nat /\ LineScore(line, ver) <= 5440
<1> DEFINE start == [color |-> FALSE, run |-> 0, history |-> [i \in 1..7 |-> 0], score |-> 0]
           scan[k \in 0..n] ==
             IF k = 0 THEN start ELSE LET s == scan[k - 1] IN ScanModule(s, line[k], ver)
           end == scan[n]
           C == {FALSE} \cup {line[k] : k \in 1..n}
<1>1. n \in Nat /\ n \in 21..177
  BY SizeOf, Zenon
<1>2. start \in Scans(C) /\ start.score = 0
  BY DEF Scans, Histories
<1>3. end \in Scans(C) /\ Within(end, n)
  <2>1. n \in Nat
    BY <1>1, Zenon
  <2>2. scan = Scan(line, start, n, ver)
    BY DEF Scan
  <2>3. \A k \in 1..n : line[k] \in C
    OBVIOUS
  <2> HIDE DEF start, scan, C
  <2> QED
    BY <1>2, <2>1, <2>2, <2>3, ScanBound
<1>4. TerminateAndCount(end, ver) \in 0..2
  BY CountBounds DEF TerminateAndCount
<1>5. LineScore(line, ver) = end.score + 40 * TerminateAndCount(end, ver)
  BY DEF LineScore
<1> HIDE DEF end
<1>6. end.score \in Nat /\ end.score <= 30 * n + Ahead(end.history)
  BY <1>3 DEF Scans, Within
<1>7. Ahead(end.history) \in {0, 20, 50}
  BY DEF Ahead
<1>8. PICK score \in Nat, count \in 0..2 :
        score <= 30 * n + 50 /\ LineScore(line, ver) = score + 40 * count
  <2>1. end.score <= 30 * n + 50
    BY <1>1, <1>6, <1>7
  <2> QED
    BY <1>4, <1>5, <1>6, <2>1
<1> QED
  BY <1>1, <1>8

LEMMA Interval ==
  ASSUME NEW n \in Nat
  PROVE  IsFiniteSet(0..(n - 1)) /\ Cardinality(0..(n - 1)) = n
<1>1. ASSUME NEW m \in Int, m >= -1
      PROVE  IsFiniteSet(0..m) /\ Cardinality(0..m) = m + 1
  BY <1>1, FS_Interval
<1>2. n - 1 \in Int /\ n - 1 >= -1 /\ n - 1 + 1 = n
  OBVIOUS
<1> QED
  BY <1>1, <1>2

\* Numbers of modules.
LEMMA GridSize ==
  ASSUME NEW ver \in 1..40
  PROVE  /\ IsFiniteSet(Grid(ver)) /\ Cardinality(Grid(ver)) = Size(ver) * Size(ver)
         /\ \A d : IsFiniteSet(Squares(d, ver))
                   /\ Cardinality(Squares(d, ver)) \in Nat /\ Cardinality(Squares(d, ver)) <= 31329
<1> DEFINE n == Size(ver)
<1>1. n \in Nat /\ n \in 21..177
  BY SizeOf, Zenon
<1> HIDE DEF n
<1>2. /\ IsFiniteSet((0..(n - 1)) \X (0..(n - 1)))
      /\ Cardinality((0..(n - 1)) \X (0..(n - 1))) = n * n
  <2>1. IsFiniteSet(0..(n - 1)) /\ Cardinality(0..(n - 1)) = n
    BY <1>1, Interval
  <2> QED
    BY <2>1, FS_Product
<1>3. ASSUME NEW d
      PROVE  IsFiniteSet(Squares(d, ver)) /\ Cardinality(Squares(d, ver)) \in Nat
             /\ Cardinality(Squares(d, ver)) <= 31329
  <2> DEFINE grid == (0..(n - 1)) \X (0..(n - 1))
  <2>1. Squares(d, ver) \subseteq grid
    BY <1>1 DEF Squares, n
  <2>2. n * n <= 31329
    BY <1>1
  <2> HIDE DEF grid
  <2>3. IsFiniteSet(Squares(d, ver)) /\ Cardinality(Squares(d, ver)) <= Cardinality(grid)
    BY <1>2, <2>1, FS_Subset DEF grid
  <2>4. Cardinality(Squares(d, ver)) \in Nat /\ Cardinality(grid) <= 31329
    BY <1>2, <2>2, <2>3, FS_CardinalityType DEF grid
  <2> QED
    BY <1>1, <2>3, <2>4, <1>2 DEF grid
<1> QED
  BY <1>2, <1>3 DEF Grid, n

\* The bound that getPenaltyScore asserts.
MaxScore == 2568888

\* The two assertions that end getPenaltyScore hold of every symbol, dark or
\* light as its modules may be: the step of the balance is 0 to 9, and the
\* score 0 to 2568888.
THEOREM PenaltyBound ==
  ASSUME NEW ver \in 1..40, NEW d \in SUBSET Grid(ver)
  PROVE  /\ LET total == Size(ver) * Size(ver)
                off == Abs(20 * Cardinality(d) - 10 * total)
            IN (off + total - 1) \div total - 1 \in 0..9
         /\ PenaltyScore(d, ver) \in Nat /\ PenaltyScore(d, ver) <= MaxScore
<1> DEFINE n == Size(ver)
           lines == 0..(n - 1)
           score(i) == LineScore(Row(d, ver, i), ver) + LineScore(Column(d, ver, i), ver)
           h == [i \in lines |-> score(i)]
           total == n * n
           count == Cardinality(d)
           off == Abs(20 * count - 10 * total)
           balance == (off + total - 1) \div total - 1
           sum == MapThenSumSet(LAMBDA i : LineScore(Row(d, ver, i), ver) + LineScore(Column(d, ver, i), ver),
                                lines)
<1>1. n \in Nat /\ n \in 21..177
  BY SizeOf, Zenon
<1>2. ASSUME NEW i \in lines PROVE score(i) \in Nat /\ score(i) <= 10880
  <2>1. /\ LineScore(Row(d, ver, i), ver) \in Nat /\ LineScore(Row(d, ver, i), ver) <= 5440
        /\ LineScore(Column(d, ver, i), ver) \in Nat /\ LineScore(Column(d, ver, i), ver) <= 5440
    BY LineBound
  <2> QED
    BY <2>1
<1>3. IsFiniteSet(lines) /\ Cardinality(lines) = n
  BY <1>1, Interval
<1>4. sum \in Nat /\ sum <= 177 * 10880
  <2>1. h \in [lines -> Nat] /\ \A i \in lines : h[i] = score(i) /\ h[i] <= 10880
    BY <1>2
  <2> DEFINE Adds(F) == F = [s \in SUBSET lines |->
                               IF s = {} THEN 0
                               ELSE LET x == CHOOSE x \in s : TRUE IN score(x) + F[s \ {x}]]
  <2>2. \A F : SumsUp(F, lines, h) <=> Adds(F)
    <3>1. ASSUME NEW s \in SUBSET lines, s # {}
          PROVE  h[CHOOSE x \in s : TRUE] = score(CHOOSE x \in s : TRUE)
      <4>1. (CHOOSE x \in s : TRUE) \in s
        BY <3>1
      <4> HIDE DEF h, score, lines
      <4> QED
        BY <2>1, <4>1
    <3> SUFFICES ASSUME NEW F PROVE SumsUp(F, lines, h) <=> Adds(F)
      OBVIOUS
    <3> DEFINE left == [s \in SUBSET lines |->
                          IF s = {} THEN 0
                          ELSE LET x == CHOOSE x \in s : TRUE IN h[x] + F[s \ {x}]]
               wanted == [s \in SUBSET lines |->
                            IF s = {} THEN 0
                            ELSE LET x == CHOOSE x \in s : TRUE IN score(x) + F[s \ {x}]]
    <3>2. SumsUp(F, lines, h) <=> F = left
      <4> HIDE DEF h, lines, score
      <4> QED
        BY Zenon DEF SumsUp
    <3>3. left = wanted
      <4> HIDE DEF h, score, lines
      <4> QED
        BY <3>1
    <3>4. Adds(F) <=> F = wanted
      OBVIOUS
    <3> HIDE DEF left, wanted, Adds
    <3> QED
      BY <3>2, <3>3, <3>4
  <2>3. sum = (CHOOSE F : Adds(F))[lines]
    BY Zenon DEF MapThenSumSet, MapThenFoldSet
  <2> HIDE DEF h, score, lines, Adds, sum
  <2>4. \E F : Adds(F)
    BY <1>3, <2>1, <2>2, SumExists
  <2>5. SumsUp(CHOOSE F : Adds(F), lines, h)
    BY <2>2, <2>4
  <2>6. sum \in Nat /\ sum <= n * 10880
    BY <1>3, <2>1, <2>3, <2>5, SumBound
  <2> QED
    BY <1>1, <2>6
<1>5. Cardinality(Squares(d, ver)) \in Nat /\ Cardinality(Squares(d, ver)) <= 31329
  BY GridSize
<1>6. count \in Nat /\ count <= total /\ total \in Nat /\ total >= 1
  <2>1. IsFiniteSet(d) /\ Cardinality(d) <= Cardinality(Grid(ver))
    BY GridSize, FS_Subset
  <2>2. Cardinality(d) \in Nat
    BY <2>1, FS_CardinalityType
  <2>3. Cardinality(Grid(ver)) = total
    BY GridSize
  <2>4. total \in Nat /\ total >= 1
    BY <1>1
  <2> QED
    BY <2>1, <2>2, <2>3, <2>4
<1>7. balance \in 0..9
  <2>1. PICK m \in Nat : n = 2 * m + 1
    <3>1. n = 2 * (2 * ver + 8) + 1
      BY DEF Size
    <3> QED
      BY <3>1
  <2>2. total = 2 * (2 * m * m + 2 * m) + 1
    <3> HIDE DEF n
    <3> QED
      BY <2>1
  <2> HIDE DEF total, count
  <2>3. PICK half \in Nat : total = 2 * half + 1
    <3>1. 2 * m * m + 2 * m \in Nat
      OBVIOUS
    <3> QED
      BY <2>2, <3>1
  <2>4. off \in Nat /\ off >= 1 /\ off <= 10 * total
    BY <1>6, <2>3 DEF Abs
  <2> HIDE DEF off
  <2>5. off + total - 1 >= total /\ off + total - 1 < 11 * total
    BY <1>6, <2>4
  <2> DEFINE quotient == (off + total - 1) \div total
  <2>6. quotient \in Int /\ quotient >= 1 /\ quotient <= 10
    BY <1>6, <2>4, <2>5
  <2> HIDE DEF quotient
  <2>7. quotient - 1 \in 0..9
    BY <2>6
  <2> QED
    BY <2>7 DEF quotient
<1>8. PenaltyScore(d, ver) = sum + 3 * Cardinality(Squares(d, ver)) + 10 * balance
  BY Zenon DEF PenaltyScore
<1> HIDE DEF sum, balance
<1>9. PICK squares \in Nat :
        squares <= 31329 /\ PenaltyScore(d, ver) = sum + 3 * squares + 10 * balance
  BY <1>5, <1>8
<1> QED
  <2>1. PenaltyScore(d, ver) \in Nat /\ PenaltyScore(d, ver) <= MaxScore
    BY <1>4, <1>7, <1>9, SMT DEF MaxScore
  <2> QED
    BY <1>7, <2>1 DEF balance

-----------------------------------------------------------------------------
(* The score of a line is the one that the reference gives it.  A line of  *)
(* n modules is the set D of its dark positions.                           *)

Tone(D, p) == IF p \in D THEN 1 ELSE 0

\* The positions after a, up to b, have one tone t, and that before has not,
\* unless the light border begins behind it.
Run(D, n, a, b, t) ==
  /\ a < b
  /\ \A p \in (a + 1)..b : Tone(D, p) = t
  /\ a = -n \/ Tone(D, a) # t

\* The tone of the i-th run before a run of tone c.
ToneOf(i, c) == IF i \in {1, 3, 5, 7} THEN 1 - c ELSE c

\* What the history stands for: h[i] is the length of the i-th run before the
\* position e[0], which lies after e[i]; it is zero when there is no such run.
Chain(D, n, h, e, c) ==
  \A i \in 1..7 : /\ h[i] \in Nat /\ e[i] = e[i - 1] - h[i]
                  /\ h[i] = 0 => e[i - 1] = -n
                  /\ h[i] > 0 => Run(D, n, e[i], e[i - 1], ToneOf(i, c))

\* What the scan knows after k modules: the run that it is in, which has the
\* border before it if it is the first, and the runs before.
Runs(D, n, k, c, run, h, e) ==
  /\ c \in {0, 1} /\ run \in 0..k
  /\ e \in [0..7 -> Int] /\ e[0] = k - (run + (IF h[1] = 0 THEN n ELSE 0))
  /\ Run(D, n, e[0], k, c)
  /\ Chain(D, n, h, e, c)

LEMMA RunsBegin ==
  ASSUME NEW n \in Nat \ {0}, NEW D \in SUBSET (1..n)
  PROVE  \A h : (\A i \in 1..7 : h[i] = 0) => Runs(D, n, 0, 0, 0, h, [i \in 0..7 |-> -n])
<1> SUFFICES ASSUME NEW h, \A i \in 1..7 : h[i] = 0
             PROVE  Runs(D, n, 0, 0, 0, h, [i \in 0..7 |-> -n])
  OBVIOUS
<1> DEFINE e == [i \in 0..7 |-> -n]
<1>1. e \in [0..7 -> Int] /\ \A i \in 0..7 : e[i] = -n
  OBVIOUS
<1> HIDE DEF e
<1>2. Chain(D, n, h, e, 0)
  BY <1>1 DEF Chain
<1>3. Run(D, n, e[0], 0, 0)
  BY <1>1 DEF Run, Tone
<1>4. Runs(D, n, 0, 0, 0, h, e)
  BY <1>1, <1>2, <1>3 DEF Runs
<1> QED
  BY <1>4 DEF e

LEMMA RunsGrow ==
  ASSUME NEW n \in Nat \ {0}, NEW D \in SUBSET (1..n), NEW k \in Nat, k + 1 <= n,
         NEW c, NEW run, NEW h, NEW e,
         Runs(D, n, k, c, run, h, e), Tone(D, k + 1) = c
  PROVE  Runs(D, n, k + 1, c, run + 1, h, e)
<1>1. Run(D, n, e[0], k + 1, c)
  BY DEF Runs, Run
<1> QED
  BY <1>1 DEF Runs

\* A change of tone puts the run before it into the history.
LEMMA ChainChange ==
  ASSUME NEW n \in Nat \ {0}, NEW D \in SUBSET (1..n), NEW k \in Nat,
         NEW c, NEW run, NEW h, NEW e, NEW new,
         Runs(D, n, k, c, run, h, e),
         new[1] = run + (IF h[1] = 0 THEN n ELSE 0),
         \A i \in 1..6 : new[i + 1] = h[i],
         NEW f \in [0..7 -> Int], f[0] = k, \A i \in 1..7 : f[i] = e[i - 1]
  PROVE  /\ new[1] \in Nat /\ new[1] > 0
         /\ Chain(D, n, new, f, 1 - c)
<1>1. f \in [0..7 -> Int] /\ f[0] = k /\ \A i \in 1..7 : f[i] = e[i - 1]
  OBVIOUS
<1>2. new[1] \in Nat /\ new[1] > 0 /\ e[0] = k - new[1] /\ e[0] \in Int
  BY DEF Runs, Run
<1>3. Run(D, n, e[0], k, c) /\ c \in {0, 1}
  BY DEF Runs
<1>4. ASSUME NEW i \in 1..7
      PROVE  /\ new[i] \in Nat /\ f[i] = f[i - 1] - new[i]
             /\ new[i] = 0 => f[i - 1] = -n
             /\ new[i] > 0 => Run(D, n, f[i], f[i - 1], ToneOf(i, 1 - c))
  <2>1. CASE i = 1
    BY <1>1, <1>2, <1>3, <2>1 DEF ToneOf
  <2>2. CASE i > 1
    <3> DEFINE j == i - 1
    <3>1. j \in 1..6 /\ i = j + 1
      BY <2>2
    <3>2. new[i] = h[j] /\ f[i] = e[j] /\ f[i - 1] = e[j - 1]
      BY <1>1, <3>1
    <3>3. /\ h[j] \in Nat /\ e[j] = e[j - 1] - h[j]
          /\ h[j] = 0 => e[j - 1] = -n
          /\ h[j] > 0 => Run(D, n, e[j], e[j - 1], ToneOf(j, c))
      BY <3>1 DEF Runs, Chain
    <3>4. ToneOf(j, c) = ToneOf(i, 1 - c)
      BY <1>3, <3>1 DEF ToneOf
    <3> QED
      BY <3>2, <3>3, <3>4
  <2> QED
    BY <2>1, <2>2
<1>5. Chain(D, n, new, f, 1 - c)
  BY <1>4 DEF Chain
<1> QED
  BY <1>1, <1>2, <1>5

LEMMA RunsChange ==
  ASSUME NEW n \in Nat \ {0}, NEW D \in SUBSET (1..n), NEW k \in Nat, k + 1 <= n,
         NEW c, NEW run, NEW h, NEW e, NEW new,
         Runs(D, n, k, c, run, h, e), Tone(D, k + 1) = 1 - c,
         new[1] = run + (IF h[1] = 0 THEN n ELSE 0),
         \A i \in 1..6 : new[i + 1] = h[i]
  PROVE  Runs(D, n, k + 1, 1 - c, 1, new, [i \in 0..7 |-> IF i = 0 THEN k ELSE e[i - 1]])
<1> DEFINE f == [i \in 0..7 |-> IF i = 0 THEN k ELSE e[i - 1]]
<1>1. f \in [0..7 -> Int] /\ f[0] = k /\ \A i \in 1..7 : f[i] = e[i - 1]
  BY DEF Runs
<1> HIDE DEF f
<1>2. /\ new[1] \in Nat /\ new[1] > 0
      /\ Chain(D, n, new, f, 1 - c)
  BY <1>1, ChainChange
<1>3. Run(D, n, e[0], k, c) /\ c \in {0, 1} /\ e[0] \in Int
  BY DEF Runs
<1>4. Run(D, n, f[0], k + 1, 1 - c)
  BY <1>1, <1>3 DEF Run, Tone
<1>5. Runs(D, n, k + 1, 1 - c, 1, new, f)
  BY <1>1, <1>2, <1>3, <1>4 DEF Runs
<1> QED
  BY <1>5 DEF f

\* A pattern of units of u modules at p: dark, light, three dark, light, dark,
\* with before units of light in front of it and after units behind.
Like(D, n, p, u, before, after) ==
  /\ p + 7 * u - 1 <= n
  /\ \A o \in 0..(7 * u - 1) : p + o \in D <=> (o \div u \notin {1, 5})
  /\ \A q \in (p - before * u)..(p - 1) : q \notin D
  /\ \A q \in (p + 7 * u)..(p + (7 + after) * u - 1) : q \notin D

LEMMA Unit ==
  ASSUME NEW u \in Nat \ {0}, NEW o \in Nat, NEW m \in Nat, m * u <= o, o < m * u + u
  PROVE  o \div u = m
<1> DEFINE q == o \div u
           r == o % u
<1>1. q \in Int /\ r \in Int /\ r >= 0 /\ r < u /\ o = u * q + r
  OBVIOUS
<1> HIDE DEF q, r
<1>2. u * q - u * m = u * (q - m)
  BY <1>1
<1>3. CASE q - m >= 1
  <2>1. u * (q - m) >= u
    BY <1>1, <1>3
  <2> QED
    BY <1>1, <1>2, <2>1
<1>4. CASE q - m <= -1
  <2>1. u * (q - m) <= -u
    BY <1>1, <1>4
  <2> QED
    BY <1>1, <1>2, <2>1
<1>5. q = m
  BY <1>1, <1>3, <1>4
<1> QED
  BY <1>5 DEF q

\* The pattern, run by run.
LEMMA LikeRuns ==
  ASSUME NEW n \in Nat, NEW D \in SUBSET (1..n), NEW p \in Int, NEW u \in Nat \ {0},
         NEW before \in Nat, NEW after \in Nat
  PROVE  Like(D, n, p, u, before, after) <=>
           /\ p + 7 * u - 1 <= n
           /\ \A q \in p..(p + u - 1) : q \in D
           /\ \A q \in (p + u)..(p + 2 * u - 1) : q \notin D
           /\ \A q \in (p + 2 * u)..(p + 5 * u - 1) : q \in D
           /\ \A q \in (p + 5 * u)..(p + 6 * u - 1) : q \notin D
           /\ \A q \in (p + 6 * u)..(p + 7 * u - 1) : q \in D
           /\ \A q \in (p - before * u)..(p - 1) : q \notin D
           /\ \A q \in (p + 7 * u)..(p + (7 + after) * u - 1) : q \notin D
<1>1. ASSUME NEW o \in 0..(7 * u - 1)
      PROVE  (o \div u \notin {1, 5}) <=> ~ (o \in u..(2 * u - 1) \/ o \in (5 * u)..(6 * u - 1))
  <2>1. \A m \in Nat : m * u <= o /\ o < m * u + u => o \div u = m
    BY Unit
  <2>2. \/ o < u /\ o \div u = 0
        \/ u <= o /\ o < 2 * u /\ o \div u = 1
        \/ 2 * u <= o /\ o < 3 * u /\ o \div u = 2
        \/ 3 * u <= o /\ o < 4 * u /\ o \div u = 3
        \/ 4 * u <= o /\ o < 5 * u /\ o \div u = 4
        \/ 5 * u <= o /\ o < 6 * u /\ o \div u = 5
        \/ 6 * u <= o /\ o < 7 * u /\ o \div u = 6
    BY <2>1
  <2> QED
    BY <2>2
<1>2. (\A o \in 0..(7 * u - 1) : p + o \in D <=> (o \div u \notin {1, 5}))
        <=> (\A o \in 0..(7 * u - 1) :
               p + o \in D <=> ~ (o \in u..(2 * u - 1) \/ o \in (5 * u)..(6 * u - 1)))
  BY <1>1
<1>3. (\A o \in 0..(7 * u - 1) :
         p + o \in D <=> ~ (o \in u..(2 * u - 1) \/ o \in (5 * u)..(6 * u - 1)))
        <=> (\A q \in p..(p + 7 * u - 1) :
               q \in D <=> ~ (q \in (p + u)..(p + 2 * u - 1) \/ q \in (p + 5 * u)..(p + 6 * u - 1)))
  <2>1. ASSUME \A o \in 0..(7 * u - 1) :
                 p + o \in D <=> ~ (o \in u..(2 * u - 1) \/ o \in (5 * u)..(6 * u - 1)),
               NEW q \in p..(p + 7 * u - 1)
        PROVE  q \in D <=> ~ (q \in (p + u)..(p + 2 * u - 1) \/ q \in (p + 5 * u)..(p + 6 * u - 1))
    <3> DEFINE o == q - p
    <3>1. o \in 0..(7 * u - 1) /\ q = p + o
      OBVIOUS
    <3>2. p + o \in D <=> ~ (o \in u..(2 * u - 1) \/ o \in (5 * u)..(6 * u - 1))
      BY <2>1, <3>1
    <3> QED
      BY <3>1, <3>2
  <2>2. ASSUME \A q \in p..(p + 7 * u - 1) :
                 q \in D <=> ~ (q \in (p + u)..(p + 2 * u - 1) \/ q \in (p + 5 * u)..(p + 6 * u - 1)),
               NEW o \in 0..(7 * u - 1)
        PROVE  p + o \in D <=> ~ (o \in u..(2 * u - 1) \/ o \in (5 * u)..(6 * u - 1))
    <3>1. p + o \in p..(p + 7 * u - 1)
      OBVIOUS
    <3>2. p + o \in D <=> ~ (p + o \in (p + u)..(p + 2 * u - 1) \/ p + o \in (p + 5 * u)..(p + 6 * u - 1))
      BY <2>2, <3>1
    <3> QED
      BY <3>1, <3>2
  <2> QED
    BY <2>1, <2>2
<1>4. (\A q \in p..(p + 7 * u - 1) :
         q \in D <=> ~ (q \in (p + u)..(p + 2 * u - 1) \/ q \in (p + 5 * u)..(p + 6 * u - 1)))
        <=> /\ \A q \in p..(p + u - 1) : q \in D
            /\ \A q \in (p + u)..(p + 2 * u - 1) : q \notin D
            /\ \A q \in (p + 2 * u)..(p + 5 * u - 1) : q \in D
            /\ \A q \in (p + 5 * u)..(p + 6 * u - 1) : q \notin D
            /\ \A q \in (p + 6 * u)..(p + 7 * u - 1) : q \in D
  OBVIOUS
<1> HIDE DEF Like
<1> QED
  BY <1>2, <1>3, <1>4 DEF Like

\* Where a run begins is settled by its tone.
LEMMA RunFrom ==
  ASSUME NEW n \in Nat, NEW D, NEW a \in Int, NEW b \in Int, NEW t, Run(D, n, a, b, t),
         NEW x \in Int, -n <= x, x < b, Tone(D, x) # t, \A q \in (x + 1)..b : Tone(D, q) = t
  PROVE  a = x
<1>1. ~ (a < x)
  BY DEF Run
<1>2. ~ (a > x)
  BY DEF Run
<1> QED
  BY <1>1, <1>2

\* A light run up to K with the runs of a history before it: a dark module is
\* next, or it is the last one, with the border behind the line in it.
Closing(D, n, h, e, K) ==
  /\ e \in [0..7 -> Int] /\ K \in Int /\ e[0] <= n
  /\ Chain(D, n, h, e, 0) /\ Run(D, n, e[0], K, 0)
  /\ (K < n /\ K + 1 \in D) \/ K = 2 * n

\* The light in front of a pattern and behind it, in units: four on one side.
Margins == {1, 4}

\* The runs that a pattern in front of the position e[0] + 1 is made of.
Matches(h, u, before, after, light) ==
  /\ h[1] = u /\ h[2] = u /\ h[3] = 3 * u /\ h[4] = u /\ h[5] = u
  /\ h[6] >= before * u /\ light >= after * u

LEMMA LikeMatches ==
  ASSUME NEW n \in Nat \ {0}, NEW D \in SUBSET (1..n), NEW h, NEW e, NEW K,
         Closing(D, n, h, e, K),
         NEW u \in Nat \ {0}, NEW before \in Margins, NEW after \in Margins,
         NEW p \in Int, p + 7 * u = e[0] + 1, 7 * u <= n, p >= 1
  PROVE  Like(D, n, p, u, before, after) <=> Matches(h, u, before, after, K - e[0])
<1>0. /\ e \in [0..7 -> Int] /\ K \in Int /\ e[0] <= n
      /\ Chain(D, n, h, e, 0) /\ Run(D, n, e[0], K, 0)
      /\ (K < n /\ K + 1 \in D) \/ K = 2 * n
  BY DEF Closing
<1>1. /\ e[0] \in Int /\ e[1] \in Int /\ e[2] \in Int /\ e[3] \in Int /\ e[4] \in Int
      /\ e[5] \in Int /\ e[6] \in Int
  BY <1>0
<1>2. \A i \in 1..6 : /\ h[i] \in Nat /\ e[i] = e[i - 1] - h[i]
                      /\ h[i] = 0 => e[i - 1] = -n
                      /\ h[i] > 0 => Run(D, n, e[i], e[i - 1], ToneOf(i, 0))
  BY <1>0 DEF Chain
<1>3. /\ ToneOf(1, 0) = 1 /\ ToneOf(2, 0) = 0 /\ ToneOf(3, 0) = 1 /\ ToneOf(4, 0) = 0
      /\ ToneOf(5, 0) = 1 /\ ToneOf(6, 0) = 0
  BY DEF ToneOf
<1>4. /\ h[1] \in Nat /\ e[1] = e[0] - h[1] /\ (h[1] = 0 => e[0] = -n)
      /\ h[1] > 0 => Run(D, n, e[1], e[0], 1)
      /\ h[2] \in Nat /\ e[2] = e[1] - h[2] /\ (h[2] = 0 => e[1] = -n)
      /\ h[2] > 0 => Run(D, n, e[2], e[1], 0)
      /\ h[3] \in Nat /\ e[3] = e[2] - h[3] /\ (h[3] = 0 => e[2] = -n)
      /\ h[3] > 0 => Run(D, n, e[3], e[2], 1)
      /\ h[4] \in Nat /\ e[4] = e[3] - h[4] /\ (h[4] = 0 => e[3] = -n)
      /\ h[4] > 0 => Run(D, n, e[4], e[3], 0)
      /\ h[5] \in Nat /\ e[5] = e[4] - h[5] /\ (h[5] = 0 => e[4] = -n)
      /\ h[5] > 0 => Run(D, n, e[5], e[4], 1)
      /\ h[6] \in Nat /\ e[6] = e[5] - h[6] /\ (h[6] = 0 => e[5] = -n)
      /\ h[6] > 0 => Run(D, n, e[6], e[5], 0)
  <2>1. /\ 1 - 1 = 0 /\ 2 - 1 = 1 /\ 3 - 1 = 2 /\ 4 - 1 = 3 /\ 5 - 1 = 4 /\ 6 - 1 = 5
        /\ 1 \in 1..6 /\ 2 \in 1..6 /\ 3 \in 1..6 /\ 4 \in 1..6 /\ 5 \in 1..6 /\ 6 \in 1..6
    OBVIOUS
  <2> QED
    BY <1>2, <1>3, <2>1
<1>7. p + (7 + after) * u - 1 = e[0] + after * u
  BY <1>1 DEF Margins
<1>5. ASSUME Like(D, n, p, u, before, after)
      PROVE  Matches(h, u, before, after, K - e[0])
  <2>1. /\ \A q \in p..(p + u - 1) : q \in D
        /\ \A q \in (p + u)..(p + 2 * u - 1) : q \notin D
        /\ \A q \in (p + 2 * u)..(p + 5 * u - 1) : q \in D
        /\ \A q \in (p + 5 * u)..(p + 6 * u - 1) : q \notin D
        /\ \A q \in (p + 6 * u)..(p + 7 * u - 1) : q \in D
        /\ \A q \in (p - before * u)..(p - 1) : q \notin D
        /\ \A q \in (p + 7 * u)..(p + (7 + after) * u - 1) : q \notin D
    <3>1. before \in Nat /\ after \in Nat /\ n \in Nat
      BY DEF Margins
    <3> QED
      BY <1>5, <3>1, LikeRuns, Zenon
  <2>2. before * u >= u /\ before * u <= 4 * u /\ after * u >= u /\ after * u <= 4 * u
        /\ before * u \in Nat /\ after * u \in Nat
    BY DEF Margins
  <2>3. e[1] = p + 6 * u - 1
    <3>1. Run(D, n, e[1], e[0], 1)
      BY <1>1, <1>4
    <3> QED
      BY <1>1, <2>1, <3>1, RunFrom DEF Tone
  <2>4. e[2] = p + 5 * u - 1
    <3>1. Run(D, n, e[2], e[1], 0)
      BY <1>1, <1>4, <2>3
    <3>2. Tone(D, p + 5 * u - 1) # 0 /\ p + 5 * u - 1 < e[1] /\ -n <= p + 5 * u - 1
      BY <2>1, <2>3 DEF Tone
    <3>3. \A q \in (p + 5 * u)..e[1] : Tone(D, q) = 0
      BY <2>1, <2>3 DEF Tone
    <3>4. p + 5 * u - 1 + 1 = p + 5 * u /\ p + 5 * u - 1 \in Int
      OBVIOUS
    <3> QED
      BY <1>1, <3>1, <3>2, <3>3, <3>4, RunFrom
  <2>5. e[3] = p + 2 * u - 1
    <3>1. Run(D, n, e[3], e[2], 1)
      BY <1>1, <1>4, <2>4
    <3> QED
      BY <1>1, <2>1, <2>4, <3>1, RunFrom DEF Tone
  <2>6. e[4] = p + u - 1
    <3>1. Run(D, n, e[4], e[3], 0)
      BY <1>1, <1>4, <2>5
    <3> QED
      BY <1>1, <2>1, <2>5, <3>1, RunFrom DEF Tone
  <2>7. e[5] = p - 1
    <3>1. Run(D, n, e[5], e[4], 1)
      BY <1>1, <1>4, <2>6
    <3>2. p - 1 \notin D
      BY <2>1, <2>2
    <3> QED
      BY <1>1, <2>1, <2>6, <3>1, <3>2, RunFrom DEF Tone
  <2>8. h[6] >= before * u
    <3>1. Run(D, n, e[6], e[5], 0)
      BY <1>1, <1>4, <2>7
    <3>2. e[6] = -n \/ e[6] \in D
      BY <3>1 DEF Run, Tone
    <3>3. e[6] < p - before * u
      BY <1>1, <2>1, <2>2, <2>7, <3>1, <3>2 DEF Run
    <3> QED
      BY <1>1, <1>4, <2>2, <2>7, <3>3
  <2>9. K - e[0] >= after * u
    <3>1. CASE K = 2 * n
      BY <1>0, <1>1, <2>2, <3>1
    <3>2. CASE K < n /\ K + 1 \in D
      <4>1. e[0] < K
        BY <1>0 DEF Run
      <4>2. ~ (K + 1 \in (p + 7 * u)..(p + (7 + after) * u - 1))
        BY <2>1, <3>2
      <4> DEFINE margin == after * u
      <4>3. margin \in Nat /\ ~ (K + 1 \in (e[0] + 1)..(e[0] + margin))
        BY <1>1, <1>7, <2>2, <4>2
      <4> HIDE DEF margin
      <4>4. K - e[0] >= margin
        BY <1>0, <1>1, <4>1, <4>3
      <4> QED
        BY <4>4 DEF margin
    <3> QED
      BY <1>0, <3>1, <3>2, Zenon
  <2> QED
    BY <1>1, <1>4, <2>3, <2>4, <2>5, <2>6, <2>7, <2>8, <2>9 DEF Matches
<1>6. ASSUME Matches(h, u, before, after, K - e[0])
      PROVE  Like(D, n, p, u, before, after)
  <2>1. before * u \in Nat /\ after * u \in Nat
    BY DEF Margins
  <2>2. /\ e[1] = p + 6 * u - 1 /\ e[2] = p + 5 * u - 1 /\ e[3] = p + 2 * u - 1
        /\ e[4] = p + u - 1 /\ e[5] = p - 1 /\ e[6] <= p - 1 - before * u
    <3> DEFINE margin == before * u
    <3>1. margin \in Nat
      BY <2>1
    <3>2. /\ h[1] = u /\ h[2] = u /\ h[3] = 3 * u /\ h[4] = u /\ h[5] = u
          /\ h[6] >= margin
      BY <1>6 DEF Matches
    <3>4. /\ e[1] = e[0] - u /\ e[2] = e[1] - u /\ e[3] = e[2] - 3 * u /\ e[4] = e[3] - u
          /\ e[5] = e[4] - u /\ e[6] = e[5] - h[6] /\ h[6] \in Nat
      BY <1>4, <3>2
    <3> HIDE DEF margin
    <3>5. e[0] = p + 7 * u - 1
      BY <1>1
    <3>6. /\ e[1] = p + 6 * u - 1 /\ e[2] = p + 5 * u - 1
      BY <3>4, <3>5
    <3>7. /\ e[3] = p + 2 * u - 1 /\ e[4] = p + u - 1 /\ e[5] = p - 1
      BY <3>4, <3>6
    <3>3. /\ e[1] = p + 6 * u - 1 /\ e[2] = p + 5 * u - 1 /\ e[3] = p + 2 * u - 1
          /\ e[4] = p + u - 1 /\ e[5] = p - 1 /\ e[6] <= p - 1 - margin
      BY <3>1, <3>2, <3>4, <3>6, <3>7
    <3> QED
      BY <3>3, Zenon DEF margin
  <2>3. /\ Run(D, n, e[1], e[0], 1) /\ Run(D, n, e[2], e[1], 0) /\ Run(D, n, e[3], e[2], 1)
        /\ Run(D, n, e[4], e[3], 0) /\ Run(D, n, e[5], e[4], 1)
    BY <1>4, <1>6 DEF Matches
  <2>4. Run(D, n, e[6], e[5], 0)
    <3>1. before * u > 0
      BY DEF Margins
    <3> QED
      BY <1>1, <1>4, <1>6, <2>1, <3>1 DEF Matches
  <2>5. \A q \in p..(p + u - 1) : q \in D
    BY <1>1, <2>2, <2>3 DEF Run, Tone
  <2>6. \A q \in (p + u)..(p + 2 * u - 1) : q \notin D
    BY <1>1, <2>2, <2>3 DEF Run, Tone
  <2>7. \A q \in (p + 2 * u)..(p + 5 * u - 1) : q \in D
    BY <1>1, <2>2, <2>3 DEF Run, Tone
  <2>8. \A q \in (p + 5 * u)..(p + 6 * u - 1) : q \notin D
    BY <1>1, <2>2, <2>3 DEF Run, Tone
  <2>9. \A q \in (p + 6 * u)..(p + 7 * u - 1) : q \in D
    BY <1>1, <2>2, <2>3 DEF Run, Tone
  <2>10. \A q \in (p - before * u)..(p - 1) : q \notin D
    BY <1>1, <2>1, <2>2, <2>4 DEF Run, Tone
  <2>11. \A q \in (p + 7 * u)..(p + (7 + after) * u - 1) : q \notin D
    <3>2. e[0] + after * u <= K
      BY <1>0, <1>1, <1>6, <2>1 DEF Matches
    <3> QED
      BY <1>0, <1>1, <1>7, <2>1, <3>2 DEF Run, Tone
  <2>12. p + 7 * u - 1 <= n
    BY <1>0, <1>1
  <2>13. before \in Nat /\ after \in Nat /\ n \in Nat
    BY DEF Margins
  <2> QED
    BY <2>5, <2>6, <2>7, <2>8, <2>9, <2>10, <2>11, <2>12, <2>13, LikeRuns, Zenon
<1> QED
  BY <1>5, <1>6

\* The patterns of the line whose last dark module lies before m.
Patterns(D, n, before, after, m) ==
  {s \in (1..n) \X (1..(n \div 7)) :
     Like(D, n, s[1], s[2], before, after) /\ s[1] + 7 * s[2] <= m}

LEMMA PatternsFinite ==
  ASSUME NEW n \in Nat, NEW D, NEW before, NEW after, NEW m
  PROVE  /\ IsFiniteSet(Patterns(D, n, before, after, m))
         /\ Cardinality(Patterns(D, n, before, after, m)) \in Nat
<1>1. IsFiniteSet(1..n) /\ IsFiniteSet(1..(n \div 7))
  BY FS_Interval
<1>2. IsFiniteSet((1..n) \X (1..(n \div 7)))
  BY <1>1, FS_Product
<1>3. Patterns(D, n, before, after, m) \subseteq (1..n) \X (1..(n \div 7))
  BY DEF Patterns
<1> QED
  BY <1>2, <1>3, FS_Subset, FS_CardinalityType

\* A start is a position and a unit.
LEMMA Starts ==
  ASSUME NEW n \in Nat, NEW s \in (1..n) \X (1..(n \div 7))
  PROVE  /\ s[1] \in 1..n /\ s[2] \in Nat \ {0} /\ 7 * s[2] <= n /\ s = <<s[1], s[2]>>
         /\ s[1] \in Int
<1>1. s[1] \in 1..n /\ s[2] \in 1..(n \div 7) /\ s = <<s[1], s[2]>>
  OBVIOUS
<1>2. n \div 7 \in Nat /\ 7 * (n \div 7) <= n
  OBVIOUS
<1> QED
  BY <1>1, <1>2

\* What the ends of a pattern are.
LEMMA LikeEnds ==
  ASSUME NEW n \in Nat, NEW D \in SUBSET (1..n), NEW p \in Int, NEW u \in Nat \ {0},
         NEW before \in Margins, NEW after \in Margins, Like(D, n, p, u, before, after)
  PROVE  p + 7 * u - 1 \in D /\ p + 7 * u \notin D
<1>1. before \in Nat /\ after \in Nat
  BY DEF Margins
<1>2. /\ \A q \in (p + 6 * u)..(p + 7 * u - 1) : q \in D
      /\ \A q \in (p + 7 * u)..(p + (7 + after) * u - 1) : q \notin D
  BY <1>1, LikeRuns
<1>3. p + (7 + after) * u - 1 >= p + 7 * u
  BY DEF Margins
<1> QED
  BY <1>2, <1>3

\* No pattern ends before a dark module ...
LEMMA PatternsDark ==
  ASSUME NEW n \in Nat, NEW D \in SUBSET (1..n), NEW a \in Int, NEW b \in Int, Run(D, n, a, b, 1),
         NEW before \in Margins, NEW after \in Margins
  PROVE  Patterns(D, n, before, after, b) = Patterns(D, n, before, after, a)
<1>1. a < b /\ \A q \in (a + 1)..b : q \in D
  BY DEF Run, Tone
<1>2. ASSUME NEW s \in (1..n) \X (1..(n \div 7)), Like(D, n, s[1], s[2], before, after),
             s[1] + 7 * s[2] <= b
      PROVE  s[1] + 7 * s[2] <= a
  <2>1. s[1] \in Int /\ s[2] \in Nat \ {0}
    BY Starts
  <2>2. s[1] + 7 * s[2] \notin D
    BY <1>2, <2>1, LikeEnds
  <2> QED
    BY <1>1, <1>2, <2>1, <2>2
<1>3. ASSUME NEW s \in (1..n) \X (1..(n \div 7)), s[1] + 7 * s[2] <= a
      PROVE  s[1] + 7 * s[2] <= b
  <2>1. s[1] \in Int /\ s[2] \in Nat \ {0}
    BY Starts
  <2> QED
    BY <1>1, <1>3, <2>1
<1> QED
  BY <1>2, <1>3, Zenon DEF Patterns

\* ... and in a light run only the one that the run comes right behind.
LEMMA PatternsLight ==
  ASSUME NEW n \in Nat \ {0}, NEW D \in SUBSET (1..n), NEW h, NEW e, NEW K,
         Closing(D, n, h, e, K),
         NEW before \in Margins, NEW after \in Margins
  PROVE  Cardinality(Patterns(D, n, before, after, K)) =
           Cardinality(Patterns(D, n, before, after, e[0]))
             + (IF h[1] > 0 /\ Matches(h, h[1], before, after, K - e[0]) THEN 1 ELSE 0)
<1> DEFINE P(m) == Patterns(D, n, before, after, m)
           hit == h[1] > 0 /\ Matches(h, h[1], before, after, K - e[0])
           new == <<e[0] + 1 - 7 * h[1], h[1]>>
           T == (1..n) \X (1..(n \div 7))
<1>0. e[0] \in Int /\ K \in Int /\ e[0] <= n /\ h[1] \in Nat /\ e[0] < K /\ \A q \in (e[0] + 1)..K : q \notin D
  BY DEF Closing, Chain, Run, Tone
<1>1. ASSUME NEW s \in T
      PROVE  s \in P(K) <=> s \in P(e[0]) \/ (Like(D, n, s[1], s[2], before, after)
                                               /\ s[1] + 7 * s[2] = e[0] + 1)
  <2>1. s[1] \in Int /\ s[2] \in Nat \ {0}
    BY Starts
  <2>2. Like(D, n, s[1], s[2], before, after) => s[1] + 7 * s[2] - 1 \in D
    BY <2>1, LikeEnds
  <2>3. s \in P(K) <=> Like(D, n, s[1], s[2], before, after) /\ s[1] + 7 * s[2] <= K
    BY Zenon DEF Patterns
  <2>4. s \in P(e[0]) <=> Like(D, n, s[1], s[2], before, after) /\ s[1] + 7 * s[2] <= e[0]
    BY Zenon DEF Patterns
  <2> HIDE DEF P
  <2> QED
    BY <1>0, <2>1, <2>2, <2>3, <2>4
<1>2. ASSUME NEW s \in T
      PROVE  Like(D, n, s[1], s[2], before, after) /\ s[1] + 7 * s[2] = e[0] + 1
               <=> hit /\ s = new
  <2> DEFINE p == s[1]
             u == s[2]
  <2>1. p \in Int /\ p >= 1 /\ u \in Nat \ {0} /\ 7 * u <= n /\ s = <<p, u>>
    BY Starts
  <2> HIDE DEF p, u
  <2>2. ASSUME p + 7 * u = e[0] + 1
        PROVE  Like(D, n, p, u, before, after) <=> Matches(h, u, before, after, K - e[0])
    BY <2>1, <2>2, LikeMatches
  <2>3. Matches(h, u, before, after, K - e[0]) => u = h[1]
    BY DEF Matches
  <2>4. p + 7 * u = e[0] + 1 /\ u = h[1] <=> s = new
    BY <1>0, <2>1
  <2>5. u > 0
    BY <2>1
  <2> HIDE DEF new
  <2> QED
    BY <2>2, <2>3, <2>4, <2>5 DEF p, u
<1>3. hit => new \in T
  <2> SUFFICES ASSUME hit PROVE new \in T
    OBVIOUS
  <2> DEFINE u == h[1]
  <2>1. /\ u > 0 /\ h[2] = u /\ h[3] = 3 * u /\ h[4] = u /\ h[5] = u
    BY DEF Matches
  <2>2. /\ e[0] \in Int /\ e[1] \in Int /\ e[2] \in Int /\ e[3] \in Int /\ e[4] \in Int /\ e[5] \in Int
    BY DEF Closing
  <2>3. /\ e[1] = e[0] - h[1] /\ e[2] = e[1] - h[2] /\ e[3] = e[2] - h[3] /\ e[4] = e[3] - h[4]
        /\ e[5] = e[4] - h[5] /\ (h[5] > 0 => Run(D, n, e[5], e[4], ToneOf(5, 0)))
    <3>1. \A i \in 1..7 : /\ e[i] = e[i - 1] - h[i]
                          /\ h[i] > 0 => Run(D, n, e[i], e[i - 1], ToneOf(i, 0))
      BY DEF Closing, Chain
    <3>2. /\ 1 - 1 = 0 /\ 2 - 1 = 1 /\ 3 - 1 = 2 /\ 4 - 1 = 3 /\ 5 - 1 = 4
          /\ 1 \in 1..7 /\ 2 \in 1..7 /\ 3 \in 1..7 /\ 4 \in 1..7 /\ 5 \in 1..7
      OBVIOUS
    <3> QED
      BY <3>1, <3>2
  <2> HIDE DEF u
  <2>4. u \in Nat \ {0} /\ e[5] = e[0] - 7 * u
    BY <1>0, <2>1, <2>2, <2>3 DEF u
  <2>5. e[5] + 1 \in D
    BY <2>1, <2>2, <2>3 DEF Run, Tone, ToneOf
  <2>6. e[0] + 1 - 7 * u \in 1..n
    BY <1>0, <2>4, <2>5
  <2>7. u \in 1..(n \div 7)
    <3>1. 7 * u <= n
      BY <1>0, <2>4, <2>6
    <3> QED
      BY <2>4, <3>1
  <2> QED
    BY <2>6, <2>7 DEF u
<1>4. P(K) = P(e[0]) \cup (IF hit THEN {new} ELSE {})
  <2>1. P(K) \subseteq T /\ P(e[0]) \subseteq T
    BY DEF Patterns
  <2> HIDE DEF P, T, hit, new
  <2> QED
    BY <1>1, <1>2, <1>3, <2>1
<1>5. hit => new \notin P(e[0])
  <2>1. new \in P(e[0]) => new[1] + 7 * new[2] <= e[0]
    BY Zenon DEF Patterns
  <2>2. new[1] = e[0] + 1 - 7 * h[1] /\ new[2] = h[1]
    OBVIOUS
  <2> HIDE DEF P, new
  <2> QED
    BY <1>0, <2>1, <2>2
<1>6. IsFiniteSet(P(e[0])) /\ Cardinality(P(e[0])) \in Nat
  BY PatternsFinite
<1> HIDE DEF P, new, hit
<1>7. Cardinality(P(K)) = Cardinality(P(e[0])) + (IF hit THEN 1 ELSE 0)
  <2>1. CASE hit
    <3>1. Cardinality(P(e[0]) \cup {new}) = Cardinality(P(e[0])) + 1
      BY <1>5, <1>6, <2>1, FS_AddElement
    <3> QED
      BY <1>4, <2>1, <3>1
  <2>2. CASE ~hit
    <3>1. P(K) = P(e[0])
      BY <1>4, <2>2
    <3> QED
      BY <1>6, <2>2, <3>1
  <2> QED
    BY <2>1, <2>2
<1> QED
  BY <1>7, Zenon DEF P, hit

\* CountPatterns finds the pattern that a light run comes behind, once for
\* each side with a wide margin.
LEMMA CountIs ==
  ASSUME NEW h, NEW light \in Int, NEW new, new[1] = light, \A i \in 1..6 : new[i + 1] = h[i],
         \A i \in 1..7 : h[i] \in Nat
  PROVE  CountPatterns(new) = (IF h[1] > 0 /\ Matches(h, h[1], 4, 1, light) THEN 1 ELSE 0)
                                + (IF h[1] > 0 /\ Matches(h, h[1], 1, 4, light) THEN 1 ELSE 0)
<1>1. /\ new[2] = h[1] /\ new[3] = h[2] /\ new[4] = h[3] /\ new[5] = h[4] /\ new[6] = h[5]
      /\ new[7] = h[6]
  <2>1. /\ 1 + 1 = 2 /\ 2 + 1 = 3 /\ 3 + 1 = 4 /\ 4 + 1 = 5 /\ 5 + 1 = 6 /\ 6 + 1 = 7
        /\ 1 \in 1..6 /\ 2 \in 1..6 /\ 3 \in 1..6 /\ 4 \in 1..6 /\ 5 \in 1..6 /\ 6 \in 1..6
    OBVIOUS
  <2> QED
    BY <2>1
<1>2. /\ h[1] \in Nat /\ h[2] \in Nat /\ h[3] \in Nat /\ h[4] \in Nat /\ h[5] \in Nat
      /\ h[6] \in Nat
  OBVIOUS
<1> QED
  BY <1>1, <1>2 DEF CountPatterns, Matches

LEMMA LightPoints ==
  ASSUME NEW n \in Nat \ {0}, NEW D \in SUBSET (1..n), NEW h, NEW e, NEW K,
         Closing(D, n, h, e, K), NEW new,
         new[1] = K - e[0], \A i \in 1..6 : new[i + 1] = h[i]
  PROVE  Cardinality(Patterns(D, n, 4, 1, K)) + Cardinality(Patterns(D, n, 1, 4, K)) =
           Cardinality(Patterns(D, n, 4, 1, e[0])) + Cardinality(Patterns(D, n, 1, 4, e[0]))
             + CountPatterns(new)
<1>1. 1 \in Margins /\ 4 \in Margins
  BY DEF Margins
<1> DEFINE hit(before, after) ==
             IF h[1] > 0 /\ Matches(h, h[1], before, after, K - e[0]) THEN 1 ELSE 0
<1>2. /\ Cardinality(Patterns(D, n, 4, 1, K)) = Cardinality(Patterns(D, n, 4, 1, e[0])) + hit(4, 1)
      /\ Cardinality(Patterns(D, n, 1, 4, K)) = Cardinality(Patterns(D, n, 1, 4, e[0])) + hit(1, 4)
  BY <1>1, PatternsLight
<1>3. CountPatterns(new) = hit(4, 1) + hit(1, 4)
  <2>1. \A i \in 1..7 : h[i] \in Nat
    BY DEF Closing, Chain
  <2>2. K - e[0] \in Int
    BY DEF Closing
  <2> QED
    BY <2>1, <2>2, CountIs
<1>4. /\ Cardinality(Patterns(D, n, 4, 1, e[0])) \in Nat
      /\ Cardinality(Patterns(D, n, 1, 4, e[0])) \in Nat
  BY PatternsFinite
<1>5. hit(4, 1) \in Int /\ hit(1, 4) \in Int
  OBVIOUS
<1> HIDE DEF hit
<1> QED
  BY <1>2, <1>3, <1>4, <1>5

\* Where five modules of one tone begin, the last of them up to k, and those
\* of these places where a run begins.
Fives(D, n, k) == {p \in 1..n : p + 4 <= k /\ \A j \in 1..4 : Tone(D, p + j) = Tone(D, p)}

Heads(D, n, k) == {p \in Fives(D, n, k) : p = 1 \/ Tone(D, p - 1) # Tone(D, p)}

RunPoints(D, n, k) == Cardinality(Fives(D, n, k)) + 2 * Cardinality(Heads(D, n, k))

LEMMA FivesFinite ==
  ASSUME NEW n \in Nat, NEW D, NEW k
  PROVE  /\ IsFiniteSet(Fives(D, n, k)) /\ IsFiniteSet(Heads(D, n, k))
         /\ Cardinality(Fives(D, n, k)) \in Nat /\ Cardinality(Heads(D, n, k)) \in Nat
<1>1. IsFiniteSet(1..n)
  BY FS_Interval
<1>2. Fives(D, n, k) \subseteq 1..n /\ Heads(D, n, k) \subseteq 1..n
  BY DEF Fives, Heads
<1>3. IsFiniteSet(Fives(D, n, k)) /\ IsFiniteSet(Heads(D, n, k))
  BY <1>1, <1>2, FS_Subset
<1> QED
  BY <1>3, FS_CardinalityType

\* The points of a module that prolongs a run.
LEMMA RunPointsGrow ==
  ASSUME NEW n \in Nat \ {0}, NEW D \in SUBSET (1..n), NEW k \in Nat, k + 1 <= n,
         NEW c, NEW run, NEW h, NEW e,
         Runs(D, n, k, c, run, h, e), Tone(D, k + 1) = c
  PROVE  RunPoints(D, n, k + 1) =
           RunPoints(D, n, k) + (IF run = 4 THEN 3 ELSE IF run > 4 THEN 1 ELSE 0)
<1> DEFINE q == k - 3
<1>1. run \in 0..k /\ c \in {0, 1} /\ n \in Nat
  BY DEF Runs
<1>2. \A p \in (k - run + 1)..k : Tone(D, p) = c
  BY DEF Runs, Run
<1>3. run < k => Tone(D, k - run) # c
  <2>1. ASSUME run < k PROVE h[1] # 0
    BY <2>1 DEF Runs, Chain
  <2>2. ASSUME run < k PROVE e[0] = k - run /\ e[0] # -n
    BY <1>1, <2>1, <2>2 DEF Runs
  <2> QED
    BY <2>2 DEF Runs, Run
<1>4. ASSUME NEW p \in 1..n
      PROVE  p \in Fives(D, n, k + 1) <=> p \in Fives(D, n, k) \/ (run >= 4 /\ p = q)
  <2>1. CASE p # q
    BY <2>1 DEF Fives
  <2>2. CASE p = q
    <3>1. p \notin Fives(D, n, k)
      BY <2>2 DEF Fives
    <3>2. CASE run >= 4
      <4>1. Tone(D, p) = c /\ \A j \in 1..4 : Tone(D, p + j) = c
        BY <1>1, <1>2, <2>2, <3>2
      <4> QED
        BY <2>2, <3>2, <4>1 DEF Fives
    <3>3. CASE ~ (run >= 4)
      <4>1. run < k /\ k - run \in q..k
        BY <1>1, <2>2, <3>3
      <4>2. p \in Fives(D, n, k + 1) => \A j \in 1..4 : Tone(D, p + j) = Tone(D, p)
        BY DEF Fives
      <4>3. ASSUME p \in Fives(D, n, k + 1) PROVE FALSE
        <5>1. \A j \in 0..4 : Tone(D, p + j) = Tone(D, p)
          BY <4>2, <4>3
        <5>2. Tone(D, p) = c
          <6>1. 4 \in 0..4 /\ p + 4 = k + 1
            BY <2>2
          <6> QED
            BY <5>1, <6>1
        <5>3. k - run - p \in 0..4 /\ p + (k - run - p) = k - run
          BY <1>1, <2>2, <4>1
        <5>4. Tone(D, k - run) = c
          BY <5>1, <5>2, <5>3
        <5> QED
          BY <1>3, <4>1, <5>4
      <4> QED
        BY <3>1, <3>3, <4>3
    <3> QED
      BY <3>2, <3>3
  <2> QED
    BY <2>1, <2>2
<1>5. run >= 4 => q \in 1..n /\ q \notin Fives(D, n, k) /\ Tone(D, q) = c
  BY <1>1, <1>2 DEF Fives
<1>6. Fives(D, n, k) \subseteq 1..n /\ Fives(D, n, k + 1) \subseteq 1..n
  BY DEF Fives
<1>7. Fives(D, n, k + 1) = Fives(D, n, k) \cup (IF run >= 4 THEN {q} ELSE {})
  BY <1>4, <1>5, <1>6
<1>8. run >= 4 => ((q = 1 \/ Tone(D, q - 1) # Tone(D, q)) <=> run = 4)
  <2>1. ASSUME run = 4 PROVE q = 1 \/ Tone(D, q - 1) # Tone(D, q)
    BY <1>1, <1>3, <1>5, <2>1
  <2>2. ASSUME run > 4 PROVE q # 1 /\ Tone(D, q - 1) = Tone(D, q)
    BY <1>1, <1>2, <1>5, <2>2
  <2> QED
    BY <1>1, <2>1, <2>2
<1>9. Heads(D, n, k + 1) = Heads(D, n, k) \cup (IF run = 4 THEN {q} ELSE {})
  <2>1. Fives(D, n, k + 1) = Fives(D, n, k) \cup (IF run >= 4 THEN {q} ELSE {})
    BY <1>7
  <2> HIDE DEF q
  <2> QED
    BY <1>1, <1>8, <2>1 DEF Heads
<1>10. q \notin Fives(D, n, k) => q \notin Heads(D, n, k)
  BY DEF Heads
<1>11. /\ IsFiniteSet(Fives(D, n, k)) /\ Cardinality(Fives(D, n, k)) \in Nat
       /\ IsFiniteSet(Heads(D, n, k)) /\ Cardinality(Heads(D, n, k)) \in Nat
  BY FivesFinite
<1> HIDE DEF q
<1>12. Cardinality(Fives(D, n, k + 1)) = Cardinality(Fives(D, n, k)) + (IF run >= 4 THEN 1 ELSE 0)
  <2>1. CASE run >= 4
    BY <1>5, <1>7, <1>11, <2>1, FS_AddElement
  <2>2. CASE ~ (run >= 4)
    <3>1. Fives(D, n, k + 1) = Fives(D, n, k)
      BY <1>7, <2>2
    <3> QED
      BY <1>11, <2>2, <3>1
  <2> QED
    BY <2>1, <2>2
<1>13. Cardinality(Heads(D, n, k + 1)) = Cardinality(Heads(D, n, k)) + (IF run = 4 THEN 1 ELSE 0)
  <2>1. CASE run = 4
    BY <1>5, <1>9, <1>10, <1>11, <2>1, FS_AddElement
  <2>2. CASE run # 4
    <3>1. Heads(D, n, k + 1) = Heads(D, n, k)
      BY <1>9, <2>2
    <3> QED
      BY <1>11, <2>2, <3>1
  <2> QED
    BY <2>1, <2>2
<1> QED
  BY <1>1, <1>11, <1>12, <1>13 DEF RunPoints

\* A module of another tone ends a run and brings none.
LEMMA RunPointsChange ==
  ASSUME NEW n \in Nat \ {0}, NEW D \in SUBSET (1..n), NEW k \in Nat, k + 1 <= n,
         NEW c, NEW run, NEW h, NEW e,
         Runs(D, n, k, c, run, h, e), Tone(D, k + 1) # c
  PROVE  RunPoints(D, n, k + 1) = RunPoints(D, n, k)
<1>1. k > 0 => Tone(D, k) = c
  BY DEF Runs, Run
<1>2. ASSUME NEW p \in 1..n
      PROVE  p \in Fives(D, n, k + 1) <=> p \in Fives(D, n, k)
  <2>1. CASE p + 4 # k + 1
    BY <2>1 DEF Fives
  <2>2. CASE p + 4 = k + 1
    <3>1. p \notin Fives(D, n, k)
      BY <2>2 DEF Fives
    <3>2. p \in Fives(D, n, k + 1) => Tone(D, p + 4) = Tone(D, p) /\ Tone(D, p + 3) = Tone(D, p)
      BY DEF Fives
    <3>3. p + 4 = k + 1 /\ p + 3 = k /\ k > 0
      BY <2>2
    <3> QED
      BY <1>1, <3>1, <3>2, <3>3
  <2> QED
    BY <2>1, <2>2
<1>3. Fives(D, n, k + 1) = Fives(D, n, k)
  <2>1. Fives(D, n, k) \subseteq 1..n /\ Fives(D, n, k + 1) \subseteq 1..n
    BY DEF Fives
  <2> QED
    BY <1>2, <2>1
<1> QED
  BY <1>3 DEF RunPoints, Heads

\* The points that a reader of the line gives for its first k modules and the
\* patterns that end before m.
Points(D, n, k, m) ==
  RunPoints(D, n, k) + 40 * Cardinality(Patterns(D, n, 4, 1, m))
    + 40 * Cardinality(Patterns(D, n, 1, 4, m))

LEMMA PointsTyped ==
  ASSUME NEW n \in Nat, NEW D, NEW k, NEW m
  PROVE  /\ RunPoints(D, n, k) \in Nat /\ Points(D, n, k, m) \in Nat
         /\ Cardinality(Patterns(D, n, 4, 1, m)) \in Nat
         /\ Cardinality(Patterns(D, n, 1, 4, m)) \in Nat
<1>1. /\ Cardinality(Patterns(D, n, 4, 1, m)) \in Nat
      /\ Cardinality(Patterns(D, n, 1, 4, m)) \in Nat
  BY PatternsFinite
<1>2. RunPoints(D, n, k) \in Nat
  BY FivesFinite DEF RunPoints
<1> QED
  BY <1>1, <1>2 DEF Points

Shade(b) == IF b THEN 1 ELSE 0

LEMMA ShadeIs ==
  ASSUME NEW b \in BOOLEAN, NEW c \in BOOLEAN
  PROVE  /\ Shade(b) \in {0, 1} /\ (b <=> Shade(b) = 1) /\ (b = c <=> Shade(b) = Shade(c))
<1>1. Shade(TRUE) = 1 /\ Shade(FALSE) = 0 /\ 0 # 1
  BY DEF Shade
<1>2. CASE b
  <2>1. b = TRUE /\ Shade(b) = 1
    BY <1>1, <1>2, Zenon
  <2> QED
    BY <1>1, <2>1, Zenon
<1>3. CASE ~b
  <2>1. b = FALSE /\ Shade(b) = 0
    BY <1>1, <1>3, Zenon
  <2> QED
    BY <1>1, <2>1, Zenon
<1> QED
  BY <1>2, <1>3

LEMMA HistoryFirst ==
  ASSUME NEW ver \in 1..40, NEW run \in Int, NEW history \in Histories
  PROVE  AddHistory(run, history, ver)[1] = run + (IF history[1] = 0 THEN Size(ver) ELSE 0)
<1> DEFINE first == run + (IF history[1] = 0 THEN Size(ver) ELSE 0)
<1>1. SubSeq(history, 1, 6) \in Seq(Int)
  <2>1. history \in Seq(Int) /\ Len(history) = 7
    BY DEF Histories
  <2>2. ASSUME NEW j \in 1..6 PROVE history[j] \in Int
    <3>1. j \in 1..Len(history)
      BY <2>1
    <3> QED
      BY <2>1, <3>1, ElementOfSeq
  <2> QED
    BY <2>2, SubSeqProperties
<1> HIDE DEF first
<1>2. (<<first>> \o SubSeq(history, 1, 6))[1] = first
  BY <1>1
<1> QED
  BY <1>2 DEF AddHistory, first

\* What the scan of a line knows after k of its modules, and what it has
\* counted: the runs, and the patterns that end before the run it is in.
LineInv(D, n, k, s) ==
  \E e : /\ Runs(D, n, k, Shade(s.color), s.run, s.history, e)
         /\ s.score = Points(D, n, k, e[0])

LEMMA LineStep ==
  ASSUME NEW ver \in 1..40, NEW n, n = Size(ver), NEW D \in SUBSET (1..n),
         NEW k \in Nat, k + 1 <= n, NEW s \in Scans(BOOLEAN), LineInv(D, n, k, s),
         NEW b \in BOOLEAN, Shade(b) = Tone(D, k + 1)
  PROVE  LineInv(D, n, k + 1, ScanModule(s, b, ver))
<1>1. /\ s.color \in BOOLEAN /\ s.run \in Int /\ s.history \in Histories /\ s.score \in Nat
      /\ s = [color |-> s.color, run |-> s.run, history |-> s.history, score |-> s.score]
  BY DEF Scans
<1>2. n \in Nat \ {0}
  BY SizeOf
<1>3. PICK e : /\ Runs(D, n, k, Shade(s.color), s.run, s.history, e)
               /\ s.score = Points(D, n, k, e[0])
  BY DEF LineInv
<1> DEFINE c == Shade(s.color)
           run == s.run
           h == s.history
<1>4. c \in {0, 1} /\ (s.color <=> c = 1) /\ (b = s.color <=> Tone(D, k + 1) = c)
  BY <1>1, ShadeIs
<1>5. Runs(D, n, k, c, run, h, e) /\ s.score = Points(D, n, k, e[0])
  BY <1>3
<1>6. CASE b = s.color
  <2> DEFINE more == IF run = 4 THEN 3 ELSE IF run > 4 THEN 1 ELSE 0
  <2>1. ScanModule(s, b, ver) =
          [color |-> s.color, run |-> run + 1, history |-> h, score |-> s.score + more]
    BY <1>1, <1>6 DEF ScanModule
  <2>2. more \in Nat
    OBVIOUS
  <2>3. RunPoints(D, n, k + 1) = RunPoints(D, n, k) + more
    <3> HIDE DEF c, run, h
    <3> QED
      BY <1>2, <1>4, <1>5, <1>6, RunPointsGrow
  <2>4. Runs(D, n, k + 1, c, run + 1, h, e)
    <3> HIDE DEF c, run, h
    <3> QED
      BY <1>2, <1>4, <1>5, <1>6, RunsGrow
  <2> HIDE DEF more
  <2>5. Points(D, n, k + 1, e[0]) = s.score + more
    BY <1>2, <1>5, <2>2, <2>3, PointsTyped DEF Points
  <2>6. /\ ScanModule(s, b, ver).color = s.color /\ ScanModule(s, b, ver).run = run + 1
        /\ ScanModule(s, b, ver).history = h /\ ScanModule(s, b, ver).score = s.score + more
    BY <2>1
  <2> QED
    BY <2>4, <2>5, <2>6 DEF LineInv
<1>7. CASE b # s.color
  <2> DEFINE new == AddHistory(run, h, ver)
             more == IF s.color THEN 0 ELSE 40 * CountPatterns(new)
             f == [i \in 0..7 |-> IF i = 0 THEN k ELSE e[i - 1]]
  <2>1. ScanModule(s, b, ver) =
          [color |-> b, run |-> 1, history |-> new, score |-> s.score + more]
    BY <1>7 DEF ScanModule
  <2>2. /\ new[1] = run + (IF h[1] = 0 THEN n ELSE 0)
        /\ \A i \in 1..6 : new[i + 1] = h[i]
    BY <1>1, HistoryFirst, HistoryShifted
  <2>3. Tone(D, k + 1) = 1 - c /\ Shade(b) = 1 - c /\ Tone(D, k + 1) # c
    BY <1>4, <1>7 DEF Tone
  <2>4. f[0] = k
    OBVIOUS
  <2>5. Runs(D, n, k + 1, 1 - c, 1, new, f)
    <3> HIDE DEF c, run, h, new
    <3> QED
      BY <1>2, <1>5, <2>2, <2>3, RunsChange
  <2>6. RunPoints(D, n, k + 1) = RunPoints(D, n, k)
    <3> HIDE DEF c, run, h, new
    <3> QED
      BY <1>2, <1>5, <2>3, RunPointsChange
  <2> DEFINE sum(m) == Cardinality(Patterns(D, n, 4, 1, m)) + Cardinality(Patterns(D, n, 1, 4, m))
  <2>7. /\ more \in Nat
        /\ 40 * sum(k) = 40 * sum(e[0]) + more
    <3>1. CASE c = 0
      <4>1. Closing(D, n, h, e, k)
        <5>1. k + 1 \in D /\ k < n
          BY <1>2, <2>3, <3>1 DEF Tone
        <5>2. e \in [0..7 -> Int] /\ Run(D, n, e[0], k, 0) /\ Chain(D, n, h, e, 0)
          BY <1>5, <3>1 DEF Runs
        <5>3. e[0] <= n
          BY <1>2, <5>1, <5>2 DEF Run
        <5> QED
          BY <5>1, <5>2, <5>3 DEF Closing
      <4>2. new[1] = k - e[0]
        <5>1. e[0] = k - (run + (IF h[1] = 0 THEN n ELSE 0)) /\ run \in Nat
          BY <1>5 DEF Runs
        <5> HIDE DEF run, h, new
        <5> QED
          BY <1>2, <2>2, <5>1
      <4>3. sum(k) = sum(e[0]) + CountPatterns(new)
        <5> HIDE DEF c, run, h, new
        <5> QED
          BY <1>2, <2>2, <4>1, <4>2, LightPoints
      <4>4. more = 40 * CountPatterns(new)
        BY <1>4, <3>1
      <4>5. CountPatterns(new) \in Nat
        BY CountBounds
      <4>6. sum(e[0]) \in Nat
        BY <1>2, PointsTyped
      <4> HIDE DEF sum, more, new
      <4> QED
        BY <4>3, <4>4, <4>5, <4>6
    <3>2. CASE c = 1
      <4>1. e[0] \in Int /\ Run(D, n, e[0], k, 1)
        BY <1>5, <3>2 DEF Runs
      <4>2. \A before, after \in Margins :
              Patterns(D, n, before, after, k) = Patterns(D, n, before, after, e[0])
        BY <1>2, <4>1, PatternsDark
      <4>3. sum(k) = sum(e[0])
        BY <4>2 DEF Margins
      <4>4. more = 0
        BY <1>4, <3>2
      <4>5. sum(e[0]) \in Nat
        BY <1>2, PointsTyped
      <4> HIDE DEF sum, more
      <4> QED
        BY <4>3, <4>4, <4>5
    <3> QED
      BY <1>4, <3>1, <3>2
  <2>8. Points(D, n, k + 1, f[0]) = s.score + more
    <3>1. /\ \A m : Points(D, n, k, m) = RunPoints(D, n, k) + 40 * sum(m)
          /\ \A m : Points(D, n, k + 1, m) = RunPoints(D, n, k + 1) + 40 * sum(m)
      BY <1>2, PointsTyped DEF Points
    <3>2. \A m : RunPoints(D, n, k) \in Nat /\ sum(m) \in Nat
      BY <1>2, PointsTyped
    <3> HIDE DEF sum, more, f
    <3>3. Points(D, n, k + 1, f[0]) = RunPoints(D, n, k) + 40 * sum(k)
      BY <2>4, <2>6, <3>1
    <3>4. s.score = RunPoints(D, n, k) + 40 * sum(e[0])
      BY <1>5, <3>1
    <3>5. 40 * sum(e[0]) \in Nat /\ RunPoints(D, n, k) \in Nat
      BY <3>2
    <3> QED
      BY <2>7, <3>3, <3>4, <3>5
  <2> HIDE DEF new, more, f
  <2>9. /\ ScanModule(s, b, ver).color = b /\ ScanModule(s, b, ver).run = 1
        /\ ScanModule(s, b, ver).history = new /\ ScanModule(s, b, ver).score = s.score + more
    BY <2>1
  <2> QED
    BY <2>3, <2>5, <2>8, <2>9 DEF LineInv
<1> QED
  BY <1>6, <1>7

\* The end of a line, with the light border behind it.
LEMMA LineEnd ==
  ASSUME NEW ver \in 1..40, NEW n, n = Size(ver), NEW D \in SUBSET (1..n),
         NEW s \in Scans(BOOLEAN), LineInv(D, n, n, s)
  PROVE  s.score + 40 * TerminateAndCount(s, ver) = Points(D, n, n, 2 * n)
<1>1. s.color \in BOOLEAN /\ s.run \in Int /\ s.history \in Histories
  BY DEF Scans
<1>2. n \in Nat \ {0}
  BY DEF Size
<1>3. PICK e : /\ Runs(D, n, n, Shade(s.color), s.run, s.history, e)
               /\ s.score = Points(D, n, n, e[0])
  BY DEF LineInv
<1> DEFINE c == Shade(s.color)
           run == s.run
           h == s.history
           first == AddHistory(run, h, ver)
           sum(m) == Cardinality(Patterns(D, n, 4, 1, m)) + Cardinality(Patterns(D, n, 1, 4, m))
<1>4. c \in {0, 1} /\ (s.color <=> c = 1)
  BY <1>1, ShadeIs
<1>5. Runs(D, n, n, c, run, h, e) /\ s.score = Points(D, n, n, e[0])
  BY <1>3
<1>6. /\ run \in Int /\ h \in Histories /\ e \in [0..7 -> Int] /\ Run(D, n, e[0], n, c)
      /\ e[0] = n - (run + (IF h[1] = 0 THEN n ELSE 0)) /\ Chain(D, n, h, e, c)
  BY <1>1, <1>5 DEF Runs
<1>7. CASE c = 0
  <2> DEFINE last == AddHistory(run + n, h, ver)
  <2>1. TerminateAndCount(s, ver) = CountPatterns(last)
    BY <1>4, <1>7 DEF TerminateAndCount
  <2>2. /\ last[1] = run + n + (IF h[1] = 0 THEN n ELSE 0)
        /\ \A i \in 1..6 : last[i + 1] = h[i]
    <3> HIDE DEF c, run, h
    <3>1. run + n \in Int /\ Size(ver) = n
      BY <1>2, <1>6
    <3> QED
      BY <1>6, <3>1, HistoryFirst, HistoryShifted
  <2> HIDE DEF c, run, h, last
  <2>3. last[1] = 2 * n - e[0]
    BY <1>2, <1>6, <2>2
  <2>4. Closing(D, n, h, e, 2 * n)
    <3>1. Run(D, n, e[0], 2 * n, 0) /\ e[0] <= n
      BY <1>2, <1>6, <1>7 DEF Run, Tone
    <3> QED
      BY <1>2, <1>6, <1>7, <3>1 DEF Closing
  <2> QED
    <3>1. sum(2 * n) = sum(e[0]) + CountPatterns(last)
      BY <1>2, <2>2, <2>3, <2>4, LightPoints
    <3> QED
      BY <1>2, <1>5, <2>1, <3>1, PointsTyped, CountBounds DEF Points
<1>8. CASE c = 1
  <2> DEFINE last == AddHistory(n, first, ver)
             f == [i \in 0..7 |-> IF i = 0 THEN n ELSE e[i - 1]]
  <2>1. TerminateAndCount(s, ver) = CountPatterns(last)
    BY <1>4, <1>8 DEF TerminateAndCount
  <2>2. /\ first[1] = run + (IF h[1] = 0 THEN n ELSE 0)
        /\ \A i \in 1..6 : first[i + 1] = h[i]
        /\ first \in Histories
    BY <1>6, HistoryFirst, HistoryShifted, HistoryTyped
  <2>3. f \in [0..7 -> Int] /\ f[0] = n /\ \A i \in 1..7 : f[i] = e[i - 1]
    BY <1>2, <1>6
  <2> HIDE DEF c, run, h, first, f
  <2>4. first[1] > 0 /\ Chain(D, n, first, f, 0)
    <3>1. first[1] > 0 /\ Chain(D, n, first, f, 1 - c)
      BY <1>2, <1>5, <2>2, <2>3, ChainChange
    <3> QED
      BY <1>8, <3>1
  <2>5. last[1] = n /\ \A i \in 1..6 : last[i + 1] = first[i]
    <3>1. last[1] = n + (IF first[1] = 0 THEN n ELSE 0)
      BY <1>2, <2>2, HistoryFirst
    <3> QED
      BY <1>2, <2>2, <2>4, <3>1, HistoryShifted
  <2> HIDE DEF last
  <2>6. Closing(D, n, first, f, 2 * n)
    <3>1. Run(D, n, f[0], 2 * n, 0)
      BY <1>2, <1>6, <1>8, <2>3 DEF Run, Tone
    <3> QED
      BY <1>2, <2>3, <2>4, <3>1 DEF Closing
  <2>7. sum(2 * n) = sum(n) + CountPatterns(last)
    BY <1>2, <2>3, <2>5, <2>6, LightPoints
  <2>8. sum(n) = sum(e[0])
    <3>1. \A before, after \in Margins :
            Patterns(D, n, before, after, n) = Patterns(D, n, before, after, e[0])
      BY <1>2, <1>6, <1>8, PatternsDark
    <3> QED
      BY <3>1 DEF Margins
  <2> QED
    BY <1>2, <1>5, <2>1, <2>7, <2>8, PointsTyped, CountBounds DEF Points
<1> QED
  BY <1>4, <1>7, <1>8

LEMMA MaxOfTwo ==
  ASSUME NEW a \in Int, NEW b \in Int
  PROVE  Max({a, b}) = (IF a >= b THEN a ELSE b) /\ Min({a, b}) = (IF a <= b THEN a ELSE b)
<1>1. \A x \in {a, b} : (\A y \in {a, b} : x >= y) <=> x = (IF a >= b THEN a ELSE b)
  OBVIOUS
<1>2. \A x \in {a, b} : (\A y \in {a, b} : x =< y) <=> x = (IF a <= b THEN a ELSE b)
  OBVIOUS
<1> QED
  BY <1>1, <1>2 DEF Max, Min

\* The reference of a line, in terms of its dark positions.
LEMMA ReferenceIs ==
  ASSUME NEW ver \in 1..40, NEW n, n = Size(ver), NEW D \in SUBSET (1..n),
         NEW line, line = [q \in 1..n |-> q \in D]
  PROVE  LineReference(line, ver) = Points(D, n, n, 2 * n)
<1>1. n \in Nat \ {0}
  BY DEF Size
<1>2. \A q \in 1..n : line[q] = (q \in D)
  OBVIOUS
<1> DEFINE same(p) == p + 4 <= n /\ \A k \in 1..4 : line[p + k] = line[p]
           fives == {p \in 1..n : same(p)}
           heads == {p \in fives : p = 1 \/ line[p - 1] # line[p]}
           light(a, b) == \A p \in Max({1, a})..Min({n, b}) : ~line[p]
           core(p, u) == \A o \in 0..(7 * u - 1) : line[p + o] <=> (o \div u \notin {1, 5})
           like(p, u, before, after) ==
             /\ p + 7 * u - 1 <= n
             /\ core(p, u)
             /\ light(p - before * u, p - 1)
             /\ light(p + 7 * u, p + (7 + after) * u - 1)
           starts == (1..n) \X (1..(n \div 7))
<1>3. LineReference(line, ver) =
        Cardinality(fives) + 2 * Cardinality(heads)
          + 40 * Cardinality({s \in starts : like(s[1], s[2], 4, 1)})
          + 40 * Cardinality({s \in starts : like(s[1], s[2], 1, 4)})
  BY Zenon DEF LineReference
<1>4. fives = Fives(D, n, n)
  <2>1. ASSUME NEW p \in 1..n
        PROVE  same(p) <=> p + 4 <= n /\ \A j \in 1..4 : Tone(D, p + j) = Tone(D, p)
    <3>1. p + 4 <= n => \A j \in 1..4 : (line[p + j] = line[p]) <=> (Tone(D, p + j) = Tone(D, p))
      <4> SUFFICES ASSUME p + 4 <= n, NEW j \in 1..4
                   PROVE  (line[p + j] = line[p]) <=> (Tone(D, p + j) = Tone(D, p))
        OBVIOUS
      <4>1. line[p + j] = (p + j \in D) /\ line[p] = (p \in D)
        BY <1>1, <1>2
      <4> HIDE DEF same
      <4> QED
        BY <4>1 DEF Tone
    <3> QED
      BY <3>1
  <2> HIDE DEF same
  <2> QED
    BY <2>1 DEF Fives
<1>5. heads = Heads(D, n, n)
  <2>1. ASSUME NEW p \in 1..n, p # 1
        PROVE  (line[p - 1] # line[p]) <=> (Tone(D, p - 1) # Tone(D, p))
    <3>1. line[p - 1] = (p - 1 \in D) /\ line[p] = (p \in D)
      BY <1>1, <1>2, <2>1
    <3> QED
      BY <3>1 DEF Tone
  <2>2. fives \subseteq 1..n
    OBVIOUS
  <2> HIDE DEF fives
  <2> QED
    BY <1>4, <2>1, <2>2 DEF Heads
<1>6. ASSUME NEW a \in Int, NEW b \in Int
      PROVE  light(a, b) <=> \A q \in a..b : q \notin D
  <2>1. /\ Max({1, a}) = (IF 1 >= a THEN 1 ELSE a)
        /\ Min({n, b}) = (IF n <= b THEN n ELSE b)
    <3>1. 1 \in Int /\ n \in Int
      BY <1>1
    <3> QED
      BY <3>1, MaxOfTwo, Zenon
  <2>2. light(a, b) <=> \A q \in a..b : q \in 1..n => ~line[q]
    <3>1. \A q : q \in Max({1, a})..Min({n, b}) <=> q \in a..b /\ q \in 1..n
      BY <1>1, <2>1
    <3> QED
      BY <3>1
  <2>3. \A q \in a..b : (q \in 1..n => ~line[q]) <=> q \notin D
    BY <1>2
  <2> HIDE DEF light
  <2> QED
    BY <2>2, <2>3
<1>7. ASSUME NEW p \in 1..n, NEW u \in Nat \ {0}, p + 7 * u - 1 <= n
      PROVE  core(p, u) <=> \A o \in 0..(7 * u - 1) : p + o \in D <=> (o \div u \notin {1, 5})
  <2>1. ASSUME NEW o \in 0..(7 * u - 1)
        PROVE  line[p + o] <=> p + o \in D
    <3>1. p + o \in 1..n
      BY <1>1, <1>7
    <3> QED
      BY <1>2, <3>1
  <2> QED
    BY <2>1
<1>8. ASSUME NEW before \in Margins, NEW after \in Margins
      PROVE  {s \in starts : like(s[1], s[2], before, after)} = Patterns(D, n, before, after, 2 * n)
  <2>1. ASSUME NEW s \in starts
        PROVE  like(s[1], s[2], before, after)
                 <=> Like(D, n, s[1], s[2], before, after) /\ s[1] + 7 * s[2] <= 2 * n
    <3> DEFINE p == s[1]
               u == s[2]
    <3>1. p \in 1..n /\ u \in Nat \ {0} /\ 7 * u <= n
      BY <1>1, Starts
    <3>2. before \in Nat /\ after \in Nat
      BY DEF Margins
    <3> HIDE DEF p, u
    <3>3. p + 7 * u <= 2 * n
      BY <1>1, <3>1
    <3>4. p - before * u \in Int /\ p - 1 \in Int /\ p + 7 * u \in Int /\ p + (7 + after) * u - 1 \in Int
      BY <1>1, <3>1, <3>2
    <3>5. /\ light(p - before * u, p - 1) <=> \A q \in (p - before * u)..(p - 1) : q \notin D
          /\ light(p + 7 * u, p + (7 + after) * u - 1)
               <=> \A q \in (p + 7 * u)..(p + (7 + after) * u - 1) : q \notin D
      <4> HIDE DEF light
      <4> QED
        BY <1>6, <3>4
    <3>6. like(p, u, before, after) <=> Like(D, n, p, u, before, after)
      <4>1. p + 7 * u - 1 <= n =>
              (core(p, u) <=> \A o \in 0..(7 * u - 1) : p + o \in D <=> (o \div u \notin {1, 5}))
        BY <1>7, <3>1
      <4> HIDE DEF core, light
      <4> QED
        BY <3>5, <4>1, Zenon DEF Like
    <3> QED
      BY <3>3, <3>6 DEF p, u
  <2> HIDE DEF like
  <2> QED
    BY <2>1 DEF Patterns
<1>9. /\ {s \in starts : like(s[1], s[2], 4, 1)} = Patterns(D, n, 4, 1, 2 * n)
      /\ {s \in starts : like(s[1], s[2], 1, 4)} = Patterns(D, n, 1, 4, 2 * n)
  <2> HIDE DEF like, starts
  <2> QED
    BY <1>8 DEF Margins
<1> HIDE DEF fives, heads, like, starts
<1> QED
  BY <1>3, <1>4, <1>5, <1>9 DEF Points, RunPoints

\* The score of a line is what its comments describe.
LEMMA LineCorrect ==
  ASSUME NEW ver \in 1..40, NEW n, n = Size(ver), NEW D \in SUBSET (1..n),
         NEW line, line = [q \in 1..n |-> q \in D]
  PROVE  LineScore(line, ver) = LineReference(line, ver)
<1> DEFINE start == [color |-> FALSE, run |-> 0, history |-> [i \in 1..7 |-> 0], score |-> 0]
           scan[k \in 0..n] ==
             IF k = 0 THEN start ELSE LET s == scan[k - 1] IN ScanModule(s, line[k], ver)
           end == scan[n]
<1>1. n \in Nat \ {0}
  BY DEF Size
<1>2. start \in Scans(BOOLEAN)
  BY DEF Scans, Histories
<1>3. ASSUME NEW k \in 1..n
      PROVE  line[k] \in BOOLEAN /\ Shade(line[k]) = Tone(D, k)
  <2>1. line[k] = (k \in D)
    OBVIOUS
  <2>2. Shade(k \in D) = Tone(D, k) /\ (k \in D) \in BOOLEAN
    BY DEF Shade, Tone
  <2> QED
    BY <2>1, <2>2, Zenon
<1>4. LineScore(line, ver) = end.score + 40 * TerminateAndCount(end, ver)
  BY DEF LineScore
<1>5. scan = Scan(line, start, n, ver)
  BY DEF Scan
<1> HIDE DEF start, scan
<1>6. /\ scan[0] = start /\ \A k \in 1..n : scan[k] = ScanModule(scan[k - 1], line[k], ver)
      /\ \A k \in 0..n : scan[k] \in Scans(BOOLEAN)
  <2> DEFINE C == BOOLEAN
  <2>1. start \in Scans(C) /\ n \in Nat
    BY <1>1, <1>2
  <2>2. Colored(line, n, C)
    BY <1>3, Zenon DEF Colored
  <2> HIDE DEF C
  <2>3. Follows(scan, start, line, n, ver) /\ Stay(scan, n, Scans(C))
    BY <1>5, <2>1, <2>2, ScanFollows
  <2> QED
    BY <2>3, Zenon DEF C, Follows, Stay
<1>7. LineInv(D, n, 0, scan[0])
  <2>1. /\ start.color = FALSE /\ start.run = 0 /\ start.history = [i \in 1..7 |-> 0]
        /\ start.score = 0
    BY DEF start
  <2>2. Shade(start.color) = 0
    BY <2>1 DEF Shade
  <2> DEFINE e == [i \in 0..7 |-> -n]
  <2>3. \A i \in 1..7 : start.history[i] = 0
    BY <2>1
  <2>4. Runs(D, n, 0, 0, 0, start.history, e)
    BY <1>1, <2>3, RunsBegin
  <2>5. e[0] = -n
    OBVIOUS
  <2> HIDE DEF e
  <2>6. Points(D, n, 0, e[0]) = 0
    <3>1. Fives(D, n, 0) = {} /\ Heads(D, n, 0) = {}
      BY <1>1 DEF Fives, Heads
    <3>2. \A before, after : Patterns(D, n, before, after, e[0]) = {}
      <4> SUFFICES ASSUME NEW before, NEW after, NEW s \in (1..n) \X (1..(n \div 7)),
                          s[1] + 7 * s[2] <= e[0]
                   PROVE  FALSE
        BY DEF Patterns
      <4>1. s[1] \in 1..n /\ s[2] \in Nat \ {0}
        BY <1>1, Starts
      <4> QED
        BY <1>1, <2>5, <4>1
    <3>3. Cardinality({}) = 0
      BY FS_EmptySet
    <3>4. /\ Cardinality(Fives(D, n, 0)) = 0 /\ Cardinality(Heads(D, n, 0)) = 0
          /\ Cardinality(Patterns(D, n, 4, 1, e[0])) = 0
          /\ Cardinality(Patterns(D, n, 1, 4, e[0])) = 0
      BY <3>1, <3>2, <3>3, Zenon
    <3> QED
      BY <3>4 DEF Points, RunPoints
  <2> QED
    BY <1>6, <2>1, <2>2, <2>4, <2>6 DEF LineInv
<1> DEFINE N == {k \in Nat : k <= n => LineInv(D, n, k, scan[k])}
<1>8. ASSUME NEW k \in Nat, k \in N PROVE k + 1 \in N
  <2> SUFFICES ASSUME k + 1 <= n PROVE LineInv(D, n, k + 1, scan[k + 1])
    OBVIOUS
  <2>1. LineInv(D, n, k, scan[k])
    BY <1>1, <1>8
  <2>2. k \in 0..n /\ k + 1 \in 1..n
    BY <1>1
  <2>3. scan[k] \in Scans(BOOLEAN) /\ scan[k + 1] = ScanModule(scan[k], line[k + 1], ver)
    <3>1. k + 1 - 1 = k
      OBVIOUS
    <3> QED
      BY <1>6, <2>2, <3>1
  <2>4. line[k + 1] \in BOOLEAN /\ Shade(line[k + 1]) = Tone(D, k + 1)
    BY <1>3, <2>2
  <2>5. LineInv(D, n, k + 1, ScanModule(scan[k], line[k + 1], ver))
    BY <2>1, <2>3, <2>4, LineStep
  <2> QED
    BY <2>3, <2>5
<1>9. n \in N
  <2>1. 0 \in N
    BY <1>7
  <2> HIDE DEF N
  <2> QED
    BY <1>1, <1>8, <2>1, Induction
<1>10. end \in Scans(BOOLEAN) /\ LineInv(D, n, n, end)
  BY <1>1, <1>6, <1>9
<1> HIDE DEF end
<1>11. end.score + 40 * TerminateAndCount(end, ver) = Points(D, n, n, 2 * n)
  BY <1>10, LineEnd
<1> QED
  BY <1>4, <1>11, ReferenceIs

\* The step of the balance that getPenaltyScore computes is the smallest that
\* the share of dark modules is within.
LEMMA BalanceCorrect ==
  ASSUME NEW ver \in 1..40, NEW d \in SUBSET Grid(ver)
  PROVE  LET total == Size(ver) * Size(ver)
             off == Abs(20 * Cardinality(d) - 10 * total)
         IN (off + total - 1) \div total - 1 = BalanceReference(d, ver)
<1> DEFINE total == Size(ver) * Size(ver)
           count == Cardinality(d)
           off == Abs(20 * count - 10 * total)
           quotient == (off + total - 1) \div total
           within(k) == (45 - 5 * k) * total <= 100 * count /\ 100 * count <= (55 + 5 * k) * total
<1>1. total \in Nat /\ total >= 1
  <2>1. Size(ver) \in Nat /\ Size(ver) >= 1
    BY DEF Size
  <2> HIDE DEF total
  <2>2. total = Size(ver) * Size(ver)
    BY DEF total
  <2> QED
    BY <2>1, <2>2
<1>2. count \in Nat
  <2>1. IsFiniteSet(d)
    BY GridSize, FS_Subset
  <2> QED
    BY <2>1, FS_CardinalityType
<1>3. quotient - 1 \in 0..9
  BY PenaltyBound
<1>4. BalanceReference(d, ver) = Min({k \in 0..9 : within(k)})
  BY Zenon DEF BalanceReference
<1> HIDE DEF total, count
<1>5. off \in Nat /\ (off = 20 * count - 10 * total \/ off = 10 * total - 20 * count)
      /\ off >= 20 * count - 10 * total /\ off >= 10 * total - 20 * count
  BY <1>1, <1>2 DEF Abs
<1> HIDE DEF off
<1>6. ASSUME NEW k \in 0..9
      PROVE  within(k) <=> off <= (k + 1) * total
  <2> DEFINE part == k * total
  <2>1. part \in Int /\ (45 - 5 * k) * total = 45 * total - 5 * part
        /\ (55 + 5 * k) * total = 55 * total + 5 * part /\ (k + 1) * total = part + total
    BY <1>1
  <2> HIDE DEF part
  <2> QED
    BY <1>1, <1>2, <1>5, <2>1
<1>7. quotient \in Int /\ off <= quotient * total /\ off > (quotient - 1) * total
  <2> DEFINE rest == (off + total - 1) % total
             whole == total * quotient
  <2>1. quotient \in Int /\ rest \in Int /\ rest >= 0 /\ rest < total
        /\ off + total - 1 = whole + rest /\ whole \in Int
    BY <1>1, <1>5
  <2>2. quotient * total = whole /\ (quotient - 1) * total = whole - total
    <3>1. \A a, b \in Int : b * a = a * b /\ (b - 1) * a = a * b - a
      OBVIOUS
    <3> HIDE DEF quotient
    <3> QED
      BY <1>1, <2>1, <3>1
  <2> HIDE DEF rest, whole, quotient
  <2> QED
    BY <1>1, <1>5, <2>1, <2>2
<1> HIDE DEF quotient
<1>8. within(quotient - 1)
  BY <1>3, <1>6, <1>7
<1>9. ASSUME NEW k \in 0..9, within(k)
      PROVE  quotient - 1 <= k
  <2> SUFFICES ASSUME k + 1 <= quotient - 1 PROVE FALSE
    BY <1>7
  <2>1. (k + 1) * total <= (quotient - 1) * total
    BY <1>1, <1>7
  <2> QED
    <3> DEFINE a == (k + 1) * total
               b == (quotient - 1) * total
    <3>1. a \in Int /\ b \in Int /\ a <= b /\ off <= a /\ off > b
      BY <1>1, <1>6, <1>7, <1>9, <2>1
    <3> HIDE DEF a, b
    <3> QED
      BY <1>5, <3>1
<1> HIDE DEF within
<1>10. Min({k \in 0..9 : within(k)}) = quotient - 1
  <2>1. \A x \in {k \in 0..9 : within(k)} :
          (\A y \in {k \in 0..9 : within(k)} : x =< y) <=> x = quotient - 1
    BY <1>3, <1>8, <1>9
  <2>2. quotient - 1 \in {k \in 0..9 : within(k)}
    BY <1>3, <1>8
  <2> HIDE DEF quotient
  <2> QED
    BY <2>1, <2>2 DEF Min
<1> QED
  BY <1>4, <1>10 DEF quotient, off, total, count

\* The penalty score is the one that the comments of getPenaltyScore describe,
\* for every symbol of every version: each run, each finder-like pattern with
\* each of its margins, each square and the balance are counted, and once.
THEOREM ScoreCorrect ==
  ASSUME NEW ver \in 1..40, NEW d \in SUBSET Grid(ver)
  PROVE  PenaltyScore(d, ver) = ScoreReference(d, ver)
<1> DEFINE n == Size(ver)
           lines == 0..(n - 1)
           total == n * n
           off == Abs(20 * Cardinality(d) - 10 * total)
           score(i) == LineScore(Row(d, ver, i), ver) + LineScore(Column(d, ver, i), ver)
           reference(i) == LineReference(Row(d, ver, i), ver) + LineReference(Column(d, ver, i), ver)
           scores == MapThenSumSet(LAMBDA i : LineScore(Row(d, ver, i), ver)
                                                + LineScore(Column(d, ver, i), ver), lines)
           references == MapThenSumSet(LAMBDA i : LineReference(Row(d, ver, i), ver)
                                                    + LineReference(Column(d, ver, i), ver), lines)
<1>1. \A i : score(i) = reference(i)
  <2> SUFFICES ASSUME NEW i PROVE score(i) = reference(i)
    OBVIOUS
  <2>1. LineScore(Row(d, ver, i), ver) = LineReference(Row(d, ver, i), ver)
    <3> DEFINE D == {q \in 1..n : <<q - 1, i>> \in d}
    <3>1. D \in SUBSET (1..n) /\ Row(d, ver, i) = [q \in 1..n |-> q \in D]
      BY DEF Row
    <3> HIDE DEF D
    <3> QED
      BY <3>1, LineCorrect
  <2>2. LineScore(Column(d, ver, i), ver) = LineReference(Column(d, ver, i), ver)
    <3> DEFINE D == {q \in 1..n : <<i, q - 1>> \in d}
    <3>1. D \in SUBSET (1..n) /\ Column(d, ver, i) = [q \in 1..n |-> q \in D]
      BY DEF Column
    <3> HIDE DEF D
    <3> QED
      BY <3>1, LineCorrect
  <2> QED
    BY <2>1, <2>2
<1>2. scores = references
  <2> DEFINE left(F) == [s \in SUBSET lines |->
                           IF s = {} THEN 0
                           ELSE LET x == CHOOSE x \in s : TRUE IN score(x) + F[s \ {x}]]
             wanted(F) == [s \in SUBSET lines |->
                             IF s = {} THEN 0
                             ELSE LET x == CHOOSE x \in s : TRUE IN reference(x) + F[s \ {x}]]
  <2>1. ASSUME NEW F PROVE left(F) = wanted(F)
    <3> HIDE DEF score, reference, lines
    <3> QED
      BY <1>1
  <2>2. scores = (CHOOSE F : F = left(F))[lines]
    BY Zenon DEF MapThenSumSet, MapThenFoldSet
  <2>3. references = (CHOOSE F : F = wanted(F))[lines]
    BY Zenon DEF MapThenSumSet, MapThenFoldSet
  <2> HIDE DEF left, wanted, scores, references
  <2>4. (CHOOSE F : F = left(F)) = (CHOOSE F : F = wanted(F))
    BY <2>1
  <2> QED
    BY <2>2, <2>3, <2>4
<1>3. (off + total - 1) \div total - 1 = BalanceReference(d, ver)
  BY BalanceCorrect
<1>4. PenaltyScore(d, ver) =
        scores + 3 * Cardinality(Squares(d, ver)) + 10 * ((off + total - 1) \div total - 1)
  BY Zenon DEF PenaltyScore
<1>5. ScoreReference(d, ver) =
        references + 3 * Cardinality(Squares(d, ver)) + 10 * BalanceReference(d, ver)
  BY Zenon DEF ScoreReference
<1> HIDE DEF scores, references, off, total
<1> QED
  BY <1>2, <1>3, <1>4, <1>5, Zenon

-----------------------------------------------------------------------------
(* The modules that the patterns leave free.  What the drawing covers is cut*)
(* into rectangles that do not overlap, and those are counted.             *)

\* A finite set and how many members it has.
Counts(S, k) == IsFiniteSet(S) /\ Cardinality(S) = k

\* Intervals and rectangles under names of their own: the lemmas about them
\* are cited with the bounds as they come.
Rectangle(a, b, c, d) == (a..b) \X (c..d)

Segment(a, b) == a..b

LEMMA CountSegment ==
  ASSUME NEW a \in Int, NEW b \in Int, a <= b + 1, NEW k \in Int, k = b - a + 1
  PROVE  Counts(Segment(a, b), k)
BY FS_Interval DEF Counts, Segment

LEMMA CountRectangle ==
  ASSUME NEW a \in Int, NEW b \in Int, NEW c \in Int, NEW d \in Int, a <= b, c <= d,
         NEW k \in Int, k = (b - a + 1) * (d - c + 1)
  PROVE  Counts(Rectangle(a, b, c, d), k)
<1>1. IsFiniteSet(a..b) /\ Cardinality(a..b) = b - a + 1
  BY FS_Interval
<1>2. IsFiniteSet(c..d) /\ Cardinality(c..d) = d - c + 1
  BY FS_Interval
<1> QED
  BY <1>1, <1>2, FS_Product DEF Counts, Rectangle

\* Sets that have no member in common are counted together.
LEMMA CountBoth ==
  ASSUME NEW S, NEW T, NEW k \in Int, NEW l \in Int, Counts(S, k), Counts(T, l), S \cap T = {},
         NEW t \in Int, t = k + l
  PROVE  Counts(S \cup T, t)
<1>1. Cardinality(S \cap T) = 0
  BY FS_EmptySet
<1>2. /\ IsFiniteSet(S \cup T)
      /\ Cardinality(S \cup T) = Cardinality(S) + Cardinality(T) - Cardinality(S \cap T)
  BY FS_Union DEF Counts
<1> QED
  BY <1>1, <1>2 DEF Counts

\* A set is counted by a numbering of its members.
LEMMA CountImage ==
  ASSUME NEW S, NEW T, NEW k, Counts(S, k), NEW f, f = [p \in S |-> f[p]],
         \A p \in S : f[p] \in T,
         \A p \in S, q \in S : f[p] = f[q] => p = q,
         \A x \in T : \E p \in S : f[p] = x
  PROVE  Counts(T, k)
<1>1. f \in [S -> T]
  OBVIOUS
<1>2. f \in Injection(S, T)
  BY <1>1, DOMAIN f = S DEF Injection, IsInjective
<1>3. f \in Surjection(S, T)
  BY <1>1 DEF Surjection
<1>4. ExistsBijection(S, T)
  BY <1>2, <1>3, Zenon DEF ExistsBijection, Bijection
<1> QED
  BY <1>4, FS_Bijection DEF Counts

\* Five columns around each of m centres that are s apart.
Spread(c, s, m) == {c - s * k + j : k \in 1..m, j \in 0..4}

LEMMA CountSpread ==
  ASSUME NEW c \in Int, NEW s \in Nat, s >= 5, NEW m \in Nat
  PROVE  Counts(Spread(c, s, m), 5 * m)
<1> DEFINE S == (1..m) \X (0..4)
           T == {c - s * k + j : k \in 1..m, j \in 0..4}
           f == [p \in S |-> c - s * p[1] + p[2]]
<1>1. Counts(S, 5 * m)
  <2> HIDE DEF S, T, f
  <2>1. Counts(Segment(1, m), m)
    BY CountSegment
  <2>2. Counts(Segment(0, 4), 5)
    BY CountSegment
  <2>3. /\ IsFiniteSet(1..m) /\ Cardinality(1..m) = m
        /\ IsFiniteSet(0..4) /\ Cardinality(0..4) = 5
    BY <2>1, <2>2, Zenon DEF Counts, Segment
  <2>4. IsFiniteSet(S) /\ Cardinality(S) = Cardinality(1..m) * Cardinality(0..4)
    BY <2>3, FS_Product, Zenon DEF S
  <2> QED
    BY <2>3, <2>4 DEF Counts
<1>2. ASSUME NEW k \in 1..m, NEW l \in 1..m, k < l
      PROVE  s * l >= s * k + s
  <2>1. s * (l - k - 1) >= 0
    BY <1>2
  <2>2. s * (l - k - 1) = s * l - s * k - s
    BY <1>2
  <2>3. s * l \in Int /\ s * k \in Int
    BY <1>2
  <2> QED
    BY <2>1, <2>2, <2>3
<1>3. ASSUME NEW k \in 1..m, NEW i \in 0..4, NEW l \in 1..m, NEW j \in 0..4,
             c - s * k + i = c - s * l + j
      PROVE  k = l /\ i = j
  <2> DEFINE sk == s * k
             sl == s * l
  <2>1. sk \in Int /\ sl \in Int /\ (k < l => sl >= sk + s) /\ (l < k => sk >= sl + s) /\ (k = l => sk = sl)
    BY <1>2
  <2>2. c - sk + i = c - sl + j
    BY <1>3
  <2> HIDE DEF sk, sl
  <2> QED
    BY <2>1, <2>2
<1>a. \A x : x \in T <=> \E k \in 1..m, j \in 0..4 : x = c - s * k + j
  OBVIOUS
<1>b. \A k \in 1..m, j \in 0..4 : <<k, j>> \in S /\ f[<<k, j>>] = c - s * k + j
  OBVIOUS
<1>c. \A p \in S : p[1] \in 1..m /\ p[2] \in 0..4 /\ f[p] = c - s * p[1] + p[2]
  OBVIOUS
<1>4. \A p \in S : f[p] \in T
  <2> HIDE DEF S, T, f
  <2> QED
    BY <1>a, <1>c
<1>5. \A p \in S, q \in S : f[p] = f[q] => p = q
  <2> SUFFICES ASSUME NEW p \in S, NEW q \in S, f[p] = f[q] PROVE p = q
    OBVIOUS
  <2>1. p[1] \in 1..m /\ p[2] \in 0..4 /\ q[1] \in 1..m /\ q[2] \in 0..4
    OBVIOUS
  <2>2. c - s * p[1] + p[2] = c - s * q[1] + q[2]
    OBVIOUS
  <2>3. p[1] = q[1] /\ p[2] = q[2]
    BY <1>3, <2>1, <2>2
  <2> QED
    BY <2>3
<1>6. \A x \in T : \E p \in S : f[p] = x
  <2> HIDE DEF S, T, f
  <2> SUFFICES ASSUME NEW x \in T PROVE \E p \in S : f[p] = x
    OBVIOUS
  <2>1. PICK k \in 1..m, j \in 0..4 : x = c - s * k + j
    BY <1>a
  <2>2. <<k, j>> \in S /\ f[<<k, j>>] = x
    BY <1>b, <2>1
  <2> QED
    BY <2>2
<1>7. f = [p \in S |-> f[p]]
  OBVIOUS
<1> HIDE DEF S, T, f
<1>8. Counts(T, 5 * m)
  BY <1>1, <1>4, <1>5, <1>6, <1>7, CountImage
<1> QED
  BY <1>8 DEF T, Spread

\* What getAlignmentPatternPositions calls step.
Spacing(ver) ==
  IF ver = 32 THEN 26
  ELSE 2 * ((4 * ver + 4 + 2 * NumAlign(ver) - 3) \div (2 * NumAlign(ver) - 2))

\* The alignment patterns do not touch one another, the finder patterns or the
\* timing patterns on the near side.
LEMMA SpacingIs ==
  ASSUME NEW ver \in 2..40
  PROVE  /\ NumAlign(ver) \in 2..7 /\ Spacing(ver) \in Nat /\ Spacing(ver) >= 12
         /\ Size(ver) \in 25..177
         /\ Size(ver) - 7 - Spacing(ver) * (NumAlign(ver) - 2) >= 18
<1>1. CASE ver \in 2..6
  BY <1>1 DEF NumAlign, Spacing, Size
<1>2. CASE ver \in 7..13
  BY <1>2 DEF NumAlign, Spacing, Size
<1>3. CASE ver \in 14..20
  BY <1>3 DEF NumAlign, Spacing, Size
<1>4. CASE ver \in 21..27
  BY <1>4 DEF NumAlign, Spacing, Size
<1>5. CASE ver \in 28..34
  BY <1>5 DEF NumAlign, Spacing, Size
<1>6. CASE ver \in 35..40
  BY <1>6 DEF NumAlign, Spacing, Size
<1> QED
  BY <1>1, <1>2, <1>3, <1>4, <1>5, <1>6

\* What every version has: the finder patterns with their borders, the timing
\* patterns between them and the format, in rectangles that do not overlap.
Fixed(n) ==
  Rectangle(0, 7, 0, 7)
    \cup Rectangle(n - 8, n - 1, 0, 7)
    \cup Rectangle(0, 7, n - 8, n - 1)
    \cup Rectangle(6, 6, 8, n - 9)
    \cup Rectangle(8, n - 9, 6, 6)
    \cup Rectangle(8, 8, 0, 5)
    \cup Rectangle(8, 8, 7, 8)
    \cup Rectangle(7, 7, 8, 8)
    \cup Rectangle(0, 5, 8, 8)
    \cup Rectangle(8, 8, n - 8, n - 1)
    \cup Rectangle(n - 8, n - 1, 8, 8)

VersionFixed(n) == Rectangle(n - 11, n - 9, 0, 5) \cup Rectangle(0, 5, n - 11, n - 9)

LEMMA FixedCount ==
  ASSUME NEW n \in Int, n >= 21
  PROVE  Counts(Fixed(n), 2 * n + 191)
<1> DEFINE U1 == Rectangle(0, 7, 0, 7)
           U2 == U1 \cup Rectangle(n - 8, n - 1, 0, 7)
           U3 == U2 \cup Rectangle(0, 7, n - 8, n - 1)
           U4 == U3 \cup Rectangle(6, 6, 8, n - 9)
           U5 == U4 \cup Rectangle(8, n - 9, 6, 6)
           U6 == U5 \cup Rectangle(8, 8, 0, 5)
           U7 == U6 \cup Rectangle(8, 8, 7, 8)
           U8 == U7 \cup Rectangle(7, 7, 8, 8)
           U9 == U8 \cup Rectangle(0, 5, 8, 8)
           U10 == U9 \cup Rectangle(8, 8, n - 8, n - 1)
           U11 == U10 \cup Rectangle(n - 8, n - 1, 8, 8)
<1>1. /\ U1 \cap Rectangle(n - 8, n - 1, 0, 7) = {}
      /\ U2 \cap Rectangle(0, 7, n - 8, n - 1) = {}
  BY DEF Rectangle
<1>2. /\ U3 \cap Rectangle(6, 6, 8, n - 9) = {}
      /\ U4 \cap Rectangle(8, n - 9, 6, 6) = {}
  BY DEF Rectangle
<1>3. /\ U5 \cap Rectangle(8, 8, 0, 5) = {}
      /\ U6 \cap Rectangle(8, 8, 7, 8) = {}
  BY DEF Rectangle
<1>4. /\ U7 \cap Rectangle(7, 7, 8, 8) = {}
      /\ U8 \cap Rectangle(0, 5, 8, 8) = {}
  BY DEF Rectangle
<1>5. /\ U9 \cap Rectangle(8, 8, n - 8, n - 1) = {}
      /\ U10 \cap Rectangle(n - 8, n - 1, 8, 8) = {}
  BY DEF Rectangle
<1>6. Counts(U1, 64)
  BY CountRectangle
<1>7. /\ Counts(Rectangle(n - 8, n - 1, 0, 7), 64)
      /\ Counts(Rectangle(0, 7, n - 8, n - 1), 64)
  BY CountRectangle
<1>8. /\ Counts(Rectangle(6, 6, 8, n - 9), n - 16)
      /\ Counts(Rectangle(8, n - 9, 6, 6), n - 16)
  BY CountRectangle
<1>9. /\ Counts(Rectangle(8, 8, 0, 5), 6)
      /\ Counts(Rectangle(8, 8, 7, 8), 2)
  BY CountRectangle
<1>10. /\ Counts(Rectangle(7, 7, 8, 8), 1)
      /\ Counts(Rectangle(0, 5, 8, 8), 6)
  BY CountRectangle
<1>11. /\ Counts(Rectangle(8, 8, n - 8, n - 1), 8)
      /\ Counts(Rectangle(n - 8, n - 1, 8, 8), 8)
  BY CountRectangle
<1> HIDE DEF U1, U2, U3, U4, U5, U6, U7, U8, U9, U10, U11
<1>12. Counts(U2, 128)
  BY <1>1, <1>7, <1>6, CountBoth DEF U2
<1>13. Counts(U3, 192)
  BY <1>1, <1>7, <1>12, CountBoth DEF U3
<1>14. Counts(U4, n + 176)
  BY <1>2, <1>8, <1>13, CountBoth DEF U4
<1>15. Counts(U5, 2 * n + 160)
  BY <1>2, <1>8, <1>14, CountBoth DEF U5
<1>16. Counts(U6, 2 * n + 166)
  BY <1>3, <1>9, <1>15, CountBoth DEF U6
<1>17. Counts(U7, 2 * n + 168)
  BY <1>3, <1>9, <1>16, CountBoth DEF U7
<1>18. Counts(U8, 2 * n + 169)
  BY <1>4, <1>10, <1>17, CountBoth DEF U8
<1>19. Counts(U9, 2 * n + 175)
  BY <1>4, <1>10, <1>18, CountBoth DEF U9
<1>20. Counts(U10, 2 * n + 183)
  BY <1>5, <1>11, <1>19, CountBoth DEF U10
<1>21. Counts(U11, 2 * n + 191)
  BY <1>5, <1>11, <1>20, CountBoth DEF U11
<1> QED
  BY <1>21 DEF Fixed, U1, U2, U3, U4, U5, U6, U7, U8, U9, U10, U11

\* A filled pattern around a centre, and a part of the symbol.
Disc(x, y, r, ver) == Square(<<x, y>>, 0..r, ver)

Part(ver, a, b, c, d) == Grid(ver) \cap Rectangle(a, b, c, d)

\* Such a pattern is a rectangle as far as it lies in the symbol.
LEMMA SquareIs ==
  ASSUME NEW ver, ver \in 1..40, NEW x, NEW y, x \in Int, y \in Int,
         NEW r \in Int, 0 <= r, r <= 4,
         NEW a, NEW b, NEW c, NEW d, a = x - r, b = x + r, c = y - r, d = y + r
  PROVE  Disc(x, y, r, ver) = Part(ver, a, b, c, d)
<1> SUFFICES Disc(x, y, r, ver) = Part(ver, x - r, x + r, y - r, y + r)
  OBVIOUS
<1> DEFINE n == Size(ver)
<1>1. n \in Nat
  BY SizeOf
<1>2. ASSUME NEW i \in Int, NEW j \in Int
      PROVE  Max({Abs(i - x), Abs(j - y)}) \in 0..r <=> i \in (x - r)..(x + r) /\ j \in (y - r)..(y + r)
  <2> DEFINE h == Abs(i - x)
             v == Abs(j - y)
  <2>1. h \in Int /\ v \in Int /\ h >= 0 /\ v >= 0
    BY DEF Abs
  <2>2. (h <= r <=> i \in (x - r)..(x + r)) /\ (v <= r <=> j \in (y - r)..(y + r))
    BY DEF Abs
  <2> HIDE DEF h, v
  <2>3. Max({h, v}) = (IF h >= v THEN h ELSE v)
    BY <2>1, MaxOfTwo
  <2>4. Max({h, v}) \in 0..r <=> h <= r /\ v <= r
    BY <2>1, <2>3
  <2> QED
    BY <2>2, <2>4 DEF h, v
<1>3. ASSUME NEW i \in Int, NEW j \in Int
      PROVE  <<i, j>> \in Square(<<x, y>>, 0..r, ver)
               <=> <<i, j>> \in Grid(ver) \cap Rectangle(x - r, x + r, y - r, y + r)
  <2>1. <<i, j>> \in Square(<<x, y>>, 0..r, ver)
          <=> /\ i \in (x - 4)..(x + 4) /\ j \in (y - 4)..(y + 4)
              /\ Max({Abs(i - x), Abs(j - y)}) \in 0..r
              /\ i \in 0..(n - 1) /\ j \in 0..(n - 1)
    BY DEF Square
  <2>2. <<i, j>> \in Grid(ver) \cap Rectangle(x - r, x + r, y - r, y + r)
          <=> /\ i \in 0..(n - 1) /\ j \in 0..(n - 1)
              /\ i \in (x - r)..(x + r) /\ j \in (y - r)..(y + r)
    BY DEF Grid, Rectangle
  <2>3. i \in (x - r)..(x + r) /\ j \in (y - r)..(y + r) => i \in (x - 4)..(x + 4) /\ j \in (y - 4)..(y + 4)
    OBVIOUS
  <2> QED
    BY <1>2, <2>1, <2>2, <2>3
<1>4. /\ \A m \in Square(<<x, y>>, 0..r, ver) : m \in Int \X Int
      /\ \A m \in Grid(ver) : m \in Int \X Int
  <2>1. \A m \in Square(<<x, y>>, 0..r, ver) : m \in ((x - 4)..(x + 4)) \X ((y - 4)..(y + 4))
    BY DEF Square
  <2>2. (x - 4)..(x + 4) \subseteq Int /\ (y - 4)..(y + 4) \subseteq Int
    OBVIOUS
  <2>3. ((x - 4)..(x + 4)) \X ((y - 4)..(y + 4)) \subseteq Int \X Int
    BY <2>2
  <2>4. Grid(ver) \subseteq Int \X Int
    BY <1>1 DEF Grid
  <2> QED
    BY <2>1, <2>3, <2>4
<1>5. \A m \in Int \X Int : \E i \in Int, j \in Int : m = <<i, j>>
  OBVIOUS
<1> DEFINE A == Square(<<x, y>>, 0..r, ver)
           B == Grid(ver) \cap Rectangle(x - r, x + r, y - r, y + r)
<1> HIDE DEF A, B
<1>6. \A m \in Int \X Int : m \in A <=> m \in B
  <2> SUFFICES ASSUME NEW m \in Int \X Int PROVE m \in A <=> m \in B
    OBVIOUS
  <2>1. PICK i \in Int, j \in Int : m = <<i, j>>
    BY <1>5
  <2> QED
    BY <1>3, <2>1 DEF A, B
<1>7. \A m : m \in A \/ m \in B => m \in Int \X Int
  BY <1>4 DEF A, B
<1>8. \A m : m \in A <=> m \in B
  BY <1>6, <1>7, Zenon
<1>9. A = B
  BY <1>8, Zenon
<1> QED
  BY <1>9 DEF A, B, Disc, Part

\* The patterns that drawFunctionPatterns draws in every version.
LEMMA FixedIs ==
  ASSUME NEW ver \in 1..40, NEW n, n = Size(ver)
  PROVE  /\ Timing(0..(n - 1)) = Rectangle(6, 6, 0, n - 1) \cup Rectangle(0, n - 1, 6, 6)
         /\ UNION {Square(c, 0..4, ver) : c \in Finders(ver)}
              = Rectangle(0, 7, 0, 7) \cup Rectangle(n - 8, n - 1, 0, 7) \cup Rectangle(0, 7, n - 8, n - 1)
         /\ FormatModules(ver)
              = Rectangle(8, 8, 0, 5) \cup Rectangle(8, 8, 7, 8) \cup Rectangle(7, 7, 8, 8)
                  \cup Rectangle(0, 5, 8, 8) \cup Rectangle(8, 8, n - 8, n - 1)
                  \cup Rectangle(n - 8, n - 1, 8, 8)
<1>1. n \in 21..177 /\ n \in Int
  BY SizeOf
<1>2. Timing(0..(n - 1)) = Rectangle(6, 6, 0, n - 1) \cup Rectangle(0, n - 1, 6, 6)
  BY <1>1 DEF Timing, Rectangle
<1>3. UNION {Square(c, 0..4, ver) : c \in Finders(ver)}
        = Rectangle(0, 7, 0, 7) \cup Rectangle(n - 8, n - 1, 0, 7) \cup Rectangle(0, 7, n - 8, n - 1)
  <2>1. UNION {Square(c, 0..4, ver) : c \in Finders(ver)}
          = Disc(3, 3, 4, ver) \cup Disc(n - 4, 3, 4, ver) \cup Disc(3, n - 4, 4, ver)
    BY DEF Finders, Disc
  <2>2. Disc(3, 3, 4, ver) = Rectangle(0, 7, 0, 7)
    <3>1. Disc(3, 3, 4, ver) = Part(ver, -1, 7, -1, 7)
      BY <1>1, SquareIs
    <3>2. Part(ver, -1, 7, -1, 7) = Rectangle(0, 7, 0, 7)
      BY <1>1 DEF Grid, Rectangle, Part
    <3> QED
      BY <3>1, <3>2
  <2>3. Disc(n - 4, 3, 4, ver) = Rectangle(n - 8, n - 1, 0, 7)
    <3>1. Disc(n - 4, 3, 4, ver) = Part(ver, n - 8, n, -1, 7)
      BY <1>1, SquareIs
    <3>2. Part(ver, n - 8, n, -1, 7) = Rectangle(n - 8, n - 1, 0, 7)
      BY <1>1 DEF Grid, Rectangle, Part
    <3> QED
      BY <3>1, <3>2
  <2>4. Disc(3, n - 4, 4, ver) = Rectangle(0, 7, n - 8, n - 1)
    <3>1. Disc(3, n - 4, 4, ver) = Part(ver, -1, 7, n - 8, n)
      BY <1>1, SquareIs
    <3>2. Part(ver, -1, 7, n - 8, n) = Rectangle(0, 7, n - 8, n - 1)
      BY <1>1 DEF Grid, Rectangle, Part
    <3> QED
      BY <3>1, <3>2
  <2> QED
    BY <2>1, <2>2, <2>3, <2>4
<1>4. FormatModules(ver)
        = Rectangle(8, 8, 0, 5) \cup Rectangle(8, 8, 7, 8) \cup Rectangle(7, 7, 8, 8)
            \cup Rectangle(0, 5, 8, 8) \cup Rectangle(8, 8, n - 8, n - 1)
            \cup Rectangle(n - 8, n - 1, 8, 8)
  <2>1. {FirstCopy(i) : i \in 0..14}
          = Rectangle(8, 8, 0, 5) \cup Rectangle(8, 8, 7, 8) \cup Rectangle(7, 7, 8, 8)
              \cup Rectangle(0, 5, 8, 8)
    BY DEF FirstCopy, Rectangle
  <2>2. {SecondCopy(ver, i) : i \in 0..14} \cup {<<8, n - 8>>}
          = Rectangle(8, 8, n - 8, n - 1) \cup Rectangle(n - 8, n - 1, 8, 8)
    BY <1>1 DEF SecondCopy, Rectangle
  <2> QED
    BY <2>1, <2>2 DEF FormatModules
<1> QED
  BY <1>2, <1>3, <1>4

\* The positions of alignment patterns between the timing pattern and the far
\* side, and the columns of the patterns that stand there.
Middle(ver) == {Size(ver) - 7 - Spacing(ver) * k : k \in 1..(NumAlign(ver) - 2)}

Beside(ver) == Spread(Size(ver) - 9, Spacing(ver), NumAlign(ver) - 2)

LEMMA PositionsAre ==
  ASSUME NEW ver \in 2..40, NEW n, n = Size(ver)
  PROVE  /\ AlignmentPositions(ver) = {6, n - 7} \cup Middle(ver)
         /\ \A p \in Middle(ver) : p \in Int /\ 18 <= p /\ p <= n - 19
<1> DEFINE s == Spacing(ver)
           a == NumAlign(ver)
<1>1. /\ a \in 2..7 /\ s \in Nat /\ s >= 12 /\ n \in 25..177
      /\ n - 7 - s * (a - 2) >= 18
  BY SpacingIs
<1>2. AlignmentPositions(ver) = {6} \cup {n - 7 - s * k : k \in 0..(a - 2)}
  <2>1. ver # 1
    OBVIOUS
  <2> QED
    BY <2>1, Zenon DEF AlignmentPositions, Spacing
<1>3. Middle(ver) = {n - 7 - s * k : k \in 1..(a - 2)}
  BY DEF Middle
<1> HIDE DEF s, a
<1>4. \A p \in Middle(ver) : p \in Int /\ 18 <= p /\ p <= n - 19
  <2> SUFFICES ASSUME NEW k \in 1..(a - 2)
               PROVE  s * k \in Int /\ 12 <= s * k /\ s * k <= s * (a - 2)
    <3>1. s * (a - 2) \in Int
      BY <1>1
    <3> QED
      BY <1>1, <1>3, <3>1
  <2>1. s * (k - 1) >= 0 /\ s * (a - 2 - k) >= 0
    BY <1>1
  <2>2. s * (k - 1) = s * k - s /\ s * (a - 2 - k) = s * (a - 2) - s * k
    BY <1>1
  <2>3. s * k \in Int /\ s * (a - 2) \in Int
    BY <1>1
  <2> QED
    BY <1>1, <2>1, <2>2, <2>3
<1>5. {n - 7 - s * k : k \in 0..(a - 2)} = {n - 7} \cup Middle(ver)
  <2>1. 0..(a - 2) = {0} \cup 1..(a - 2)
    BY <1>1
  <2>2. n - 7 - s * 0 = n - 7
    BY <1>1
  <2> QED
    BY <1>3, <2>1, <2>2
<1> QED
  BY <1>2, <1>4, <1>5

\* Those columns lie clear of all that is fixed.
LEMMA BesideIs ==
  ASSUME NEW ver \in 2..40, NEW n, n = Size(ver)
  PROVE  /\ Counts(Beside(ver), 5 * (NumAlign(ver) - 2))
         /\ \A x : x \in Beside(ver) <=> \E p \in Middle(ver) : x \in (p - 2)..(p + 2)
         /\ \A x \in Beside(ver) : x \in Int /\ 16 <= x /\ x <= n - 17
<1> DEFINE s == Spacing(ver)
           m == NumAlign(ver) - 2
<1>1. s \in Nat /\ s >= 12 /\ m \in Nat /\ n \in Int
  <2>1. NumAlign(ver) \in 2..7 /\ s \in Nat /\ s >= 12 /\ n \in 25..177
    BY SpacingIs, Zenon
  <2>2. m \in Nat
    BY <2>1
  <2> HIDE DEF s, m
  <2> QED
    BY <2>1, <2>2
<1>2. /\ Beside(ver) = {n - 9 - s * k + j : k \in 1..m, j \in 0..4}
      /\ Middle(ver) = {n - 7 - s * k : k \in 1..m}
  BY DEF Beside, Middle, Spread
<1>3. Counts(Beside(ver), 5 * m)
  <2> HIDE DEF s, m
  <2>1. n - 9 \in Int
    BY <1>1
  <2>2. Beside(ver) = Spread(n - 9, s, m)
    BY DEF Beside, s, m
  <2> QED
    BY <1>1, <2>1, <2>2, CountSpread
<1>4. \A x : x \in Beside(ver) <=> \E p \in Middle(ver) : x \in (p - 2)..(p + 2)
  <2> HIDE DEF s, m
  <2>1. ASSUME NEW x \in Beside(ver)
        PROVE  \E p \in Middle(ver) : x \in (p - 2)..(p + 2)
    <3>1. PICK k \in 1..m, j \in 0..4 : x = n - 9 - s * k + j
      BY <1>2
    <3> DEFINE sk == s * k
    <3>2. sk \in Int
      BY <1>1
    <3>3. n - 7 - sk \in Middle(ver) /\ x = n - 9 - sk + j
      BY <1>2, <3>1, Zenon
    <3> HIDE DEF sk
    <3>4. x \in (n - 7 - sk - 2)..(n - 7 - sk + 2)
      BY <1>1, <3>2, <3>3
    <3> QED
      BY <3>3, <3>4
  <2>2. ASSUME NEW p \in Middle(ver), NEW x \in (p - 2)..(p + 2)
        PROVE  x \in Beside(ver)
    <3>1. PICK k \in 1..m : p = n - 7 - s * k
      BY <1>2
    <3> DEFINE sk == s * k
               j == x - p + 2
    <3>2. sk \in Int
      BY <1>1
    <3>3. j \in 0..4 /\ x = n - 9 - sk + j
      <4>1. p = n - 7 - sk
        BY <3>1
      <4> HIDE DEF sk
      <4>2. p \in Int /\ x \in Int /\ p - 2 <= x /\ x <= p + 2
        BY <1>1, <3>2, <4>1
      <4> QED
        BY <1>1, <3>2, <4>1, <4>2
    <3> HIDE DEF j
    <3> QED
      BY <1>2, <3>3
  <2> QED
    BY <2>1, <2>2
<1>5. \A x \in Beside(ver) : x \in Int /\ 16 <= x /\ x <= n - 17
  BY <1>1, <1>4, PositionsAre
<1> QED
  BY <1>3, <1>4, <1>5

\* The modules of the alignment patterns; their columns but those at the timing
\* pattern; and the columns on both sides of the timing pattern.
Aligned(ver) == UNION {Square(c, 0..2, ver) : c \in Alignments(ver)}

Far(ver) == Beside(ver) \cup (Size(ver) - 9)..(Size(ver) - 5)

Around == 4..5 \cup 7..8

LEMMA AlignedMember ==
  ASSUME NEW ver \in 2..40, NEW n, n = Size(ver), NEW i, NEW j
  PROVE  <<i, j>> \in Aligned(ver)
           <=> \E p \in AlignmentPositions(ver), q \in AlignmentPositions(ver) :
                 /\ <<p, q>> \notin {<<6, 6>>, <<6, n - 7>>, <<n - 7, 6>>}
                 /\ i \in (p - 2)..(p + 2) /\ j \in (q - 2)..(q + 2)
<1> DEFINE P == AlignmentPositions(ver)
           Omitted == {<<6, 6>>, <<6, n - 7>>, <<n - 7, 6>>}
<1>1. n \in 25..177 /\ \A p \in P : p \in Int /\ 6 <= p /\ p <= n - 7
  <2>1. n \in 25..177
    BY SpacingIs
  <2>2. P = {6, n - 7} \cup Middle(ver) /\ \A p \in Middle(ver) : p \in Int /\ 18 <= p /\ p <= n - 19
    BY PositionsAre
  <2> HIDE DEF P
  <2> QED
    BY <2>1, <2>2
<1>2. ASSUME NEW p \in P, NEW q \in P
      PROVE  <<i, j>> \in Square(<<p, q>>, 0..2, ver)
               <=> i \in (p - 2)..(p + 2) /\ j \in (q - 2)..(q + 2)
  <2>1. Disc(p, q, 2, ver) = Part(ver, p - 2, p + 2, q - 2, q + 2)
    BY <1>1, SquareIs
  <2>2. <<i, j>> \in Part(ver, p - 2, p + 2, q - 2, q + 2)
          <=> i \in (p - 2)..(p + 2) /\ j \in (q - 2)..(q + 2)
    BY <1>1 DEF Part, Grid, Rectangle
  <2> QED
    BY <2>1, <2>2 DEF Disc
<1>3. <<i, j>> \in Aligned(ver) <=> \E c \in Alignments(ver) : <<i, j>> \in Square(c, 0..2, ver)
  BY DEF Aligned
<1>4. \A c : c \in Alignments(ver) <=> \E p \in P, q \in P : c = <<p, q>> /\ <<p, q>> \notin Omitted
  BY DEF Alignments
<1> HIDE DEF P, Omitted
<1>5. <<i, j>> \in Aligned(ver)
        <=> \E p \in P, q \in P : <<p, q>> \notin Omitted /\ <<i, j>> \in Square(<<p, q>>, 0..2, ver)
  BY <1>3, <1>4, Zenon
<1>6. <<i, j>> \in Aligned(ver)
        <=> \E p \in P, q \in P :
              /\ <<p, q>> \notin Omitted
              /\ i \in (p - 2)..(p + 2) /\ j \in (q - 2)..(q + 2)
  BY <1>2, <1>5, Zenon
<1> QED
  BY <1>6 DEF P, Omitted

\* The alignment patterns without what the timing patterns have of them.
LEMMA AlignedIs ==
  ASSUME NEW ver \in 2..40, NEW n, n = Size(ver), NEW i, NEW j
  PROVE  <<i, j>> \in Aligned(ver) \ Timing(0..(n - 1))
           <=> \/ i \in Far(ver) /\ j \in Far(ver)
               \/ i \in Around /\ j \in Beside(ver)
               \/ i \in Beside(ver) /\ j \in Around
<1> DEFINE P == AlignmentPositions(ver)
           M == Middle(ver)
           B == Beside(ver)
           near(x, p) == x \in (p - 2)..(p + 2)
<1>1. n \in 25..177 /\ n \in Int
  BY SpacingIs
<1>2. P = {6, n - 7} \cup M /\ \A p \in M : p \in Int /\ 18 <= p /\ p <= n - 19
  BY PositionsAre
<1>3. /\ \A x : x \in B <=> \E p \in M : near(x, p)
      /\ \A x \in B : x \in Int /\ 16 <= x /\ x <= n - 17
  BY BesideIs
<1>4. <<i, j>> \in Aligned(ver)
        <=> \E p \in P, q \in P :
              /\ <<p, q>> \notin {<<6, 6>>, <<6, n - 7>>, <<n - 7, 6>>}
              /\ near(i, p) /\ near(j, q)
  BY AlignedMember
<1>5. /\ \A x : x \in Far(ver) <=> near(x, n - 7) \/ x \in B
      /\ \A x : x \in Around <=> near(x, 6) /\ x # 6
  BY <1>1 DEF Far, Around
<1>6. <<i, j>> \in Timing(0..(n - 1)) <=> (i = 6 /\ j \in 0..(n - 1)) \/ (j = 6 /\ i \in 0..(n - 1))
  BY DEF Timing
<1>7. /\ \A x : near(x, 6) => x \in 0..(n - 1)
      /\ \A x : near(x, n - 7) => x \in 0..(n - 1) /\ x # 6
      /\ \A x \in B : x \in 0..(n - 1) /\ x # 6
  BY <1>1, <1>3
<1>8. 6 \notin M /\ n - 7 \notin M /\ n - 7 # 6
  BY <1>1, <1>2
<1> DEFINE a == n - 7
           Line == 0..(n - 1)
<1> HIDE DEF P, M, B, near, a, Line
<1>9. <<i, j>> \in Aligned(ver)
        <=> \/ near(i, a) /\ near(j, a)
            \/ near(i, 6) /\ j \in B
            \/ near(i, a) /\ j \in B
            \/ i \in B /\ near(j, 6)
            \/ i \in B /\ near(j, a)
            \/ i \in B /\ j \in B
  <2>1. <<i, j>> \in Aligned(ver)
          <=> \E p \in {6, a} \cup M, q \in {6, a} \cup M :
                /\ ~(p = 6 /\ q = 6) /\ ~(p = 6 /\ q = a) /\ ~(p = a /\ q = 6)
                /\ near(i, p) /\ near(j, q)
    BY <1>2, <1>4 DEF a
  <2>2. /\ \A x : x \in B <=> \E p \in M : near(x, p)
        /\ 6 \notin M /\ a \notin M /\ a # 6
    BY <1>3, <1>8 DEF a
  <2> QED
    BY <2>1, <2>2
<1>10. /\ \A x : near(x, 6) => x \in Line
       /\ \A x : near(x, a) => x \in Line /\ x # 6
       /\ \A x \in B : x \in Line /\ x # 6
       /\ \A x : x \in Far(ver) <=> near(x, a) \/ x \in B
       /\ \A x : x \in Around <=> near(x, 6) /\ x # 6
       /\ <<i, j>> \in Timing(0..(n - 1)) <=> (i = 6 /\ j \in Line) \/ (j = 6 /\ i \in Line)
  BY <1>5, <1>6, <1>7 DEF a, Line
<1>11. <<i, j>> \in Aligned(ver) \ Timing(0..(n - 1))
         <=> \/ i \in Far(ver) /\ j \in Far(ver)
             \/ i \in Around /\ j \in B
             \/ i \in B /\ j \in Around
  BY <1>9, <1>10
<1> QED
  BY <1>11 DEF B

\* How many modules they add, the figure of getNumRawDataModules.
LEMMA AlignedCount ==
  ASSUME NEW ver \in 2..40, NEW n, n = Size(ver), NEW a, a = NumAlign(ver)
  PROVE  /\ Counts(Aligned(ver) \ Timing(0..(n - 1)), 25 * a * a - 10 * a - 55)
         /\ Aligned(ver) \ Timing(0..(n - 1))
              = Far(ver) \X Far(ver) \cup Around \X Beside(ver) \cup Beside(ver) \X Around
<1> DEFINE K == Far(ver)
           B == Beside(ver)
           H == Around
<1>1. n \in 25..177 /\ n \in Int /\ a \in 2..7
  BY SpacingIs
<1>2. Counts(B, 5 * (a - 2)) /\ \A x \in B : x \in Int /\ 16 <= x /\ x <= n - 17
  BY BesideIs
<1>3. Counts(H, 4)
  <2>1. Counts(Segment(4, 5), 2) /\ Counts(Segment(7, 8), 2)
    BY CountSegment
  <2>2. Segment(4, 5) \cap Segment(7, 8) = {} /\ Around = Segment(4, 5) \cup Segment(7, 8)
    BY DEF Segment, Around
  <2> QED
    BY <2>1, <2>2, CountBoth
<1>4. Counts(K, 5 * (a - 1))
  <2>1. Counts(Segment(n - 9, n - 5), 5)
    BY <1>1, CountSegment
  <2>2. B \cap Segment(n - 9, n - 5) = {}
    BY <1>1, <1>2 DEF Segment
  <2> DEFINE k == 5 * (a - 2)
             l == 5 * (a - 1)
             E == Segment(n - 9, n - 5)
  <2>3. k \in Int /\ l \in Int /\ l = k + 5 /\ Counts(B, k)
    BY <1>1, <1>2
  <2>4. K = B \cup E /\ B \cap E = {} /\ Counts(E, 5)
    BY <2>1, <2>2 DEF Far, Segment
  <2> HIDE DEF B, K, E, k, l
  <2>5. Counts(B \cup E, l)
    BY <2>3, <2>4, CountBoth
  <2> QED
    BY <2>4, <2>5 DEF l
<1>5. /\ \A x \in H : x \in Int /\ x <= 8
      /\ \A x \in K : x \in Int /\ 16 <= x /\ x <= n - 5
  BY <1>1, <1>2 DEF Far, Around
<1> DEFINE S == K \X K
           T == H \X B
           U == B \X H
           Z == Aligned(ver) \ Timing(0..(n - 1))
<1>6. Z = S \cup T \cup U
  <2>1. \A i, j : <<i, j>> \in Z <=> <<i, j>> \in S \cup T \cup U
    BY AlignedIs
  <2>2. \A m \in Z : \E i, j : m = <<i, j>>
    <3> SUFFICES ASSUME NEW c, NEW m \in Square(c, 0..2, ver)
                 PROVE  \E i, j : m = <<i, j>>
      BY DEF Aligned
    <3>1. m \in ((c[1] - 4)..(c[1] + 4)) \X ((c[2] - 4)..(c[2] + 4))
      BY DEF Square
    <3>2. m = <<m[1], m[2]>>
      BY <3>1
    <3> QED
      BY <3>2
  <2>3. \A m \in S \cup T \cup U : \E i, j : m = <<i, j>>
    OBVIOUS
  <2> HIDE DEF Z, S, T, U
  <2> QED
    BY <2>1, <2>2, <2>3
<1> HIDE DEF K, B, H
<1>7. /\ IsFiniteSet(S) /\ Cardinality(S) = (5 * (a - 1)) * (5 * (a - 1))
      /\ IsFiniteSet(T) /\ Cardinality(T) = 4 * (5 * (a - 2))
      /\ IsFiniteSet(U) /\ Cardinality(U) = (5 * (a - 2)) * 4
  BY <1>2, <1>3, <1>4, FS_Product DEF Counts
<1>8. S \cap T = {} /\ (S \cup T) \cap U = {}
  BY <1>2, <1>5
<1>9. Counts(S, 25 * a * a - 50 * a + 25) /\ Counts(T, 20 * a - 40) /\ Counts(U, 20 * a - 40)
  BY <1>1, <1>7 DEF Counts
<1>10. /\ 25 * a * a - 50 * a + 25 \in Int /\ 20 * a - 40 \in Int
       /\ 25 * a * a - 30 * a - 15 \in Int /\ 25 * a * a - 10 * a - 55 \in Int
       /\ 25 * a * a - 30 * a - 15 = (25 * a * a - 50 * a + 25) + (20 * a - 40)
       /\ 25 * a * a - 10 * a - 55 = (25 * a * a - 30 * a - 15) + (20 * a - 40)
  BY <1>1
<1> HIDE DEF S, T, U, Z
<1>11. Counts(S \cup T, 25 * a * a - 30 * a - 15)
  BY <1>8, <1>9, <1>10, CountBoth
<1>12. Counts(Z, 25 * a * a - 10 * a - 55)
  BY <1>6, <1>8, <1>9, <1>10, <1>11, CountBoth
<1> QED
  BY <1>6, <1>12 DEF Z, S, T, U, K, B, H

\* The two copies of the version are two rectangles of three by six.
LEMMA VersionIs ==
  ASSUME NEW ver \in 7..40, NEW n, n = Size(ver)
  PROVE  VersionModules(ver, 0..17) = VersionFixed(n)
<1>1. n \in 45..177 /\ n \in Int
  BY DEF Size
<1> DEFINE at(i) == <<n - 11 + (i % 3), i \div 3>>
<1>2. VersionModules(ver, 0..17)
        = {at(i) : i \in 0..17} \cup {<<at(i)[2], at(i)[1]>> : i \in 0..17}
  BY DEF VersionModules
<1>3. {at(i) : i \in 0..17} = Rectangle(n - 11, n - 9, 0, 5)
  <2>1. \A i \in 0..17 : at(i) \in Rectangle(n - 11, n - 9, 0, 5)
    BY <1>1 DEF Rectangle
  <2>2. ASSUME NEW x \in (n - 11)..(n - 9), NEW y \in 0..5
        PROVE  \E i \in 0..17 : at(i) = <<x, y>>
    <3> DEFINE i == 3 * y + (x - n + 11)
    <3>1. i \in 0..17 /\ i % 3 = x - n + 11 /\ i \div 3 = y
      BY <1>1
    <3>2. n - 11 + (i % 3) = x
      BY <1>1, <3>1
    <3> HIDE DEF i
    <3> QED
      BY <3>1, <3>2
  <2> HIDE DEF at
  <2> QED
    BY <2>1, <2>2 DEF Rectangle
<1>4. {<<at(i)[2], at(i)[1]>> : i \in 0..17} = Rectangle(0, 5, n - 11, n - 9)
  <2>1. \A p : p \in {at(i) : i \in 0..17} <=> p \in Rectangle(n - 11, n - 9, 0, 5)
    BY <1>3
  <2> DEFINE T == {<<p[2], p[1]>> : p \in Rectangle(n - 11, n - 9, 0, 5)}
  <2>2. {<<at(i)[2], at(i)[1]>> : i \in 0..17} = T
    <3> HIDE DEF at
    <3> QED
      BY <1>3
  <2>3. T \subseteq Rectangle(0, 5, n - 11, n - 9)
    BY DEF Rectangle
  <2>4. ASSUME NEW x \in 0..5, NEW y \in (n - 11)..(n - 9)
        PROVE  <<x, y>> \in T
    <3>1. <<y, x>> \in Rectangle(n - 11, n - 9, 0, 5)
      BY DEF Rectangle
    <3>2. <<x, y>> = <<(<<y, x>>)[2], (<<y, x>>)[1]>>
      OBVIOUS
    <3> QED
      BY <3>1, <3>2
  <2>5. Rectangle(0, 5, n - 11, n - 9) \subseteq T
    <3> HIDE DEF T
    <3> QED
      BY <2>4 DEF Rectangle
  <2> QED
    BY <2>2, <2>3, <2>5
<1> QED
  BY <1>2, <1>3, <1>4 DEF VersionFixed

\* All patterns, as parts that do not overlap.
LEMMA PatternsAre ==
  ASSUME NEW ver \in 1..40, NEW n, n = Size(ver)
  PROVE  FunctionModules(ver)
           = (Fixed(n) \cup (IF ver >= 7 THEN VersionFixed(n) ELSE {}))
               \cup (IF ver >= 2 THEN Aligned(ver) \ Timing(0..(n - 1)) ELSE {})
<1>1. n \in 21..177 /\ n \in Int
  BY SizeOf
<1> DEFINE T == Timing(0..(n - 1))
           F == UNION {Square(c, 0..4, ver) : c \in Finders(ver)}
           A == UNION {Square(c, 0..2, ver) : c \in Alignments(ver)}
           G == FormatModules(ver)
           V == VersionModules(ver, 0..17)
<1>2. FunctionModules(ver) = T \cup F \cup A \cup G \cup V
  <2>1. FunctionModules(ver) = Timing(0..(Size(ver) - 1)) \cup F \cup A \cup G \cup V
    BY DEF FunctionModules
  <2> HIDE DEF F, A, G, V
  <2> QED
    BY <2>1
<1>3. T \cup F \cup G = Fixed(n)
  <2>1. T \cup F = Rectangle(0, 7, 0, 7) \cup Rectangle(n - 8, n - 1, 0, 7)
                     \cup Rectangle(0, 7, n - 8, n - 1)
                     \cup Rectangle(6, 6, 8, n - 9) \cup Rectangle(8, n - 9, 6, 6)
    <3>1. T \cup F = (Rectangle(6, 6, 0, n - 1) \cup Rectangle(0, n - 1, 6, 6))
                       \cup (Rectangle(0, 7, 0, 7) \cup Rectangle(n - 8, n - 1, 0, 7)
                       \cup Rectangle(0, 7, n - 8, n - 1))
      BY FixedIs
    <3> DEFINE L == (Rectangle(6, 6, 0, n - 1) \cup Rectangle(0, n - 1, 6, 6))
                      \cup (Rectangle(0, 7, 0, 7) \cup Rectangle(n - 8, n - 1, 0, 7)
                      \cup Rectangle(0, 7, n - 8, n - 1))
               R == Rectangle(0, 7, 0, 7) \cup Rectangle(n - 8, n - 1, 0, 7)
                      \cup Rectangle(0, 7, n - 8, n - 1)
                      \cup Rectangle(6, 6, 8, n - 9) \cup Rectangle(8, n - 9, 6, 6)
    <3>2. \A x \in Int, y \in Int : <<x, y>> \in L <=> <<x, y>> \in R
      BY <1>1 DEF Rectangle
    <3>3. \A m : m \in L \/ m \in R => \E x \in Int, y \in Int : m = <<x, y>>
      BY <1>1 DEF Rectangle
    <3> HIDE DEF L, R
    <3>4. \A m : m \in L <=> m \in R
      BY <3>2, <3>3
    <3>5. L = R
      BY <3>4
    <3> QED
      BY <3>1, <3>5 DEF L, R
  <2>2. G = Rectangle(8, 8, 0, 5) \cup Rectangle(8, 8, 7, 8) \cup Rectangle(7, 7, 8, 8)
              \cup Rectangle(0, 5, 8, 8) \cup Rectangle(8, 8, n - 8, n - 1)
              \cup Rectangle(n - 8, n - 1, 8, 8)
    BY FixedIs
  <2> HIDE DEF T, F, G
  <2> QED
    BY <2>1, <2>2 DEF Fixed
<1>4. V = (IF ver >= 7 THEN VersionFixed(n) ELSE {})
  <2>1. CASE ver >= 7
    BY <2>1, VersionIs
  <2>2. CASE ~(ver >= 7)
    BY <2>2 DEF VersionModules
  <2> QED
    BY <2>1, <2>2
<1>5. T \cup A = T \cup (IF ver >= 2 THEN A \ T ELSE {})
  <2>1. ~(ver >= 2) => A = {}
    BY DEF Alignments, AlignmentPositions
  <2> HIDE DEF T, A
  <2> QED
    BY <2>1
<1> HIDE DEF T, F, A, G, V
<1>6. FunctionModules(ver) = ((T \cup F \cup G) \cup V) \cup (IF ver >= 2 THEN A \ T ELSE {})
  BY <1>2, <1>5
<1> QED
  BY <1>3, <1>4, <1>6 DEF A, T, Aligned

LEMMA VersionCount ==
  ASSUME NEW n \in Int, n >= 45
  PROVE  Counts(VersionFixed(n), 36)
<1>1. Counts(Rectangle(n - 11, n - 9, 0, 5), 18)
  BY CountRectangle
<1>2. Counts(Rectangle(0, 5, n - 11, n - 9), 18)
  BY CountRectangle
<1>3. Rectangle(n - 11, n - 9, 0, 5) \cap Rectangle(0, 5, n - 11, n - 9) = {}
  BY DEF Rectangle
<1> QED
  BY <1>1, <1>2, <1>3, CountBoth DEF VersionFixed

LEMMA PatternsCount ==
  ASSUME NEW ver \in 1..40, NEW n, n = Size(ver), NEW a, a = NumAlign(ver)
  PROVE  Counts(FunctionModules(ver),
                2 * n + 191 + (IF ver >= 7 THEN 36 ELSE 0)
                  + (IF ver >= 2 THEN 25 * a * a - 10 * a - 55 ELSE 0))
<1>1. n \in 21..177 /\ n \in Int /\ a \in Int
  BY SizeOf DEF NumAlign
<1> DEFINE F == Fixed(n)
           V == IF ver >= 7 THEN VersionFixed(n) ELSE {}
           A == IF ver >= 2 THEN Aligned(ver) \ Timing(0..(n - 1)) ELSE {}
           v == IF ver >= 7 THEN 36 ELSE 0
           c == IF ver >= 2 THEN 25 * a * a - 10 * a - 55 ELSE 0
<1>2. FunctionModules(ver) = (F \cup V) \cup A
  BY PatternsAre
<1>3. Counts(F, 2 * n + 191)
  BY <1>1, FixedCount
<1>4. Counts({}, 0)
  BY FS_EmptySet DEF Counts
<1>5. Counts(V, v) /\ v \in Int
  <2>1. CASE ver >= 7
    <3>1. n >= 45
      BY <2>1 DEF Size
    <3>2. Counts(VersionFixed(n), 36)
      BY <1>1, <3>1, VersionCount
    <3> QED
      BY <2>1, <3>2
  <2>2. CASE ~(ver >= 7)
    BY <1>4, <2>2
  <2> QED
    BY <2>1, <2>2
<1>6. Counts(A, c) /\ c \in Int
  <2>1. CASE ver >= 2
    <3>1. Counts(Aligned(ver) \ Timing(0..(n - 1)), 25 * a * a - 10 * a - 55)
      BY <2>1, AlignedCount
    <3> QED
      BY <1>1, <2>1, <3>1
  <2>2. CASE ~(ver >= 2)
    BY <1>4, <2>2
  <2> QED
    BY <2>1, <2>2
<1>7. F \cap V = {}
  <2>1. ver >= 7 => n >= 45
    BY DEF Size
  <2> QED
    BY <1>1, <2>1 DEF Fixed, VersionFixed, Rectangle
<1>8. (F \cup V) \cap A = {}
  <2>1. CASE ver >= 2
    <3>1. A = Far(ver) \X Far(ver) \cup Around \X Beside(ver) \cup Beside(ver) \X Around
      <4>1. A = Aligned(ver) \ Timing(0..(n - 1))
        BY <2>1
      <4>2. ver \in 2..40
        BY <2>1
      <4> HIDE DEF A
      <4>3. Aligned(ver) \ Timing(0..(n - 1))
              = Far(ver) \X Far(ver) \cup Around \X Beside(ver) \cup Beside(ver) \X Around
        BY <4>2, AlignedCount, Zenon
      <4> QED
        BY <4>1, <4>3, Zenon
    <3>2. \A x \in Beside(ver) : x \in Int /\ 16 <= x /\ x <= n - 17
      BY <2>1, BesideIs
    <3>3. /\ \A x \in Far(ver) : x \in Int /\ 16 <= x
          /\ \A x \in Around : x \in Int /\ 4 <= x /\ x <= 8 /\ x # 6
      <4>1. n >= 25
        BY <2>1 DEF Size
      <4> QED
        BY <1>1, <3>2, <4>1 DEF Far, Around
    <3>4. ASSUME NEW x \in Int, NEW y \in Int, <<x, y>> \in F \cup V
          PROVE  /\ x <= 8 \/ y <= 8
                 /\ x \in 16..(n - 17) => y = 6 \/ y < 4
                 /\ y \in 16..(n - 17) => x = 6 \/ x < 4
      BY <1>1, <3>4 DEF Fixed, VersionFixed, Rectangle
    <3>5. \A m \in A : \E x \in Int, y \in Int : m = <<x, y>> /\ <<x, y>> \in A
      BY <3>1, <3>2, <3>3
    <3>6. ASSUME NEW x \in Int, NEW y \in Int, <<x, y>> \in A
          PROVE  \/ 16 <= x /\ 16 <= y
                 \/ 4 <= x /\ x <= 8 /\ x # 6 /\ y \in 16..(n - 17)
                 \/ 4 <= y /\ y <= 8 /\ y # 6 /\ x \in 16..(n - 17)
      <4>1. \/ x \in Far(ver) /\ y \in Far(ver)
            \/ x \in Around /\ y \in Beside(ver)
            \/ x \in Beside(ver) /\ y \in Around
        <5> HIDE DEF A
        <5> QED
          BY <3>1, <3>6
      <4> QED
        BY <1>1, <3>2, <3>3, <4>1
    <3> HIDE DEF F, V, A
    <3>7. ASSUME NEW x \in Int, NEW y \in Int, <<x, y>> \in F \cup V, <<x, y>> \in A
          PROVE  FALSE
      <4>1. /\ x <= 8 \/ y <= 8
            /\ x \in 16..(n - 17) => y = 6 \/ y < 4
            /\ y \in 16..(n - 17) => x = 6 \/ x < 4
        BY <3>4, <3>7
      <4>2. \/ 16 <= x /\ 16 <= y
            \/ 4 <= x /\ x <= 8 /\ x # 6 /\ y \in 16..(n - 17)
            \/ 4 <= y /\ y <= 8 /\ y # 6 /\ x \in 16..(n - 17)
        BY <3>6, <3>7
      <4> QED
        BY <4>1, <4>2
    <3> QED
      BY <3>5, <3>7
  <2>2. CASE ~(ver >= 2)
    BY <2>2
  <2> QED
    BY <2>1, <2>2
<1> DEFINE k == 2 * n + 191
           kv == k + v
           kvc == kv + c
<1>9. k \in Int /\ kv \in Int /\ kvc \in Int
  <2>1. k \in Int
    BY <1>1
  <2>2. v \in Int /\ c \in Int
    BY <1>5, <1>6, Zenon
  <2> HIDE DEF k, v, c
  <2> QED
    BY <2>1, <2>2
<1> HIDE DEF F, V, A, v, c
<1>10. Counts(F \cup V, kv)
  <2> HIDE DEF k
  <2> QED
    BY <1>3, <1>5, <1>7, <1>9, CountBoth DEF k
<1>11. Counts((F \cup V) \cup A, kvc)
  <2> HIDE DEF kv
  <2> QED
    BY <1>6, <1>8, <1>9, <1>10, CountBoth
<1> QED
  BY <1>2, <1>11 DEF v, c

LEMMA PatternsInGrid ==
  ASSUME NEW ver \in 1..40
  PROVE  FunctionModules(ver) \subseteq Grid(ver)
<1> DEFINE n == Size(ver)
<1>1. n \in 21..177 /\ n \in Int
  BY SizeOf
<1>2. FunctionModules(ver)
        = (Fixed(n) \cup (IF ver >= 7 THEN VersionFixed(n) ELSE {}))
            \cup (IF ver >= 2 THEN Aligned(ver) \ Timing(0..(n - 1)) ELSE {})
  BY PatternsAre
<1> HIDE DEF n
<1>3. Fixed(n) \subseteq (0..(n - 1)) \X (0..(n - 1))
  BY <1>1 DEF Fixed, Rectangle
<1>4. VersionFixed(n) \subseteq (0..(n - 1)) \X (0..(n - 1))
  BY <1>1 DEF VersionFixed, Rectangle
<1>5. Aligned(ver) \subseteq (0..(n - 1)) \X (0..(n - 1))
  <2> SUFFICES ASSUME NEW c, NEW m \in Square(c, 0..2, ver)
               PROVE  m \in (0..(n - 1)) \X (0..(n - 1))
    BY DEF Aligned
  <2>1. m \in ((c[1] - 4)..(c[1] + 4)) \X ((c[2] - 4)..(c[2] + 4))
    BY DEF Square
  <2>2. m = <<m[1], m[2]>>
    BY <2>1
  <2>3. m[1] \in 0..(n - 1) /\ m[2] \in 0..(n - 1)
    BY DEF Square, n
  <2> QED
    BY <2>2, <2>3
<1> DEFINE G == (0..(n - 1)) \X (0..(n - 1))
           F == Fixed(n)
           V == VersionFixed(n)
           A == Aligned(ver)
           T == Timing(0..(n - 1))
<1>6. F \subseteq G /\ V \subseteq G /\ A \subseteq G
  BY <1>3, <1>4, <1>5
<1> HIDE DEF G, F, V, A, T
<1>7. FunctionModules(ver) \subseteq G
  <2>1. FunctionModules(ver) = (F \cup (IF ver >= 7 THEN V ELSE {})) \cup (IF ver >= 2 THEN A \ T ELSE {})
    BY <1>2 DEF F, V, A, T
  <2> QED
    BY <1>6, <2>1
<1> QED
  BY <1>7 DEF G, Grid, n

\* At every version, getNumRawDataModules counts exactly the modules that
\* drawFunctionPatterns leaves free, and every pattern lies in the symbol.
THEOREM CapacityCorrect ==
  ASSUME NEW ver \in 1..40
  PROVE  /\ FunctionModules(ver) \subseteq Grid(ver)
         /\ Cardinality(Grid(ver) \ FunctionModules(ver)) = getNumRawDataModules(ver)
<1> DEFINE n == Size(ver)
           a == NumAlign(ver)
           v == IF ver >= 7 THEN 36 ELSE 0
           c == IF ver >= 2 THEN 25 * a * a - 10 * a - 55 ELSE 0
<1>1. FunctionModules(ver) \subseteq Grid(ver)
  BY PatternsInGrid
<1>2. Counts(FunctionModules(ver), 2 * n + 191 + v + c)
  BY PatternsCount
<1>3. IsFiniteSet(Grid(ver)) /\ Cardinality(Grid(ver)) = n * n
  BY GridSize
<1>4. Cardinality(Grid(ver) \ FunctionModules(ver)) = n * n - (2 * n + 191 + v + c)
  <2>1. Grid(ver) \cap FunctionModules(ver) = FunctionModules(ver)
    BY <1>1
  <2> HIDE DEF n, v, c
  <2> QED
    BY <1>2, <1>3, <2>1, FS_Difference DEF Counts
<1>5. a \in Int /\ n = 4 * ver + 17
  BY DEF NumAlign, Size
<1>6. getNumRawDataModules(ver)
        = (16 * ver + 128) * ver + 64 - (IF ver >= 2 THEN (25 * a - 10) * a - 55 ELSE 0) - v
  BY DEF getNumRawDataModules
<1> HIDE DEF n, a
<1>7. n * n = 16 * ver * ver + 136 * ver + 289
  BY <1>5
<1>8. (25 * a - 10) * a - 55 = 25 * a * a - 10 * a - 55
  BY <1>5
<1>9. (16 * ver + 128) * ver + 64 = 16 * ver * ver + 128 * ver + 64
  OBVIOUS
<1>10. n * n - (2 * n + 191 + v + c) = getNumRawDataModules(ver)
  <2> DEFINE square == 16 * ver * ver
             quad == 25 * a * a - 10 * a - 55
  <2>1. square \in Int /\ quad \in Int
    BY <1>5
  <2>2. /\ n * n = square + 136 * ver + 289
        /\ getNumRawDataModules(ver)
             = square + 128 * ver + 64 - (IF ver >= 2 THEN quad ELSE 0) - v
        /\ c = (IF ver >= 2 THEN quad ELSE 0)
        /\ v = (IF ver >= 7 THEN 36 ELSE 0)
    BY <1>6, <1>7, <1>8, <1>9
  <2> HIDE DEF square, quad, v, c
  <2> QED
    BY <1>5, <2>1, <2>2
<1> QED
  BY <1>1, <1>4, <1>10

-----------------------------------------------------------------------------
(* The codewords that are drawn: the tables and the length of the          *)
(* interleaved blocks.                                                     *)

\* The tables: every block has its error correction and room for it.
LEMMA BlocksFit ==
  ASSUME NEW ver \in 1..40, NEW e \in 0..3
  PROVE  /\ NumBlocks(ver, e) \in 1..81 /\ BlockEccLen(ver, e) \in 7..30
         /\ RawCodewords(ver) \in Nat
         /\ NumBlocks(ver, e) * BlockEccLen(ver, e) <= RawCodewords(ver)
<1>1. e \in {0, 1, 2, 3}
  OBVIOUS
<1>2. CASE e = 0
  BY <1>2 DEF NumBlocks, BlockEccLen, RawCodewords, getNumRawDataModules, NumAlign,
              NUM_ERROR_CORRECTION_BLOCKS, ECC_CODEWORDS_PER_BLOCK
<1>3. CASE e = 1
  BY <1>3 DEF NumBlocks, BlockEccLen, RawCodewords, getNumRawDataModules, NumAlign,
              NUM_ERROR_CORRECTION_BLOCKS, ECC_CODEWORDS_PER_BLOCK
<1>4. CASE e = 2
  BY <1>4 DEF NumBlocks, BlockEccLen, RawCodewords, getNumRawDataModules, NumAlign,
              NUM_ERROR_CORRECTION_BLOCKS, ECC_CODEWORDS_PER_BLOCK
<1>5. CASE e = 3
  BY <1>5 DEF NumBlocks, BlockEccLen, RawCodewords, getNumRawDataModules, NumAlign,
              NUM_ERROR_CORRECTION_BLOCKS, ECC_CODEWORDS_PER_BLOCK
<1> QED
  BY <1>1, <1>2, <1>3, <1>4, <1>5

\* The sequence that FlattenSeq builds up, which the library defines by a
\* CHOOSE; Joins is what is to be shown of it.
Joined(seqs, n) ==
  CHOOSE f : f = [i \in 1..n |-> IF i = 1 THEN seqs[i] ELSE f[i - 1] \o seqs[i]]

Closed(S, seqs, n) == \A s \in S, k \in 1..n : s \o seqs[k] \in S

Joins(F, seqs, n) == F[0] = <<>> /\ \A k \in 1..n : F[k] = F[k - 1] \o seqs[k]

LEMMA JoinExists ==
  ASSUME NEW n \in Nat, NEW seqs, NEW S, NEW c \in S, c = <<>>
  PROVE  Closed(S, seqs, n) => \E F \in [0..n -> S] : Joins(F, seqs, n)
<1>0. HAVE Closed(S, seqs, n)
<1> DEFINE g == [k \in 1..n |-> [s \in S |-> s \o seqs[k]]]
<1>1. g \in [1..n -> [S -> S]]
  BY <1>0 DEF Closed
<1>2. PICK F \in [0..n -> S] : F[0] = c /\ \A k \in 1..n : F[k] = g[k][F[k - 1]]
  <2> HIDE DEF g
  <2> QED
    BY <1>1, Recursion
<1>3. ASSUME NEW k \in 1..n
      PROVE  F[k] = F[k - 1] \o seqs[k]
  <2>1. F[k - 1] \in S /\ F[k] = g[k][F[k - 1]]
    <3> HIDE DEF g
    <3>1. k - 1 \in 0..n
      OBVIOUS
    <3> QED
      BY <1>2, <3>1
  <2> QED
    BY <2>1, Zenon
<1> QED
  BY <1>2, <1>3 DEF Joins

LEMMA JoinedFollows ==
  ASSUME NEW V, NEW n \in Nat, n > 0, NEW seqs \in [1..n -> Seq(V)]
  PROVE  /\ Joined(seqs, n)[1] = seqs[1]
         /\ \A i \in 2..n : Joined(seqs, n)[i] = Joined(seqs, n)[i - 1] \o seqs[i]
<1> DEFINE J == Joined(seqs, n)
<1>1. Closed(Seq(V), seqs, n) /\ <<>> \in Seq(V)
  BY DEF Closed
<1>2. PICK F \in [0..n -> Seq(V)] : Joins(F, seqs, n)
  <2> DEFINE S == Seq(V)
             c == <<>>
  <2>1. Closed(S, seqs, n) /\ c \in S /\ c = <<>>
    BY <1>1
  <2> HIDE DEF S, c
  <2>2. \E F \in [0..n -> S] : Joins(F, seqs, n)
    BY <2>1, JoinExists
  <2> QED
    BY <2>2 DEF S
<1>3. F[0] = <<>> /\ \A k \in 1..n : F[k] = F[k - 1] \o seqs[k]
  BY <1>2 DEF Joins
<1>4. F[1] = seqs[1]
  <2>1. 1 \in 1..n /\ 1 - 1 = 0
    OBVIOUS
  <2>2. F[1] = F[0] \o seqs[1]
    BY <1>3, <2>1
  <2>3. seqs[1] \in Seq(V)
    BY <2>1
  <2>4. <<>> \o seqs[1] = seqs[1]
    BY <2>3
  <2> QED
    BY <1>3, <2>2, <2>4
<1> DEFINE G == [i \in 1..n |-> F[i]]
<1>5. \A i \in 1..n : G[i] = IF i = 1 THEN seqs[i] ELSE G[i - 1] \o seqs[i]
  <2> SUFFICES ASSUME NEW i \in 1..n
               PROVE  F[i] = IF i = 1 THEN seqs[i] ELSE G[i - 1] \o seqs[i]
    BY Zenon
  <2>1. CASE i = 1
    BY <1>4, <2>1
  <2>2. CASE i # 1
    <3>1. i - 1 \in 1..n
      BY <2>2
    <3>2. G[i - 1] = F[i - 1]
      BY <3>1, Zenon
    <3>3. F[i] = F[i - 1] \o seqs[i]
      BY <1>3, Zenon
    <3> HIDE DEF G
    <3> QED
      BY <2>2, <3>2, <3>3, Zenon
  <2> QED
    BY <2>1, <2>2
<1>6. G = [i \in 1..n |-> IF i = 1 THEN seqs[i] ELSE G[i - 1] \o seqs[i]]
  <2>1. G = [i \in 1..n |-> G[i]]
    OBVIOUS
  <2> HIDE DEF G
  <2> QED
    BY <1>5, <2>1, Zenon
<1>7. J = [i \in 1..n |-> IF i = 1 THEN seqs[i] ELSE J[i - 1] \o seqs[i]]
  <2> HIDE DEF G
  <2> QED
    BY <1>6, Zenon DEF Joined
<1> HIDE DEF J
<1>8. \A i \in 1..n : J[i] = IF i = 1 THEN seqs[i] ELSE J[i - 1] \o seqs[i]
  BY <1>7, Zenon
<1>9. J[1] = seqs[1]
  <2>1. 1 \in 1..n
    OBVIOUS
  <2> QED
    BY <1>8, <2>1, Zenon
<1>10. ASSUME NEW i \in 2..n
       PROVE  J[i] = J[i - 1] \o seqs[i]
  <2>1. i \in 1..n /\ i # 1
    OBVIOUS
  <2> QED
    BY <1>8, <2>1, Zenon
<1> QED
  BY <1>9, <1>10, Zenon DEF J

\* The length of a flattened sequence is the sum of the lengths.
LEMMA FlattenLength ==
  ASSUME NEW V, NEW n \in Nat, n > 0, NEW seqs \in [1..n -> Seq(V)],
         NEW total \in [0..n -> Int], total[0] = 0,
         \A i \in 1..n : total[i] = total[i - 1] + Len(seqs[i])
  PROVE  Len(FlattenSeq(seqs)) = total[n]
<1> DEFINE J == Joined(seqs, n)
<1>1. J[1] = seqs[1] /\ \A i \in 2..n : J[i] = J[i - 1] \o seqs[i]
  BY JoinedFollows
<1>2. Len(seqs) = n
  BY LenProperties
<1>3. FlattenSeq(seqs) = J[n]
  <2>1. Len(seqs) # 0
    BY <1>2
  <2>2. FlattenSeq(seqs) = Joined(seqs, Len(seqs))[Len(seqs)]
    BY <2>1, Zenon DEF FlattenSeq, Joined
  <2> QED
    BY <1>2, <2>2, Zenon
<1> HIDE DEF J
<1> DEFINE N == {k \in Nat : k + 1 <= n => J[k + 1] \in Seq(V) /\ Len(J[k + 1]) = total[k + 1]}
<1>4. 0 \in N
  <2>1. 1 \in 1..n /\ 1 - 1 = 0
    OBVIOUS
  <2>2. total[1] = Len(seqs[1]) /\ seqs[1] \in Seq(V)
    <3>1. total[1] = total[1 - 1] + Len(seqs[1]) /\ seqs[1] \in Seq(V)
      BY <2>1
    <3>2. Len(seqs[1]) \in Nat
      BY <3>1
    <3> QED
      BY <2>1, <3>1, <3>2
  <2>3. J[1] \in Seq(V) /\ Len(J[1]) = total[1]
    BY <1>1, <2>2
  <2> QED
    BY <2>3
<1>5. ASSUME NEW k \in Nat, k \in N
      PROVE  k + 1 \in N
  <2> SUFFICES ASSUME k + 2 <= n
               PROVE  J[k + 2] \in Seq(V) /\ Len(J[k + 2]) = total[k + 2]
    OBVIOUS
  <2>1. /\ J[k + 1] \in Seq(V) /\ Len(J[k + 1]) = total[k + 1]
        /\ k + 2 \in 2..n /\ k + 2 \in 1..n /\ k + 2 - 1 = k + 1
    BY <1>5
  <2> DEFINE m == k + 2
             l == k + 1
  <2>2. J[m] = J[m - 1] \o seqs[m] /\ total[m] = total[m - 1] + Len(seqs[m]) /\ m - 1 = l
        /\ seqs[m] \in Seq(V)
    <3>1. m \in 2..n /\ m \in 1..n /\ m - 1 = l
      BY <2>1
    <3> HIDE DEF m, l
    <3> QED
      BY <1>1, <3>1
  <2>3. J[l] \in Seq(V) /\ Len(J[l]) = total[l]
    BY <2>1
  <2> HIDE DEF m, l
  <2>4. J[l] \o seqs[m] \in Seq(V) /\ Len(J[l] \o seqs[m]) = Len(J[l]) + Len(seqs[m])
    BY <2>2, <2>3, ConcatProperties
  <2>5. J[m] \in Seq(V) /\ Len(J[m]) = total[m]
    BY <2>2, <2>3, <2>4
  <2> QED
    BY <2>5 DEF m
<1>6. n - 1 \in N
  <2>1. n - 1 \in Nat
    OBVIOUS
  <2> HIDE DEF N
  <2> QED
    BY <1>4, <1>5, <2>1, Induction
<1>7. J[n - 1 + 1] \in Seq(V) /\ Len(J[n - 1 + 1]) = total[n - 1 + 1] /\ n - 1 + 1 = n
  BY <1>6
<1> QED
  BY <1>3, <1>7

\* The codewords of the blocks in the order they are sent: the first of each,
\* the second of each, and so on; short blocks have none at position d + 1.
Columns(block, blocks, short, d, e) ==
  [i \in 1..(d + 1 + e) |->
     IF i = d + 1 THEN [b \in 1..(blocks - short) |-> block[short + b][i]]
     ELSE [b \in 1..blocks |-> block[b][i]]]

LEMMA ColumnsLength ==
  ASSUME NEW block, NEW blocks \in Nat, NEW short \in 0..blocks, NEW d \in Nat, NEW e \in Nat
  PROVE  Len(FlattenSeq(Columns(block, blocks, short, d, e))) = blocks * (d + e) + blocks - short
<1> DEFINE n == d + 1 + e
           V == {block[b][i] : b \in 1..blocks, i \in 1..n}
           col(i) == IF i = d + 1 THEN [b \in 1..(blocks - short) |-> block[short + b][i]]
                     ELSE [b \in 1..blocks |-> block[b][i]]
           seqs == Columns(block, blocks, short, d, e)
           total == [i \in 0..n |-> blocks * i - (IF i <= d THEN 0 ELSE short)]
<1>1. n \in Nat /\ n > 0 /\ n \in Int
  OBVIOUS
<1>2. seqs = [i \in 1..n |-> col(i)]
  BY DEF Columns
<1>3. ASSUME NEW i \in 1..n
      PROVE  /\ col(i) \in Seq(V)
             /\ Len(col(i)) = IF i = d + 1 THEN blocks - short ELSE blocks
  <2> HIDE DEF n
  <2>1. CASE i = d + 1
    <3>1. \A b \in 1..(blocks - short) : block[short + b][i] \in V
      <4> SUFFICES ASSUME NEW b \in 1..(blocks - short)
                   PROVE  block[short + b][i] \in V
        OBVIOUS
      <4>1. short + b \in 1..blocks
        OBVIOUS
      <4> QED
        BY <4>1
    <3> HIDE DEF V
    <3>2. col(i) = [b \in 1..(blocks - short) |-> block[short + b][i]]
      BY <2>1
    <3>3. blocks - short \in Nat
      OBVIOUS
    <3>4. [b \in 1..(blocks - short) |-> block[short + b][i]] \in Seq(V)
      BY <3>1, <3>3
    <3>5. Len([b \in 1..(blocks - short) |-> block[short + b][i]]) = blocks - short
      BY <3>3
    <3> QED
      BY <2>1, <3>2, <3>4, <3>5
  <2>2. CASE i # d + 1
    <3>1. \A b \in 1..blocks : block[b][i] \in V
      OBVIOUS
    <3> HIDE DEF V
    <3>2. col(i) = [b \in 1..blocks |-> block[b][i]]
      BY <2>2
    <3>3. [b \in 1..blocks |-> block[b][i]] \in Seq(V)
      BY <3>1
    <3>4. Len([b \in 1..blocks |-> block[b][i]]) = blocks
      OBVIOUS
    <3> QED
      BY <2>2, <3>2, <3>3, <3>4
  <2> QED
    BY <2>1, <2>2
<1>4. seqs \in [1..n -> Seq(V)] /\ \A i \in 1..n : Len(seqs[i]) = IF i = d + 1 THEN blocks - short ELSE blocks
  <2> HIDE DEF seqs, col, V, n
  <2> QED
    BY <1>2, <1>3
<1>5. /\ total \in [0..n -> Int] /\ total[0] = 0
      /\ total[n] = blocks * (d + e) + blocks - short
  <2>1. \A i \in 0..n : blocks * i - (IF i <= d THEN 0 ELSE short) \in Int
    BY <1>1
  <2>2. blocks * n = blocks * (d + e) + blocks /\ blocks * 0 = 0 /\ blocks * (d + e) \in Int
    OBVIOUS
  <2>3. total[n] = blocks * n - short /\ total[0] = blocks * 0
    BY <1>1
  <2> HIDE DEF n
  <2> QED
    BY <2>1, <2>2, <2>3
<1>6. ASSUME NEW i \in 1..n
      PROVE  total[i] = total[i - 1] + Len(seqs[i])
  <2>1. blocks * i = blocks * (i - 1) + blocks /\ blocks * i \in Int /\ blocks * (i - 1) \in Int
    BY <1>1
  <2>2. /\ total[i] = blocks * i - (IF i <= d THEN 0 ELSE short)
        /\ total[i - 1] = blocks * (i - 1) - (IF i - 1 <= d THEN 0 ELSE short)
    BY <1>1
  <2>3. Len(seqs[i]) = IF i = d + 1 THEN blocks - short ELSE blocks
    BY <1>4
  <2> DEFINE bi == blocks * i
             bj == blocks * (i - 1)
             li == Len(seqs[i])
             ti == total[i]
             tj == total[i - 1]
  <2>4. /\ bi = bj + blocks /\ bi \in Int /\ bj \in Int /\ i \in Int
        /\ ti = bi - (IF i <= d THEN 0 ELSE short)
        /\ tj = bj - (IF i - 1 <= d THEN 0 ELSE short)
        /\ li = IF i = d + 1 THEN blocks - short ELSE blocks
    BY <1>1, <2>1, <2>2, <2>3
  <2> HIDE DEF bi, bj, li, ti, tj, total, seqs, n
  <2>5. ti = tj + li
    BY <2>4
  <2> QED
    BY <2>5 DEF ti, tj, li
<1> HIDE DEF seqs, total, n, V
<1>7. Len(FlattenSeq(seqs)) = total[n]
  BY <1>1, <1>4, <1>5, <1>6, FlattenLength
<1> QED
  BY <1>5, <1>7 DEF seqs

\* addEccAndInterleave returns one codeword for each eight modules of the
\* capacity, whatever the data: the length that drawCodewords throws without,
\* and that addEccAndInterleave asserts.
THEOREM InterleavedLength ==
  ASSUME NEW ver \in 1..40, NEW e \in 0..3, NEW data
  PROVE  Len(Interleaved(data, ver, e)) = RawCodewords(ver)
<1> DEFINE blocks == NumBlocks(ver, e)
           eccLen == BlockEccLen(ver, e)
           raw == RawCodewords(ver)
           short == blocks - (raw % blocks)
           dataLen == raw \div blocks - eccLen
<1>1. blocks \in 1..81 /\ eccLen \in 7..30 /\ raw \in Nat /\ blocks * eccLen <= raw
  BY BlocksFit
<1>2. \E block : Interleaved(data, ver, e) = FlattenSeq(Columns(block, blocks, short, dataLen, eccLen))
  <2> DEFINE divisor == Divisor(eccLen)
             first(b) == (b - 1) * dataLen + Max({0, b - 1 - short}) + 1
             dat(b) == SubSeq(data, first(b), first(b) + dataLen - (IF b <= short THEN 1 ELSE 0))
             block == Tuple([b \in 1..blocks |->
                              dat(b) \o (IF b <= short THEN <<0>> ELSE <<>>)
                                \o Remainder(dat(b), divisor)])
  <2>1. Interleaved(data, ver, e) = FlattenSeq(Columns(block, blocks, short, dataLen, eccLen))
    BY DEF Interleaved, Columns
  <2> QED
    BY <2>1
<1>3. PICK block : Interleaved(data, ver, e) = FlattenSeq(Columns(block, blocks, short, dataLen, eccLen))
  BY <1>2
<1> HIDE DEF blocks, eccLen, raw
<1>4. /\ short \in 0..blocks /\ blocks \in Nat /\ eccLen \in Nat
      /\ dataLen \in Nat
  <2>1. raw % blocks \in 0..(blocks - 1) /\ raw \div blocks \in Int
    BY <1>1
  <2>2. raw \div blocks >= eccLen
    BY <1>1
  <2> QED
    BY <1>1, <2>1, <2>2
<1>5. raw = blocks * (raw \div blocks) + (raw % blocks)
  BY <1>1
<1>6. dataLen + eccLen = raw \div blocks /\ raw \div blocks \in Int /\ raw % blocks \in Int
  BY <1>1
<1>7. blocks * (dataLen + eccLen) + blocks - short = raw
  <2> DEFINE q == raw \div blocks
             r == raw % blocks
             p == blocks * q
  <2>1. p \in Int /\ raw = p + r /\ r \in Int /\ blocks * (dataLen + eccLen) = p
    BY <1>1, <1>5, <1>6
  <2> HIDE DEF q, r, p, dataLen
  <2>2. short = blocks - r
    BY DEF r
  <2> HIDE DEF short
  <2> QED
    BY <1>1, <2>1, <2>2
<1> HIDE DEF short, dataLen
<1>8. Len(Interleaved(data, ver, e)) = blocks * (dataLen + eccLen) + blocks - short
  BY <1>3, <1>4, ColumnsLength
<1> QED
  BY <1>7, <1>8 DEF raw

-----------------------------------------------------------------------------
(* The scan that draws them.                                               *)

\* The modules that belong to no pattern; those to the right of a column; and
\* the places along a pair of columns where the scan meets one.
FreeModules(ver) == Grid(ver) \ FunctionModules(ver)

FreeBeyond(ver, r) == {m \in FreeModules(ver) : m[1] > r}

FreeAlong(ver, r) == {k \in DOMAIN Zigzag(ver, r) : Zigzag(ver, r)[k] \notin FunctionModules(ver)}

\* The scan of a pair of columns meets each of its free modules once.
LEMMA AlongCount ==
  ASSUME NEW ver \in 1..40, NEW r \in 1..(Size(ver) - 1)
  PROVE  /\ IsFiniteSet(FreeAlong(ver, r))
         /\ Counts({m \in FreeModules(ver) : m[1] \in {r - 1, r}}, Cardinality(FreeAlong(ver, r)))
<1> DEFINE n == Size(ver)
           path == Zigzag(ver, r)
           up == ((r + 1) \div 2) % 2 = 0
           y(k) == IF up THEN n - 1 - ((k - 1) \div 2) ELSE (k - 1) \div 2
           S == FreeAlong(ver, r)
           T == {m \in FreeModules(ver) : m[1] \in {r - 1, r}}
           F == FunctionModules(ver)
           f == [k \in S |-> path[k]]
<1>1. n \in 21..177 /\ n \in Int /\ r \in 1..(n - 1)
  BY SizeOf
<1>2. path = [k \in 1..(2 * n) |-> <<r - ((k - 1) % 2), y(k)>>]
  BY DEF Zigzag
<1>3. DOMAIN path = 1..(2 * n) /\ \A k \in 1..(2 * n) : path[k] = <<r - ((k - 1) % 2), y(k)>>
  <2> HIDE DEF path, n, y
  <2> QED
    BY <1>2
<1>4. \A k : k \in S <=> k \in 1..(2 * n) /\ path[k] \notin F
  <2>1. S = {k \in DOMAIN path : path[k] \notin F}
    BY DEF FreeAlong
  <2> HIDE DEF S, path, F, n
  <2> QED
    BY <1>3, <2>1
<1>5. \A i, j : <<i, j>> \in T <=> <<i, j>> \notin F /\ i \in {r - 1, r} /\ j \in 0..(n - 1)
  <2> HIDE DEF F
  <2> QED
    BY <1>1 DEF FreeModules, Grid, F
<1>6. \A m \in T : \E i, j : m = <<i, j>>
  BY DEF FreeModules, Grid
<1> HIDE DEF path, F, S, T, n
<1>7. IsFiniteSet(S)
  <2>1. IsFiniteSet(1..(2 * n))
    BY <1>1, FS_Interval
  <2> QED
    BY <1>4, <2>1, FS_Subset
<1>8. Counts(S, Cardinality(S))
  BY <1>7 DEF Counts
<1> DEFINE upward == up
<1> HIDE DEF up
<1>9. \A k \in S : f[k] \in T
  <2> SUFFICES ASSUME NEW k \in S PROVE path[k] \in T
    OBVIOUS
  <2>1. k \in 1..(2 * n) /\ path[k] \notin F /\ path[k] = <<r - ((k - 1) % 2), y(k)>>
    BY <1>3, <1>4
  <2>2. r - ((k - 1) % 2) \in {r - 1, r} /\ y(k) \in 0..(n - 1)
    BY <1>1, <2>1
  <2> QED
    BY <1>5, <2>1, <2>2
<1>10. \A k \in S, l \in S : f[k] = f[l] => k = l
  <2> SUFFICES ASSUME NEW k \in S, NEW l \in S, path[k] = path[l] PROVE k = l
    OBVIOUS
  <2>1. /\ k \in 1..(2 * n) /\ l \in 1..(2 * n)
        /\ r - ((k - 1) % 2) = r - ((l - 1) % 2) /\ y(k) = y(l)
    <3> HIDE DEF y
    <3>1. /\ k \in 1..(2 * n) /\ l \in 1..(2 * n)
          /\ path[k] = <<r - ((k - 1) % 2), y(k)>> /\ path[l] = <<r - ((l - 1) % 2), y(l)>>
      BY <1>3, <1>4
    <3>2. <<r - ((k - 1) % 2), y(k)>> = <<r - ((l - 1) % 2), y(l)>>
      BY <3>1, Zenon
    <3>3. r - ((k - 1) % 2) = r - ((l - 1) % 2) /\ y(k) = y(l)
      BY <3>2, Zenon
    <3> QED
      BY <3>1, <3>3, Zenon
  <2>2. (k - 1) \div 2 = (l - 1) \div 2 /\ (k - 1) % 2 = (l - 1) % 2
    BY <1>1, <2>1
  <2> QED
    BY <1>1, <2>1, <2>2
<1>11. \A m \in T : \E k \in S : f[k] = m
  <2> SUFFICES ASSUME NEW m \in T PROVE \E k \in S : path[k] = m
    OBVIOUS
  <2>1. PICK i, j : m = <<i, j>>
    BY <1>6
  <2>2. <<i, j>> \notin F /\ i \in {r - 1, r} /\ j \in 0..(n - 1)
    BY <1>5, <2>1
  <2> DEFINE k == 2 * (IF up THEN n - 1 - j ELSE j) + (r - i) + 1
  <2>3. k \in 1..(2 * n) /\ r - ((k - 1) % 2) = i /\ y(k) = j
    BY <1>1, <2>2
  <2> HIDE DEF k, y
  <2>4. path[k] = m
    BY <1>3, <2>1, <2>3
  <2>5. k \in S
    BY <1>4, <2>1, <2>2, <2>3, <2>4
  <2> QED
    BY <2>4, <2>5
<1>12. f = [k \in S |-> f[k]]
  OBVIOUS
<1> HIDE DEF f
<1>13. Counts(T, Cardinality(S))
  BY <1>8, <1>9, <1>10, <1>11, <1>12, CountImage
<1> QED
  BY <1>7, <1>13 DEF S, T

\* The right columns of the pairs, and what NextRight comes to after the last.
RightColumns(ver) ==
  {r \in 8..(Size(ver) - 1) : r % 2 = 0} \cup {-1, 1, 3, 5}

\* The pairs take the free modules from the right to the left and leave none
\* out: the column that is stepped over is all timing pattern.
LEMMA BeyondIs ==
  ASSUME NEW ver \in 1..40
  PROVE  /\ FreeBeyond(ver, Size(ver) - 1) = {}
         /\ FreeBeyond(ver, -1) = FreeModules(ver)
         /\ \A r \in RightColumns(ver) : r >= 1 =>
              /\ NextRight(r) \in RightColumns(ver)
              /\ FreeBeyond(ver, NextRight(r))
                   = FreeBeyond(ver, r) \cup {m \in FreeModules(ver) : m[1] \in {r - 1, r}}
<1> DEFINE n == Size(ver)
           U == FreeModules(ver)
<1>1. n \in 21..177
  BY SizeOf
<1>2. \A m \in U : m[1] \in 0..(n - 1) /\ m[1] # 6
  <2> SUFFICES ASSUME NEW m \in U PROVE m[1] \in 0..(n - 1) /\ m[1] # 6
    OBVIOUS
  <2>1. PICK i \in 0..(n - 1), j \in 0..(n - 1) : m = <<i, j>>
    BY DEF FreeModules, Grid
  <2>2. <<i, j>> \notin Timing(0..(n - 1))
    BY <2>1 DEF FreeModules, FunctionModules
  <2>3. i # 6
    BY <2>2 DEF Timing
  <2> QED
    BY <2>1, <2>3
<1>3. \A r : FreeBeyond(ver, r) = {m \in U : m[1] > r}
  BY DEF FreeBeyond
<1> HIDE DEF U
<1>4. FreeBeyond(ver, n - 1) = {}
  <2> HIDE DEF n
  <2> QED
    BY <1>1, <1>2, <1>3
<1>5. FreeBeyond(ver, -1) = U
  <2> HIDE DEF n
  <2> QED
    BY <1>1, <1>2, <1>3
<1>6. ASSUME NEW r \in RightColumns(ver), r >= 1
      PROVE  /\ NextRight(r) \in RightColumns(ver)
             /\ FreeBeyond(ver, NextRight(r))
                  = FreeBeyond(ver, r) \cup {m \in U : m[1] \in {r - 1, r}}
  <2>1. (r \in 8..(n - 1) /\ r % 2 = 0) \/ r \in {1, 3, 5}
    BY <1>1, <1>6 DEF RightColumns
  <2> HIDE DEF n
  <2>2. CASE r = 8
    <3>1. NextRight(r) = 5
      BY <2>2 DEF NextRight
    <3>2. \A m \in U : m[1] > 5 <=> m[1] > r \/ m[1] \in {r - 1, r}
      BY <1>1, <1>2, <2>2
    <3> QED
      BY <1>3, <3>1, <3>2 DEF RightColumns
  <2>3. CASE r # 8
    <3>1. /\ NextRight(r) = r - 2 /\ r \in Int
          /\ (r - 2 \in 8..(n - 1) /\ (r - 2) % 2 = 0) \/ r - 2 \in {-1, 1, 3}
      BY <1>1, <2>1, <2>3 DEF NextRight
    <3>2. r - 2 \in RightColumns(ver)
      BY <3>1 DEF RightColumns, n
    <3>3. \A m \in U : m[1] > r - 2 <=> m[1] > r \/ m[1] \in {r - 1, r}
      BY <1>1, <1>2, <3>1
    <3> QED
      BY <1>3, <3>1, <3>2, <3>3
  <2> QED
    BY <2>2, <2>3
<1> QED
  BY <1>4, <1>5, <1>6 DEF n, U

LEMMA FirstRight == ASSUME NEW ver \in 1..40 PROVE Size(ver) - 1 \in RightColumns(ver)
<1>1. Size(ver) - 1 \in 8..(Size(ver) - 1) /\ (Size(ver) - 1) % 2 = 0
  BY DEF Size
<1> QED
  BY <1>1 DEF RightColumns

\* A pair of columns adds its free modules to those that are done.
LEMMA BeyondCount ==
  ASSUME NEW ver \in 1..40, NEW r \in RightColumns(ver), r >= 1
  PROVE  /\ IsFiniteSet(FreeBeyond(ver, r)) /\ IsFiniteSet(FreeAlong(ver, r))
         /\ Cardinality(FreeBeyond(ver, r)) \in Nat /\ Cardinality(FreeAlong(ver, r)) \in Nat
         /\ Cardinality(FreeBeyond(ver, NextRight(r)))
              = Cardinality(FreeBeyond(ver, r)) + Cardinality(FreeAlong(ver, r))
<1> DEFINE A == FreeBeyond(ver, r)
           B == {m \in FreeModules(ver) : m[1] \in {r - 1, r}}
           k == Cardinality(A)
           l == Cardinality(FreeAlong(ver, r))
<1>1. r \in 1..(Size(ver) - 1)
  <2>1. Size(ver) \in 21..177
    BY SizeOf
  <2>2. r \in 8..(Size(ver) - 1) \/ r \in {-1, 1, 3, 5}
    BY DEF RightColumns
  <2> QED
    BY <2>1, <2>2
<1>2. IsFiniteSet(FreeAlong(ver, r)) /\ l \in Nat /\ Counts(B, l)
  BY <1>1, AlongCount, FS_CardinalityType
<1>3. IsFiniteSet(A) /\ k \in Nat /\ Counts(A, k)
  <2>1. IsFiniteSet(Grid(ver))
    BY GridSize
  <2>2. A \subseteq Grid(ver)
    BY DEF FreeBeyond, FreeModules
  <2> QED
    BY <2>1, <2>2, FS_Subset, FS_CardinalityType DEF Counts
<1>4. A \cap B = {}
  <2> SUFFICES ASSUME NEW m \in A, m \in B PROVE FALSE
    OBVIOUS
  <2>1. m[1] > r /\ m[1] \in {r - 1, r}
    BY DEF FreeBeyond
  <2> QED
    BY <1>1, <2>1
<1>5. FreeBeyond(ver, NextRight(r)) = A \cup B
  BY BeyondIs
<1> HIDE DEF A, B, k, l
<1>6. Counts(A \cup B, k + l)
  BY <1>2, <1>3, <1>4, CountBoth
<1> QED
  BY <1>2, <1>3, <1>5, <1>6 DEF Counts, A, k, l

\* The scan meets at least as many modules as there are bits.
LEMMA RoomLeft ==
  ASSUME NEW ver \in 1..40
  PROVE  /\ Cardinality(FreeModules(ver)) = getNumRawDataModules(ver)
         /\ Min({Cardinality(FreeModules(ver)), 8 * RawCodewords(ver)}) = 8 * RawCodewords(ver)
<1> DEFINE M == getNumRawDataModules(ver)
<1>1. Cardinality(FreeModules(ver)) = M
  BY CapacityCorrect DEF FreeModules
<1>2. M \in Nat
  <2>1. IsFiniteSet(FreeModules(ver))
    BY GridSize, FS_Subset DEF FreeModules
  <2> QED
    BY <1>1, <2>1, FS_CardinalityType
<1>3. RawCodewords(ver) = M \div 8
  BY DEF RawCodewords
<1> HIDE DEF M
<1>4. 8 * (M \div 8) \in Int /\ 8 * (M \div 8) <= M
  BY <1>2
<1>5. Min({M, 8 * (M \div 8)}) = 8 * (M \div 8)
  BY <1>2, <1>4, MaxOfTwo
<1> QED
  BY <1>1, <1>3, <1>5 DEF M

LEMMA MinAdds ==
  ASSUME NEW k \in Nat, NEW l \in Nat, NEW top \in Nat
  PROVE  Min({Min({k, top}) + l, top}) = Min({k + l, top})
<1>1. Min({k, top}) = IF k <= top THEN k ELSE top
  BY MaxOfTwo
<1>2. Min({k + l, top}) = IF k + l <= top THEN k + l ELSE top
  <2>1. k + l \in Int /\ top \in Int
    OBVIOUS
  <2> QED
    BY <2>1, MaxOfTwo
<1> DEFINE a == IF k <= top THEN k ELSE top
<1>3. a \in Nat /\ a + l \in Int
  OBVIOUS
<1> HIDE DEF a
<1>4. Min({a + l, top}) = IF a + l <= top THEN a + l ELSE top
  BY <1>3, MaxOfTwo
<1>5. (IF a + l <= top THEN a + l ELSE top) = IF k + l <= top THEN k + l ELSE top
  BY DEF a
<1> QED
  BY <1>1, <1>2, <1>4, <1>5 DEF a

-----------------------------------------------------------------------------
(* The search for a version.                                               *)

\* The level is raised as far as the version allows.
LEMMA BoostedRight ==
  ASSUME NEW t, NEW ver, NEW e \in 0..3, Fits(t, ver, e)
  PROVE  /\ Boosted(t, ver, e) \in e..3 /\ Fits(t, ver, Boosted(t, ver, e))
         /\ \A f \in (Boosted(t, ver, e) + 1)..3 : ~Fits(t, ver, f)
<1> DEFINE levels == {e} \cup {new \in 1..3 : Fits(t, ver, new)}
           top == Boosted(t, ver, e)
<1>1. \A f \in levels : f \in 0..3 /\ Fits(t, ver, f)
  OBVIOUS
<1>2. \E f \in levels : \A g \in levels : f >= g
  <2>1. e \in levels
    OBVIOUS
  <2> HIDE DEF levels
  <2> QED
    BY <1>1, <2>1
<1>3. top = CHOOSE f \in levels : \A g \in levels : f >= g
  BY Zenon DEF Boosted, Max
<1> HIDE DEF top
<1>4. top \in levels /\ \A g \in levels : top >= g
  BY <1>2, <1>3
<1>5. top \in e..3 /\ Fits(t, ver, top)
  BY <1>1, <1>4
<1>6. ASSUME NEW f \in (top + 1)..3 PROVE ~Fits(t, ver, f)
  <2>1. f \in 1..3 /\ ~(top >= f)
    BY <1>5
  <2> QED
    BY <1>4, <2>1
<1> QED
  BY <1>5, <1>6 DEF top

\* The versions below the one that is tried are too small; the text fits
\* from the moment one is found.
VersionInv ==
  /\ version \in 1..MAX_VERSION
  /\ \A v \in 1..(version - 1) : ~Fits(text, v, StartEcl)
  /\ pc = "version" => ecl = StartEcl
  /\ pc = "tooLong" => version = MAX_VERSION /\ ~Fits(text, version, StartEcl)
  /\ pc \notin {"version", "tooLong"} =>
       /\ ecl \in StartEcl..3 /\ Fits(text, version, ecl)
       /\ \A e \in (ecl + 1)..3 : ~Fits(text, version, e)

LEMMA InitVersion == Init => VersionInv
BY DEF Init, VersionInv, MAX_VERSION

LEMMA NextVersionInv == VersionInv /\ [Next]_vars => VersionInv'
<1> SUFFICES ASSUME VersionInv, [Next]_vars PROVE VersionInv'
  OBVIOUS
<1>1. CASE NextVersion
  <2>1. ~Fits(text, version, StartEcl) /\ ecl' = ecl /\ text' = text /\ ecl = StartEcl
    BY <1>1 DEF NextVersion, VersionInv
  <2>2. CASE version < MAX_VERSION
    <3>1. version' = version + 1 /\ pc' = pc /\ pc = "version"
      BY <1>1, <2>2 DEF NextVersion
    <3>2. version' \in 1..MAX_VERSION
      BY <2>2, <3>1 DEF VersionInv, MAX_VERSION
    <3>3. ASSUME NEW v \in 1..(version' - 1) PROVE ~Fits(text, v, StartEcl)
      <4>1. v \in 1..(version - 1) \/ v = version
        BY <3>1 DEF VersionInv, MAX_VERSION
      <4> QED
        BY <2>1, <4>1 DEF VersionInv
    <3> QED
      BY <2>1, <3>1, <3>2, <3>3 DEF VersionInv
  <2>3. CASE ~(version < MAX_VERSION)
    <3>1. version' = version /\ pc' = "tooLong" /\ version = MAX_VERSION
      BY <1>1, <2>3 DEF NextVersion, VersionInv, MAX_VERSION
    <3> QED
      BY <2>1, <3>1 DEF VersionInv
  <2> QED
    BY <2>2, <2>3
<1>2. CASE VersionFound
  <2>1. /\ pc' = "patterns" /\ text' = text /\ version' = version
        /\ ecl' = Boosted(text, version, StartEcl) /\ Fits(text, version, StartEcl)
    BY <1>2 DEF VersionFound, VersionInv
  <2>2. /\ ecl' \in StartEcl..3 /\ Fits(text, version, ecl')
        /\ \A e \in (ecl' + 1)..3 : ~Fits(text, version, e)
    BY <2>1, EclAssumption, BoostedRight
  <2> QED
    BY <2>1, <2>2 DEF VersionInv
<1>3. ASSUME UNCHANGED <<text, version, ecl>>, pc \notin {"version", "tooLong"},
             pc' \notin {"version", "tooLong"}
      PROVE  VersionInv'
  BY <1>3 DEF VersionInv
<1>4. CASE drawFunctionPatterns
  BY <1>3, <1>4 DEF drawFunctionPatterns
<1>5. CASE addEccAndInterleave
  BY <1>3, <1>5 DEF addEccAndInterleave
<1>6. CASE drawCodewords
  BY <1>3, <1>6 DEF drawCodewords
<1>7. CASE CodewordsDrawn
  BY <1>3, <1>7 DEF CodewordsDrawn
<1>8. CASE TryMask
  BY <1>3, <1>8 DEF TryMask
<1>9. CASE ScoreMask
  BY <1>3, <1>9 DEF ScoreMask
<1>10. CASE Finish
  BY <1>3, <1>10 DEF Finish
<1>11. CASE UNCHANGED vars
  BY <1>11 DEF vars, VersionInv
<1> QED
  BY <1>1, <1>2, <1>4, <1>5, <1>6, <1>7, <1>8, <1>9, <1>10, <1>11 DEF Next

LEMMA VersionCorrect == Spec => []VersionInv
BY InitVersion, NextVersionInv, PTL DEF Spec

\* encodeSegments takes the smallest version that holds the text at the level
\* asked for, and the highest level that this version allows.
THEOREM SmallestFitCorrect == Spec => []SmallestFit
<1>1. VersionInv => SmallestFit
  <2> SUFFICES ASSUME VersionInv, pc \notin {"version", "tooLong"}
               PROVE  /\ Fits(text, version, ecl) /\ ecl >= StartEcl
                      /\ \A v \in 1..(version - 1) : ~Fits(text, v, StartEcl)
                      /\ \A e \in (ecl + 1)..3 : ~Fits(text, version, e)
    BY DEF SmallestFit
  <2>1. ecl \in StartEcl..3
    BY DEF VersionInv
  <2>2. ecl >= StartEcl
    BY <2>1, EclAssumption
  <2> QED
    BY <2>2 DEF VersionInv
<1> QED
  BY <1>1, VersionCorrect, PTL

\* encodeSegments gives a text up ("Data too long") only when no version
\* holds it at the level asked for.
THEOREM TooLongCorrect ==
  Spec => [](pc = "tooLong" => \A v \in 1..MAX_VERSION : ~Fits(text, v, StartEcl))
<1>1. VersionInv => (pc = "tooLong" => \A v \in 1..MAX_VERSION : ~Fits(text, v, StartEcl))
  <2> SUFFICES ASSUME VersionInv, pc = "tooLong", NEW v \in 1..MAX_VERSION
               PROVE  ~Fits(text, v, StartEcl)
    OBVIOUS
  <2>1. version = MAX_VERSION /\ ~Fits(text, version, StartEcl)
    BY DEF VersionInv
  <2>2. v \in 1..(version - 1) \/ v = version
    BY <2>1 DEF MAX_VERSION
  <2> QED
    BY <2>1, <2>2 DEF VersionInv
<1> QED
  BY <1>1, VersionCorrect, PTL

-----------------------------------------------------------------------------
(* The bits that are drawn.                                                *)

\* While the codewords are drawn, as many bits are drawn as there are free
\* modules beyond the columns that come next, as long as there are bits.
RoomInv ==
  /\ pc \in {"ecc", "codewords"} => isFunction = FunctionModules(version)
  /\ pc \in {"version", "patterns", "ecc"} => drawn = 0
  /\ pc = "codewords" =>
       /\ Len(codewords) = RawCodewords(version)
       /\ right \in RightColumns(version)
       /\ drawn = Min({Cardinality(FreeBeyond(version, right)), 8 * RawCodewords(version)})
  /\ pc \in {"mask", "score", "done"} => drawn = 8 * RawCodewords(version)

LEMMA InitRoom == Init => RoomInv
BY DEF Init, RoomInv

LEMMA NextRoom == VersionInv /\ RoomInv /\ [Next]_vars => RoomInv'
<1> SUFFICES ASSUME VersionInv, RoomInv, [Next]_vars PROVE RoomInv'
  OBVIOUS
<1>1. version \in 1..40 /\ (pc \notin {"version", "tooLong"} => ecl \in 0..3)
  BY EclAssumption DEF VersionInv, MAX_VERSION
<1>2. RawCodewords(version) \in Nat
  BY <1>1, BlocksFit, 0 \in 0..3
<1>3. CASE NextVersion
  BY <1>3 DEF NextVersion, RoomInv
<1>4. CASE VersionFound
  BY <1>4 DEF VersionFound, RoomInv
<1>5. CASE drawFunctionPatterns
  BY <1>5 DEF drawFunctionPatterns, RoomInv
<1>6. CASE addEccAndInterleave
  <2>1. /\ pc = "ecc" /\ pc' = "codewords" /\ UNCHANGED <<version, isFunction, drawn>>
        /\ codewords' = Interleaved(codewords, version, ecl) /\ right' = Size(version) - 1
    BY <1>6 DEF addEccAndInterleave
  <2>2. isFunction = FunctionModules(version) /\ drawn = 0
    BY <2>1 DEF RoomInv
  <2>3. Len(codewords') = RawCodewords(version)
    BY <1>1, <2>1, InterleavedLength
  <2>4. right' \in RightColumns(version)
    BY <1>1, <2>1, FirstRight
  <2>5. Cardinality(FreeBeyond(version, right')) = 0
    BY <1>1, <2>1, BeyondIs, FS_EmptySet
  <2>6. Min({0, 8 * RawCodewords(version)}) = 0
    BY <1>2, MaxOfTwo
  <2> QED
    BY <2>1, <2>2, <2>3, <2>4, <2>5, <2>6 DEF RoomInv
<1>7. CASE drawCodewords
  <2> DEFINE top == 8 * RawCodewords(version)
             k == Cardinality(FreeBeyond(version, right))
             l == Cardinality(FreeAlong(version, right))
  <2>1. /\ pc = "codewords" /\ right >= 1 /\ right' = NextRight(right)
        /\ UNCHANGED <<pc, version, codewords, isFunction>>
    BY <1>7 DEF drawCodewords
  <2>2. /\ isFunction = FunctionModules(version) /\ Len(codewords) = RawCodewords(version)
        /\ right \in RightColumns(version) /\ drawn = Min({k, top})
    BY <2>1 DEF RoomInv
  <2>3. drawn' = Min({drawn + l, top})
    BY <1>7, <2>2 DEF drawCodewords, FreeAlong
  <2>4. /\ k \in Nat /\ l \in Nat /\ NextRight(right) \in RightColumns(version)
        /\ Cardinality(FreeBeyond(version, NextRight(right))) = k + l
    BY <1>1, <2>1, <2>2, BeyondIs, BeyondCount
  <2>5. top \in Nat
    BY <1>2
  <2>6. drawn' = Min({Cardinality(FreeBeyond(version, right')), top})
    <3>1. Cardinality(FreeBeyond(version, right')) = k + l
      BY <2>1, <2>4
    <3> HIDE DEF top, k, l
    <3>2. Min({Min({k, top}) + l, top}) = Min({k + l, top})
      BY <2>4, <2>5, MinAdds
    <3> QED
      BY <2>2, <2>3, <3>1, <3>2, Zenon
  <2> QED
    BY <2>1, <2>2, <2>4, <2>6 DEF RoomInv
<1>8. CASE CodewordsDrawn
  <2>1. pc = "codewords" /\ right < 1 /\ pc' = "mask" /\ UNCHANGED <<version, drawn>>
    BY <1>8 DEF CodewordsDrawn
  <2>2. right = -1
    BY <2>1 DEF RoomInv, RightColumns
  <2>3. drawn = Min({Cardinality(FreeModules(version)), 8 * RawCodewords(version)})
    BY <1>1, <2>1, <2>2, BeyondIs DEF RoomInv
  <2>4. drawn = 8 * RawCodewords(version)
    BY <1>1, <2>3, RoomLeft
  <2> QED
    BY <2>1, <2>4 DEF RoomInv
<1>9. CASE TryMask
  BY <1>9 DEF TryMask, RoomInv
<1>10. CASE ScoreMask
  BY <1>10 DEF ScoreMask, RoomInv
<1>11. CASE Finish
  BY <1>11 DEF Finish, RoomInv
<1>12. CASE UNCHANGED vars
  BY <1>12 DEF vars, RoomInv
<1> QED
  BY <1>3, <1>4, <1>5, <1>6, <1>7, <1>8, <1>9, <1>10, <1>11, <1>12 DEF Next

LEMMA RoomCorrect == Spec => []RoomInv
BY InitRoom, NextRoom, VersionCorrect, PTL DEF Spec

\* The formula for the modules that carry data counts those that the patterns
\* leave free, and the scan has given each bit of each codeword one of them.
THEOREM RoomForAllCorrect == Spec => []RoomForAll
<1>1. ASSUME VersionInv, RoomInv
      PROVE  RoomForAll
  <2>1. version \in 1..40
    BY <1>1 DEF VersionInv, MAX_VERSION
  <2>2. Cardinality(Grid(version) \ FunctionModules(version)) = getNumRawDataModules(version)
    BY <2>1, CapacityCorrect
  <2> QED
    BY <1>1, <2>2 DEF RoomForAll, RoomInv
<1> QED
  BY <1>1, VersionCorrect, RoomCorrect, PTL

-----------------------------------------------------------------------------
(* The choice of a mask.                                                   *)

\* The symbol that a mask makes of the modules d.
Symbol(d, function, ver, e, mask) ==
  drawFormatBits(applyMask(d, function, ver, mask), ver, e, mask)

\* The format lies in the symbol.
LEMMA FormatInGrid == ASSUME NEW ver \in 1..40 PROVE FormatModules(ver) \subseteq Grid(ver)
<1> DEFINE n == Size(ver)
<1>1. n \in Nat /\ n \in 21..177
  BY SizeOf, Zenon
<1> HIDE DEF n
<1>2. ASSUME NEW i \in 0..14
      PROVE  /\ FirstCopy(i) \in (0..(n - 1)) \X (0..(n - 1))
             /\ SecondCopy(ver, i) \in (0..(n - 1)) \X (0..(n - 1))
  <2>1. FirstCopy(i) \in (0..(n - 1)) \X (0..(n - 1))
    BY <1>1 DEF FirstCopy
  <2>2. SecondCopy(ver, i) \in (0..(n - 1)) \X (0..(n - 1))
    BY <1>1 DEF SecondCopy, n
  <2> QED
    BY <2>1, <2>2
<1>3. <<8, n - 8>> \in (0..(n - 1)) \X (0..(n - 1))
  BY <1>1
<1> QED
  BY <1>2, <1>3 DEF FormatModules, Grid, n

LEMMA SymbolInGrid ==
  ASSUME NEW d, NEW function, NEW ver \in 1..40, NEW e, NEW mask
  PROVE  Symbol(d, function, ver, e, mask) \in SUBSET Grid(ver)
<1>1. applyMask(d, function, ver, mask) \subseteq Grid(ver)
  BY Zenon DEF applyMask
<1>2. drawFormatBits(applyMask(d, function, ver, mask), ver, e, mask)
        \subseteq applyMask(d, function, ver, mask) \cup FormatModules(ver)
  BY Zenon DEF drawFormatBits, FormatModules
<1> QED
  BY <1>1, <1>2, FormatInGrid DEF Symbol

\* applyMask undoes itself, and what a symbol holds outside the format does
\* not depend on the format that was drawn before: trying a mask and undoing
\* it changes no symbol that any mask makes.
LEMMA MaskUndone ==
  ASSUME NEW d, NEW function, NEW ver, NEW e, NEW i, NEW mask
  PROVE  LET tried == Symbol(d, function, ver, e, i) IN
         Symbol(applyMask(tried, function, ver, i), function, ver, e, mask)
           = Symbol(d, function, ver, e, mask)
<1> DEFINE tried == Symbol(d, function, ver, e, i)
           undone == applyMask(tried, function, ver, i)
<1>1. \A m \in Grid(ver) \ FormatModules(ver) : m \in tried <=> m \in applyMask(d, function, ver, i)
  BY Zenon DEF Symbol, drawFormatBits, FormatModules
<1>2. \A m \in Grid(ver) \ FormatModules(ver) : m \in undone <=> m \in d
  <2> SUFFICES ASSUME NEW m \in Grid(ver), m \notin FormatModules(ver) PROVE m \in undone <=> m \in d
    OBVIOUS
  <2>1. m \in applyMask(d, function, ver, i) <=>
          ((m \in d) # (m \notin function /\ Inverts(i, m[1], m[2])))
    BY DEF applyMask
  <2>2. m \in undone <=> ((m \in tried) # (m \notin function /\ Inverts(i, m[1], m[2])))
    BY DEF applyMask
  <2> HIDE DEF undone, tried
  <2> QED
    BY <1>1, <2>1, <2>2
<1> HIDE DEF undone, tried
<1>3. applyMask(undone, function, ver, mask) \ FormatModules(ver)
        = applyMask(d, function, ver, mask) \ FormatModules(ver)
  BY <1>2 DEF applyMask
<1> QED
  BY <1>3, Zenon DEF Symbol, drawFormatBits, undone, tried

\* No two modules of the format are the same, so that drawFormatBits leaves in
\* both copies exactly the bits of the code.
LEMMA FormatDrawn ==
  ASSUME NEW d, NEW ver \in 1..40, NEW e, NEW mask, NEW i \in 0..14
  PROVE  LET bits == drawFormatBits(d, ver, e, mask)
             on == Bit(FormatCode(e, mask), i) = 1
         IN (FirstCopy(i) \in bits) = on /\ (SecondCopy(ver, i) \in bits) = on
<1> DEFINE n == Size(ver)
           on == {j \in 0..14 : Bit(FormatCode(e, mask), j) = 1}
<1>1. n \in Nat /\ n \in 21..177
  BY SizeOf, Zenon
<1>2. SecondCopy(ver, i) = IF i < 8 THEN <<n - 1 - i, 8>> ELSE <<8, n - 15 + i>>
  BY DEF SecondCopy
<1>3. ASSUME NEW j \in 0..14
      PROVE  /\ FirstCopy(j) = FirstCopy(i) => j = i
             /\ SecondCopy(ver, j) = SecondCopy(ver, i) => j = i
             /\ FirstCopy(j) # SecondCopy(ver, i)
             /\ SecondCopy(ver, j) # FirstCopy(i)
  <2>1. SecondCopy(ver, j) = IF j < 8 THEN <<n - 1 - j, 8>> ELSE <<8, n - 15 + j>>
    BY DEF SecondCopy
  <2> HIDE DEF n
  <2>2. FirstCopy(j) = FirstCopy(i) => j = i
    BY DEF FirstCopy
  <2>3. SecondCopy(ver, j) = SecondCopy(ver, i) => j = i
    BY <1>1, <1>2, <2>1
  <2>4. FirstCopy(j) # SecondCopy(ver, i)
    BY <1>1, <1>2 DEF FirstCopy
  <2>5. SecondCopy(ver, j) # FirstCopy(i)
    BY <1>1, <2>1 DEF FirstCopy
  <2> QED
    BY <2>2, <2>3, <2>4, <2>5
<1>4. <<8, n - 8>> # FirstCopy(i) /\ <<8, n - 8>> # SecondCopy(ver, i)
  <2> HIDE DEF n
  <2> QED
    BY <1>1, <1>2 DEF FirstCopy
<1>5. FirstCopy(i) \in FormatModules(ver) /\ SecondCopy(ver, i) \in FormatModules(ver)
  BY DEF FormatModules
<1>6. drawFormatBits(d, ver, e, mask) =
        (d \ FormatModules(ver)) \cup {FirstCopy(j) : j \in on} \cup {SecondCopy(ver, j) : j \in on}
          \cup {<<8, n - 8>>}
  BY Zenon DEF drawFormatBits
<1>7. i \in on <=> Bit(FormatCode(e, mask), i) = 1
  OBVIOUS
<1>8. \A j \in on : j \in 0..14
  OBVIOUS
<1> HIDE DEF on, n
<1>9. (FirstCopy(i) \in drawFormatBits(d, ver, e, mask)) = (i \in on)
  BY <1>3, <1>4, <1>5, <1>6, <1>8
<1>10. (SecondCopy(ver, i) \in drawFormatBits(d, ver, e, mask)) = (i \in on)
  BY <1>3, <1>4, <1>5, <1>6, <1>8
<1> QED
  BY <1>7, <1>9, <1>10

\* What the search for the best mask knows after n masks: each mask tried has
\* the penalty of the symbol that it makes of d, and best is the first of the
\* least of them.
Tried(d, n) ==
  /\ penalties \in Seq(Int) /\ Len(penalties) = n
  /\ \A k \in 1..n : /\ penalties[k] = PenaltyScore(Symbol(d, isFunction, version, ecl, k - 1), version)
                     /\ penalties[k] < minPenalty
                     /\ best.penalty <= penalties[k]
  /\ n = 0 => best = [mask |-> -1, penalty |-> minPenalty]
  /\ n > 0 => best.mask \in 0..(n - 1) /\ best.penalty = penalties[best.mask + 1]

\* While a mask is applied, it is what undoing the mask leads to that the
\* penalties are about.
MaskInv ==
  /\ pc \notin {"mask", "score", "done"} =>
       penalties = <<>> /\ best = [mask |-> -1, penalty |-> minPenalty]
  /\ pc = "mask" => Len(penalties) \in 0..8 /\ Tried(dark, Len(penalties))
  /\ pc = "score" =>
       LET i == Len(penalties)
           undone == applyMask(dark, isFunction, version, i)
       IN /\ i \in 0..7 /\ Tried(undone, i)
          /\ dark = Symbol(undone, isFunction, version, ecl, i)
  /\ pc = "done" =>
       /\ best.penalty = PenaltyScore(dark, version)
       /\ \A k \in 1..8 : best.penalty <= penalties[k]
       /\ best.mask \in 0..7 /\ <<ecl, best.mask>> \in FormatsRead(dark, version)

LEMMA InitMask == Init => MaskInv
BY DEF Init, MaskInv

LEMMA NextMask == VersionInv /\ MaskInv /\ [Next]_vars => MaskInv'
<1> SUFFICES ASSUME VersionInv, MaskInv, [Next]_vars PROVE MaskInv'
  OBVIOUS
<1>1. version \in 1..40
  BY DEF VersionInv, MAX_VERSION
<1>2. ASSUME UNCHANGED <<penalties, best>>, pc \notin {"mask", "score", "done"},
             pc' \notin {"mask", "score", "done"}
      PROVE  MaskInv'
  BY <1>2 DEF MaskInv
<1>3. CASE NextVersion
  BY <1>2, <1>3 DEF NextVersion
<1>4. CASE VersionFound
  BY <1>2, <1>4 DEF VersionFound
<1>5. CASE drawFunctionPatterns
  BY <1>2, <1>5 DEF drawFunctionPatterns
<1>6. CASE addEccAndInterleave
  BY <1>2, <1>6 DEF addEccAndInterleave
<1>7. CASE drawCodewords
  BY <1>2, <1>7 DEF drawCodewords
<1>8. CASE CodewordsDrawn
  <2>1. pc' = "mask" /\ penalties' = <<>> /\ best' = [mask |-> -1, penalty |-> minPenalty]
    BY <1>8 DEF CodewordsDrawn, MaskInv
  <2>2. Tried(dark, 0)'
    BY <2>1 DEF Tried
  <2> QED
    BY <2>1, <2>2 DEF MaskInv
<1>9. CASE TryMask
  <2> DEFINE n == Len(penalties)
             undone == applyMask(dark, isFunction, version, n)
  <2>1. /\ n \in 0..7 /\ Tried(dark, n) /\ pc' = "score"
        /\ dark' = Symbol(dark, isFunction, version, ecl, n)
        /\ UNCHANGED <<isFunction, version, ecl, penalties, best>>
    <3>1. /\ pc = "mask" /\ n < 8 /\ pc' = "score"
          /\ dark' = Symbol(dark, isFunction, version, ecl, n)
          /\ UNCHANGED <<isFunction, version, ecl, penalties, best>>
      BY <1>9 DEF TryMask, Symbol
    <3>2. n \in 0..8 /\ Tried(dark, n)
      BY <3>1 DEF MaskInv
    <3> HIDE DEF n
    <3> QED
      BY <3>1, <3>2
  <2>2. \A mask : Symbol(undone', isFunction, version, ecl, mask)
                    = Symbol(dark, isFunction, version, ecl, mask)
    <3>1. undone' = applyMask(Symbol(dark, isFunction, version, ecl, n), isFunction, version, n)
      BY <2>1
    <3> QED
      BY <3>1, MaskUndone
  <2>3. n' = n
    BY <2>1
  <2> HIDE DEF n, undone
  <2>4. Tried(undone, n)'
    BY <2>1, <2>2, <2>3 DEF Tried
  <2>5. dark' = Symbol(undone, isFunction, version, ecl, n)'
    BY <2>1, <2>2, <2>3
  <2> QED
    BY <2>1, <2>3, <2>4, <2>5 DEF MaskInv, n, undone
<1>10. CASE ScoreMask
  <2> DEFINE n == Len(penalties)
             undone == applyMask(dark, isFunction, version, n)
             penalty == PenaltyScore(dark, version)
  <2>1. /\ n \in 0..7 /\ Tried(undone, n) /\ pc' = "mask"
        /\ dark = Symbol(undone, isFunction, version, ecl, n) /\ dark' = undone
        /\ penalties' = Append(penalties, penalty)
        /\ best' = IF penalty < best.penalty THEN [mask |-> n, penalty |-> penalty] ELSE best
        /\ UNCHANGED <<isFunction, version, ecl>>
    BY <1>10 DEF ScoreMask, MaskInv
  <2>2. penalty \in Int /\ penalty < minPenalty
    <3>1. dark \in SUBSET Grid(version)
      BY <1>1, <2>1, SymbolInGrid
    <3>2. penalty \in Nat /\ penalty <= MaxScore
      BY <1>1, <3>1, PenaltyBound
    <3> QED
      BY <3>2, SMT DEF minPenalty, MaxScore
  <2>3. penalty = PenaltyScore(Symbol(undone, isFunction, version, ecl, n), version)
    BY <2>1
  <2> HIDE DEF undone, penalty
  <2>4. /\ penalties' \in Seq(Int) /\ Len(penalties') = n + 1 /\ penalties'[n + 1] = penalty
        /\ \A k \in 1..n : penalties'[k] = penalties[k] /\ penalties[k] \in Int
    BY <2>1, <2>2 DEF Tried
  <2>5. \A k \in 1..(n + 1) :
          /\ penalties'[k] = PenaltyScore(Symbol(undone, isFunction, version, ecl, k - 1), version)
          /\ penalties'[k] < minPenalty
    <3>1. \A k \in 1..(n + 1) : k \in 1..n \/ k = n + 1
      BY <2>1
    <3> QED
      BY <2>1, <2>2, <2>3, <2>4, <3>1 DEF Tried
  <2>6. /\ best'.mask \in 0..n /\ best'.penalty = penalties'[best'.mask + 1]
        /\ \A k \in 1..(n + 1) : best'.penalty <= penalties'[k]
    <3>1. CASE n = 0
      <4>1. best' = [mask |-> 0, penalty |-> penalty]
        BY <2>1, <2>2, <3>1 DEF Tried
      <4> QED
        BY <2>2, <2>4, <3>1, <4>1
    <3>2. CASE n > 0
      <4>1. /\ best.mask \in 0..(n - 1) /\ best.penalty = penalties[best.mask + 1]
            /\ best.penalty \in Int /\ \A k \in 1..n : best.penalty <= penalties[k]
        BY <2>1, <2>4, <3>2 DEF Tried
      <4>2. CASE penalty < best.penalty
        BY <2>1, <2>2, <2>4, <4>1, <4>2
      <4>3. CASE ~(penalty < best.penalty)
        BY <2>1, <2>2, <2>4, <4>1, <4>3
      <4> QED
        BY <4>2, <4>3
    <3> QED
      BY <2>1, <3>1, <3>2
  <2>7. Len(penalties') = n + 1 /\ n + 1 > 0 /\ n + 1 \in 0..8 /\ n + 1 - 1 = n
    <3>1. n \in 0..7 /\ Len(penalties') = n + 1
      BY <2>1, <2>4
    <3> HIDE DEF n
    <3> QED
      BY <3>1
  <2>8. Tried(dark, Len(penalties))'
    <3> HIDE DEF n
    <3> QED
      BY <2>1, <2>4, <2>5, <2>6, <2>7 DEF Tried
  <2> QED
    BY <2>1, <2>7, <2>8 DEF MaskInv
<1>11. CASE Finish
  <2>1. /\ pc' = "done" /\ Tried(dark, 8)
        /\ dark' = Symbol(dark, isFunction, version, ecl, best.mask)
        /\ UNCHANGED <<version, ecl, penalties, best>>
    BY <1>11 DEF Finish, MaskInv, Symbol
  <2>2. best.mask \in 0..7 /\ best.penalty = penalties[best.mask + 1]
    BY <2>1 DEF Tried
  <2>3. best.penalty = PenaltyScore(dark', version) /\ \A k \in 1..8 : best.penalty <= penalties[k]
    BY <2>1, <2>2 DEF Tried
  <2>4. <<ecl, best.mask>> \in FormatsRead(dark', version)
    <3>1. ecl \in 0..3
      BY <1>11, EclAssumption DEF Finish, VersionInv
    <3> DEFINE bits == applyMask(dark, isFunction, version, best.mask)
    <3>2. dark' = drawFormatBits(bits, version, ecl, best.mask)
      BY <2>1 DEF Symbol
    <3> HIDE DEF bits
    <3>3. \A i \in 0..14 :
            /\ (FirstCopy(i) \in dark') = (Bit(FormatCode(ecl, best.mask), i) = 1)
            /\ (SecondCopy(version, i) \in dark') = (Bit(FormatCode(ecl, best.mask), i) = 1)
      BY <1>1, <3>2, FormatDrawn
    <3> QED
      BY <2>2, <3>1, <3>3, Zenon DEF FormatsRead
  <2> QED
    BY <2>1, <2>2, <2>3, <2>4 DEF MaskInv
<1>12. CASE UNCHANGED vars
  BY <1>12 DEF vars, MaskInv, Tried
<1> QED
  BY <1>3, <1>4, <1>5, <1>6, <1>7, <1>8, <1>9, <1>10, <1>11, <1>12 DEF Next

LEMMA MaskCorrect == Spec => []MaskInv
BY InitMask, NextMask, VersionCorrect, PTL DEF Spec

\* The symbol that the generator ends with is one of the eight that it scored,
\* and none of the others has a lower score.
THEOREM BestMaskCorrect == Spec => []BestMask
<1>1. MaskInv => BestMask
  BY DEF MaskInv, BestMask
<1> QED
  BY <1>1, MaskCorrect, PTL

\* Every score that a mask gets agrees with the reference.
THEOREM ScoreRightCorrect == Spec => []ScoreRight
<1>1. ASSUME VersionInv, MaskInv
      PROVE  ScoreRight
  <2> SUFFICES ASSUME pc = "score"
               PROVE  PenaltyScore(dark, version) = ScoreReference(dark, version)
    BY DEF ScoreRight
  <2>1. version \in 1..40
    BY <1>1 DEF VersionInv, MAX_VERSION
  <2> DEFINE undone == applyMask(dark, isFunction, version, Len(penalties))
  <2>2. dark = Symbol(undone, isFunction, version, ecl, Len(penalties))
    BY <1>1 DEF MaskInv
  <2> HIDE DEF undone
  <2>3. dark \in SUBSET Grid(version)
    BY <2>1, <2>2, SymbolInGrid
  <2> QED
    BY <2>1, <2>3, ScoreCorrect
<1> QED
  BY <1>1, VersionCorrect, MaskCorrect, PTL

\* Both copies of the format in the symbol name the level of its error
\* correction and the mask that was chosen, whichever format was drawn last
\* while the masks were tried: what a reader looks at first is right.
THEOREM FormatCorrect ==
  Spec => [](pc = "done" => <<ecl, best.mask>> \in FormatsRead(dark, version))
<1>1. MaskInv => (pc = "done" => <<ecl, best.mask>> \in FormatsRead(dark, version))
  BY DEF MaskInv
<1> QED
  BY <1>1, MaskCorrect, PTL

\* What the code asserts while it chooses the mask holds: every score is in
\* the range that getPenaltyScore asserts, and when the eight are tried one of
\* them has been chosen, because the search starts above that range.
THEOREM AssertionsCorrect ==
  Spec => [](/\ pc = "score" =>
                  PenaltyScore(dark, version) \in Nat /\ PenaltyScore(dark, version) <= MaxScore
             /\ pc = "mask" /\ Len(penalties) = 8 => best.mask \in 0..7)
<1>1. ASSUME VersionInv, MaskInv
      PROVE  /\ pc = "score" =>
                  PenaltyScore(dark, version) \in Nat /\ PenaltyScore(dark, version) <= MaxScore
             /\ pc = "mask" /\ Len(penalties) = 8 => best.mask \in 0..7
  <2>1. version \in 1..40
    BY <1>1 DEF VersionInv, MAX_VERSION
  <2>2. ASSUME pc = "score"
        PROVE  PenaltyScore(dark, version) \in Nat /\ PenaltyScore(dark, version) <= MaxScore
    <3> DEFINE undone == applyMask(dark, isFunction, version, Len(penalties))
    <3>1. dark = Symbol(undone, isFunction, version, ecl, Len(penalties))
      BY <1>1, <2>2 DEF MaskInv
    <3> HIDE DEF undone
    <3>2. dark \in SUBSET Grid(version)
      BY <2>1, <3>1, SymbolInGrid
    <3> QED
      BY <2>1, <3>2, PenaltyBound
  <2>3. pc = "mask" /\ Len(penalties) = 8 => best.mask \in 0..7
    BY <1>1 DEF MaskInv, Tried
  <2> QED
    BY <2>2, <2>3
<1> QED
  BY <1>1, VersionCorrect, MaskCorrect, PTL

=============================================================================
